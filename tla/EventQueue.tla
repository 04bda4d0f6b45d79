----------------------------- MODULE EventQueue -----------------------------
(***************************************************************************)
(* What UE4SSProgram::queue_event promises: requests wait in the order     *)
(* they were queued, the event loop serves the oldest one, once, and while *)
(* the program runs a waiting request is served.                           *)
(***************************************************************************)
EXTENDS Naturals, Sequences

CONSTANT Requests

VARIABLES
  waiting,  \* queued and not served
  served,   \* in the order they were served
  open      \* the program has not begun to shut down

vars == <<waiting, served, open>>

Init ==
  /\ waiting = <<>>
  /\ served = <<>>
  /\ open = TRUE

Queue(r) ==
  /\ waiting' = Append(waiting, r)
  /\ UNCHANGED <<served, open>>

Serve ==
  /\ waiting # <<>>
  /\ served' = Append(served, Head(waiting))
  /\ waiting' = Tail(waiting)
  /\ UNCHANGED open

Close ==
  /\ open
  /\ open' = FALSE
  /\ UNCHANGED <<waiting, served>>

Next == (\E r \in Requests : Queue(r)) \/ Serve \/ Close

Spec == Init /\ [][Next]_vars

\* The n-th request that was queued is served, unless the program shuts down.
IsServed(n) == Len(served) + Len(waiting) >= n ~> (Len(served) >= n \/ ~open)
=============================================================================
