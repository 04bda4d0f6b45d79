----------------------------- MODULE AsyncWorker -----------------------------
(***************************************************************************)
(* The asynchronous worker of a Lua mod (LuaMod.cpp): ExecuteAsync,        *)
(* ExecuteWithDelay and LoopAsync leave actions in m_pending_actions; the  *)
(* worker thread takes them over and calls those that are due, until       *)
(* LuaMod::uninstall on the event loop's thread stops and joins it.        *)
(*                                                                         *)
(* Its callbacks may need m_thread_actions_mutex, which hooks on the game  *)
(* thread and uninstall take.  Callbacks that queue an event are left out: *)
(* the event loop holds the queue's mutex while it runs uninstall, so one  *)
(* that restarts its mod meanwhile is never joined.                        *)
(***************************************************************************)
EXTENDS Naturals, Sequences, Functions

CONSTANT MaxActions   \* bound: actions asked for

ASSUME WorkerAssumption == MaxActions \in Nat

VARIABLES
  kind,      \* the actions asked for, by identifier
  pending,   \* m_pending_actions
  delayed,   \* m_delayed_actions
  passed,    \* actions whose delay has passed
  batch,     \* a round of remove_if: what was due at its start, what is left, what is kept
  worker,    \* where the thread is; "off" where it is never started (Linux)
  stop,      \* its stop token
  loop,      \* how far uninstall is
  mutex,     \* who holds m_thread_actions_mutex
  called     \* history: the one-shot actions called, in order

asked == <<kind, pending>>
rounds == <<delayed, passed, batch, called>>
vars == <<asked, rounds, worker, stop, loop, mutex>>

Kinds == {"Immediate", "Delayed", "Loop"}
Actions == 1 .. Len(kind)
WorkerStates == {"off", "idle", "batch", "call", "wantsMutex", "return", "exited"}
NoBatch == [due |-> {}, todo |-> <<>>, kept |-> <<>>]

Init ==
  /\ kind = <<>> /\ pending = <<>> /\ delayed = <<>> /\ passed = {} /\ called = <<>>
  /\ batch = NoBatch
  /\ worker \in {"off", "idle"}
  /\ stop = FALSE /\ loop = "idle" /\ mutex = "free"
-----------------------------------------------------------------------------
(* Asking, from any thread that runs the mod's code.                       *)

\* Variant: the newest action is put first.
AskFirst(k) ==
  /\ loop # "closed" /\ Len(kind) < MaxActions
  /\ kind' = Append(kind, k)
  /\ pending' = <<Len(kind) + 1>> \o pending
  /\ UNCHANGED <<rounds, worker, stop, loop, mutex>>

Ask(k) ==
  /\ loop # "closed" /\ Len(kind) < MaxActions
  /\ kind' = Append(kind, k)
  /\ pending' = Append(pending, Len(kind) + 1)
  /\ UNCHANGED <<rounds, worker, stop, loop, mutex>>

DelayPasses(a) ==
  /\ kind[a] # "Immediate"
  /\ passed' = passed \cup {a}
  /\ UNCHANGED <<asked, delayed, batch, called, worker, stop, loop, mutex>>
-----------------------------------------------------------------------------
(* update_async and process_delayed_actions.                               *)

\* Variant: pending actions wait until the worker's own are done.
RoundBeginsIfDone ==
  /\ worker = "idle" /\ ~stop
  /\ delayed' = IF delayed = <<>> THEN pending ELSE delayed
  /\ pending' = IF delayed = <<>> THEN <<>> ELSE pending
  /\ batch' = [due |-> passed, todo |-> delayed', kept |-> <<>>]
  /\ worker' = "batch"
  /\ UNCHANGED <<kind, passed, called, stop, loop, mutex>>

\* The time is read once, then the pending actions are taken over.
RoundBegins ==
  /\ worker = "idle" /\ ~stop
  /\ delayed' = delayed \o pending
  /\ pending' = <<>>
  /\ batch' = [due |-> passed, todo |-> delayed', kept |-> <<>>]
  /\ worker' = "batch"
  /\ UNCHANGED <<kind, passed, called, stop, loop, mutex>>

\* The round's next action.
First == Head(batch.todo)
Due(a) == kind[a] = "Immediate" \/ a \in batch.due
Kept == [batch EXCEPT !.todo = Tail(@), !.kept = Append(@, First)]
Erased == [batch EXCEPT !.todo = Tail(@)]

Keeps ==
  /\ worker = "batch" /\ batch.todo # <<>> /\ ~Due(First)
  /\ batch' = Kept
  /\ UNCHANGED <<asked, delayed, passed, called, worker, stop, loop, mutex>>

Calls ==
  /\ worker = "batch" /\ batch.todo # <<>> /\ Due(First)
  /\ worker' = "call"
  /\ called' = IF kind[First] = "Loop" THEN called ELSE Append(called, First)
  /\ UNCHANGED <<asked, delayed, passed, batch, stop, loop, mutex>>

\* The callback calls a function that takes the mutex (ExecuteInGameThread).
Wants ==
  /\ worker = "call"
  /\ worker' = "wantsMutex"
  /\ UNCHANGED <<asked, rounds, stop, loop, mutex>>

TakesMutex ==
  /\ worker = "wantsMutex" /\ mutex = "free"
  /\ worker' = "return"
  /\ UNCHANGED <<asked, rounds, stop, loop, mutex>>

ReturnsTo(next, again) ==
  /\ batch' = next
  /\ passed' = IF again THEN passed \ {First} ELSE passed
  /\ worker' = "batch"
  /\ UNCHANGED <<asked, delayed, called, stop, loop, mutex>>

\* Variant: an action is kept unless it says otherwise.
ReturnsKeeping ==
  /\ worker \in {"call", "return"}
  /\ ReturnsTo(Kept, TRUE) \/ ReturnsTo(Erased, FALSE)

\* A loop whose callback does not return true goes on, from now; every other action, and a
\* loop whose callback throws, is erased.
Returns ==
  /\ worker \in {"call", "return"}
  /\ (kind[First] = "Loop" /\ ReturnsTo(Kept, TRUE)) \/ ReturnsTo(Erased, FALSE)

RoundEnds ==
  /\ worker = "batch" /\ batch.todo = <<>>
  /\ delayed' = batch.kept
  /\ batch' = NoBatch
  /\ worker' = "idle"
  /\ UNCHANGED <<asked, passed, called, stop, loop, mutex>>

Exits ==
  /\ worker = "idle" /\ stop
  /\ worker' = "exited"
  /\ UNCHANGED <<asked, rounds, stop, loop, mutex>>
-----------------------------------------------------------------------------
(* A hook of the game thread, and uninstall.                               *)

GameTakesMutex ==
  /\ mutex = "free"
  /\ mutex' = "game"
  /\ UNCHANGED <<asked, rounds, worker, stop, loop>>

GameReleasesMutex ==
  /\ mutex = "game"
  /\ mutex' = "free"
  /\ UNCHANGED <<asked, rounds, worker, stop, loop>>

\* Variant: the mutex is taken first.
UninstallLocksFirst ==
  /\ loop = "idle" /\ mutex = "free"
  /\ loop' = "join" /\ stop' = TRUE /\ mutex' = "loop"
  /\ UNCHANGED <<asked, rounds, worker>>

UninstallBegins ==
  /\ loop = "idle"
  /\ loop' = "join" /\ stop' = TRUE
  /\ UNCHANGED <<asked, rounds, worker, mutex>>

\* Variant: the thread is only asked to stop.
UninstallDoesNotJoin ==
  /\ loop = "join" /\ mutex \in {"free", "loop"}
  /\ loop' = "close" /\ mutex' = "loop"
  /\ UNCHANGED <<asked, rounds, worker, stop>>

\* The thread, if there is one, has ended; then the mutex is taken.
UninstallJoins ==
  /\ loop = "join" /\ worker \in {"off", "exited"} /\ mutex \in {"free", "loop"}
  /\ loop' = "close" /\ mutex' = "loop"
  /\ UNCHANGED <<asked, rounds, worker, stop>>

\* lua_close and clear_delayed_actions.
UninstallCloses ==
  /\ loop = "close"
  /\ loop' = "closed" /\ mutex' = "free"
  /\ pending' = <<>> /\ delayed' = <<>>
  /\ UNCHANGED <<kind, passed, batch, called, worker, stop>>
-----------------------------------------------------------------------------
Worker ==
  \/ RoundBegins \/ Keeps \/ Calls \/ Returns \/ RoundEnds \/ Exits
  \/ Wants \/ TakesMutex

Uninstall == UninstallBegins \/ UninstallJoins \/ UninstallCloses

Next ==
  \/ \E k \in Kinds : Ask(k)
  \/ \E a \in Actions : DelayPasses(a)
  \/ Worker
  \/ GameTakesMutex \/ GameReleasesMutex
  \/ Uninstall

\* Threads are scheduled and delays pass; callbacks return, and so do the hooks that hold
\* the mutex, which the others get in the end.
Fairness ==
  /\ WF_vars(Worker) /\ SF_vars(TakesMutex)
  /\ WF_vars(GameReleasesMutex)
  /\ SF_vars(UninstallJoins) /\ WF_vars(UninstallCloses)
  /\ \A a \in 1 .. MaxActions : WF_vars(a \in Actions /\ DelayPasses(a))

Spec == Init /\ [][Next]_vars /\ Fairness
-----------------------------------------------------------------------------
(* Properties.                                                             *)

\* What the round has before it is the list that the worker goes over.
Listed == Range(pending) \cup (IF worker \in {"off", "idle", "exited"} THEN Range(delayed)
                                                             ELSE Range(batch.todo \o batch.kept))

InCall == worker \in {"call", "wantsMutex", "return"}

\* Types; an action is in the lists once.
TypeOK ==
  /\ kind \in Seq(Kinds) /\ called \in Seq(Actions)
  /\ pending \in Seq(Actions) /\ delayed \in Seq(Actions) /\ passed \subseteq Actions
  /\ batch \in [due : SUBSET Actions, todo : Seq(Actions), kept : Seq(Actions)]
  /\ worker \in WorkerStates /\ stop \in BOOLEAN
  /\ loop \in {"idle", "join", "close", "closed"} /\ mutex \in {"free", "game", "loop"}
  /\ IsInjective(pending \o delayed)

\* Until the mod is uninstalled a one-shot action is either waiting or has been called
\* once, whatever is asked for during the calls and however long a round takes.
OneShotsCalledOnce ==
  /\ IsInjective(called)
  /\ loop # "closed" =>
       \A a \in Actions : kind[a] # "Loop" =>
         (a \in Listed <=> a \notin Range(called) \/ (InCall /\ a = First))

\* Immediate actions are called in the order they were asked for.
ImmediateInOrder ==
  \A i, j \in DOMAIN called :
    i < j /\ {kind[called[i]], kind[called[j]]} = {"Immediate"} => called[i] < called[j]

\* No callback of the worker runs in a Lua state that uninstall is closing or has closed.
CallbackStateOpen == InCall => loop \in {"idle", "join"}

\* Where there is a worker every action is called, a loop again and again, unless it is
\* erased or the mod is uninstalled.
ActionsAreCalled ==
  \A a \in 1 .. MaxActions :
    (a \in Actions /\ a \in Listed /\ worker # "off") ~> ((InCall /\ a = First) \/ a \notin Listed \/ loop # "idle")

\* An uninstall comes to its end: it does not wait for a worker that waits for it.
UninstallEnds == loop = "join" ~> loop = "closed"
=============================================================================
