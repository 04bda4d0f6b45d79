------------------------- MODULE AutoReload_proofs -------------------------
(***************************************************************************)
(* The callback of the watcher and the event loop exclude each other, for  *)
(* every number of edits, as long as the rate limit outlasts what it has   *)
(* to: the waking of the loop, and, where it is stamped before the         *)
(* callback, the callback as well.                                         *)
(***************************************************************************)
EXTENDS AutoReload, TLAPS

\* The loop is inside process_sync_request and has accepted a request; it is
\* outside, or has not accepted one yet.
Held == loop \in {"notify", "wait", "asleep"}
Open == loop \in {"top", "update", "look", "accept", "join", "done"}

\* What the atomic says of the two threads.
Rendezvous ==
  /\ watcher \in {"wait", "asleep"} =>
       \/ sync = "WaitForMain" /\ Open
       \/ sync = "WaitForOther" /\ Held
  /\ watcher \in {"find", "replace", "start", "complete"} =>
       sync = "WaitForOther" /\ Held
  /\ watcher \in {"poll", "request", "notify", "stamp", "stopped"} =>
       \/ sync = "Idle" /\ Open /\ loop # "accept"
       \/ sync = "Complete" /\ (Held \/ loop = "resume")

\* Why there is never a second request before the loop has left the first one:
\* while the atomic is Complete, the last notification is recent.
Spaced ==
  /\ watcher = "request" => sync = "Idle"
  /\ watcher \in {"poll", "stopped"} /\ sync = "Complete" => recent
  /\ StampsBefore /\ watcher \notin {"poll", "stopped"} => recent

\* The inductive invariant.
ReloadInv == TypeOK /\ Rendezvous /\ Spaced

\* The rate limit outlasts what it has to.
RateLimitHolds ==
  /\ \A p \in Platforms : "wakeup" \notin SlowOn[p]
  /\ "linux" \in Platforms => "callback" \notin SlowOn["linux"]

-----------------------------------------------------------------------------
\* Every step keeps the types: the bounds of the counters are in the guards.
LEMMA TypesInductive == TypeOK /\ [Next]_vars => TypeOK'
<1> SUFFICES ASSUME TypeOK, [Next]_vars PROVE TypeOK'
  OBVIOUS
<1> USE DEF TypeOK
<1>1. CASE LoopStep
  BY <1>1 DEF LoopStep, LoopBegins, LoopUpdates, LoopLooks, LoopAccepts, LoopNotifies,
       LoopWaits, LoopResumes, LoopEnds, LoopJoins, WatcherWakes, program, files
<1>2. CASE WatcherStep
  <2>1. CASE TakeChange
    <3>1. recent' \in BOOLEAN
      BY <2>1, Zenon DEF TakeChange, StampsBefore
    <3>2. pending' \in Nat /\ watcher' \in {"poll", "request"}
      BY <2>1 DEF TakeChange
    <3> QED
      BY <2>1, <3>1, <3>2 DEF TakeChange, program
  <2>2. CASE WatcherReturns
    BY <2>2 DEF WatcherReturns, StampsBefore, program
  <2>3. CASE WatcherStep /\ ~TakeChange /\ ~WatcherReturns
    BY <2>3 DEF WatcherStep, WatcherAsks, WatcherWaits, WatcherFindsMod, WatcherReplacesMod,
         WatcherStartsMod, WatcherCompletes, WatcherNotifies, WatcherStops, LoopWakes,
         program, files
  <2> QED
    BY <1>2, <2>1, <2>2, <2>3
<1>3. CASE Shutdown
  BY <1>3 DEF Shutdown, program, files
<1>4. CASE Edit
  BY <1>4, EditsAssumption DEF Edit, program
<1>5. CASE RateLimitPasses
  BY <1>5 DEF RateLimitPasses, program
<1>6. CASE UNCHANGED vars
  BY <1>6 DEF vars
<1> QED
  BY <1>1, <1>2, <1>3, <1>4, <1>5, <1>6 DEF Next

LEMMA TypesInitially == Init => TypeOK
<1> SUFFICES ASSUME Init PROVE TypeOK
  OBVIOUS
<1>1. paused \in BOOLEAN /\ running \in BOOLEAN /\ recent \in BOOLEAN
  BY Zenon DEF Init
<1>2. version \in 0 .. MaxEdits /\ loaded \in 0 .. MaxEdits /\ pending \in Nat
  BY EditsAssumption DEF Init
<1> QED
  BY <1>1, <1>2, Zenon DEF Init, TypeOK

\* Type correctness of AutoReload, on both platforms and whatever is slow.
THEOREM TypeCorrect == Spec => []TypeOK
BY TypesInitially, TypesInductive, PTL DEF Spec

-----------------------------------------------------------------------------
\* The loop leaves the rendezvous only when the atomic is Complete, and touches
\* it only to accept a request or to leave.
LEMMA LoopKeepsRendezvous == ReloadInv /\ LoopStep => (Rendezvous /\ Spaced)'
<1> SUFFICES ASSUME ReloadInv, LoopStep PROVE (Rendezvous /\ Spaced)'
  OBVIOUS
<1> USE DEF ReloadInv, TypeOK, Rendezvous, Spaced, Held, Open, StampsBefore, program, files
<1>1. CASE LoopBegins
  BY <1>1 DEF LoopBegins
<1>2. CASE LoopUpdates
  BY <1>2 DEF LoopUpdates
<1>3. CASE LoopLooks
  BY <1>3 DEF LoopLooks
<1>4. CASE LoopAccepts
  BY <1>4 DEF LoopAccepts
<1>5. CASE LoopNotifies
  BY <1>5 DEF LoopNotifies, WatcherWakes
<1>6. CASE LoopWaits
  BY <1>6 DEF LoopWaits
<1>7. CASE LoopResumes
  BY <1>7 DEF LoopResumes
<1>8. CASE LoopEnds
  BY <1>8 DEF LoopEnds
<1>9. CASE LoopJoins
  BY <1>9 DEF LoopJoins
<1> QED
  BY <1>1, <1>2, <1>3, <1>4, <1>5, <1>6, <1>7, <1>8, <1>9 DEF LoopStep

\* The watcher asks only when the atomic is Idle, because its last notification
\* is no longer recent.
LEMMA WatcherKeepsRendezvous == ReloadInv /\ WatcherStep => (Rendezvous /\ Spaced)'
<1> SUFFICES ASSUME ReloadInv, WatcherStep PROVE (Rendezvous /\ Spaced)'
  OBVIOUS
<1> USE DEF ReloadInv, TypeOK, Rendezvous, Spaced, Held, Open, StampsBefore, program, files
<1>1. CASE TakeChange
  BY <1>1 DEF TakeChange
<1>2. CASE WatcherAsks
  BY <1>2 DEF WatcherAsks
<1>3. CASE WatcherWaits
  BY <1>3 DEF WatcherWaits
<1>4. CASE WatcherFindsMod
  BY <1>4 DEF WatcherFindsMod
<1>5. CASE WatcherReplacesMod
  BY <1>5 DEF WatcherReplacesMod
<1>6. CASE WatcherStartsMod
  BY <1>6 DEF WatcherStartsMod
<1>7. CASE WatcherCompletes
  BY <1>7 DEF WatcherCompletes
<1>8. CASE WatcherNotifies
  BY <1>8 DEF WatcherNotifies, LoopWakes
<1>9. CASE WatcherReturns
  BY <1>9 DEF WatcherReturns
<1>10. CASE WatcherStops
  BY <1>10 DEF WatcherStops
<1> QED
  BY <1>1, <1>2, <1>3, <1>4, <1>5, <1>6, <1>7, <1>8, <1>9, <1>10 DEF WatcherStep

\* Time, edits and a shutdown do not disturb the rendezvous.
LEMMA EnvironmentKeepsRendezvous ==
  RateLimitHolds /\ ReloadInv /\ (Shutdown \/ Edit \/ RateLimitPasses)
    => (Rendezvous /\ Spaced)'
<1> SUFFICES ASSUME RateLimitHolds, ReloadInv, Shutdown \/ Edit \/ RateLimitPasses
             PROVE (Rendezvous /\ Spaced)'
  OBVIOUS
<1> USE DEF ReloadInv, TypeOK, Rendezvous, Spaced, Held, Open, StampsBefore, program, files
<1>1. CASE Shutdown
  BY <1>1 DEF Shutdown
<1>2. CASE Edit
  BY <1>2 DEF Edit
<1>3. CASE RateLimitPasses
  BY <1>3 DEF RateLimitPasses, RateLimitHolds, Slow
<1> QED
  BY <1>1, <1>2, <1>3

\* While the callback handles a change, the loop is inside process_sync_request,
\* provided the rate limit outlasts the waking of the loop and, on Linux, the
\* callback.
THEOREM ReloadIsExclusive ==
  ASSUME RateLimitHolds
  PROVE  Spec => []ReloadExcludesLoop
<1>1. Init => ReloadInv
  BY TypesInitially DEF Init, ReloadInv, Rendezvous, Spaced, Open
<1>2. ReloadInv /\ [Next]_vars => ReloadInv'
  <2> SUFFICES ASSUME ReloadInv, [Next]_vars PROVE ReloadInv'
    OBVIOUS
  <2>1. TypeOK'
    BY TypesInductive DEF ReloadInv
  <2>2. (Rendezvous /\ Spaced)'
    <3>1. CASE UNCHANGED vars
      BY <3>1 DEF vars, ReloadInv, Rendezvous, Spaced, Held, Open, StampsBefore
    <3> QED
      BY <3>1, RateLimitHolds, LoopKeepsRendezvous, WatcherKeepsRendezvous,
         EnvironmentKeepsRendezvous DEF Next
  <2> QED
    BY <2>1, <2>2 DEF ReloadInv
<1>3. ReloadInv => ReloadExcludesLoop
  BY DEF ReloadInv, Rendezvous, Held, ReloadExcludesLoop
<1> QED
  BY <1>1, <1>2, <1>3, PTL DEF Spec

-----------------------------------------------------------------------------
\* On Linux the callback never gets past looking for the mod.
LinuxNeverLoads ==
  platform = "linux" => /\ watcher \notin {"replace", "start"}
                        /\ loaded = 0 /\ mod = "started"

\* The Linux watcher reports the file and the callback takes its directory, Scripts,
\* for the mod (UE4SSProgram.cpp:1197): however often the script is written, no
\* version of it is ever loaded.
THEOREM NothingLoadedOnLinux == Spec => []LinuxNeverLoads
<1>1. Init => LinuxNeverLoads
  BY DEF Init, LinuxNeverLoads
<1>2. LinuxNeverLoads /\ [Next]_vars => LinuxNeverLoads'
  <2> SUFFICES ASSUME LinuxNeverLoads, [Next]_vars
               PROVE  LinuxNeverLoads'
    OBVIOUS
  <2> USE DEF LinuxNeverLoads, program, files
  <2>1. CASE LoopStep
    BY <2>1 DEF LoopStep, LoopBegins, LoopUpdates, LoopLooks, LoopAccepts, LoopNotifies,
         LoopWaits, LoopResumes, LoopEnds, LoopJoins, WatcherWakes
  <2>2. CASE WatcherStep
    BY <2>2 DEF WatcherStep, TakeChange, WatcherAsks, WatcherWaits, WatcherFindsMod,
         WatcherReplacesMod, WatcherStartsMod, WatcherCompletes, WatcherNotifies,
         WatcherReturns, WatcherStops, LoopWakes, NamesTheMod
  <2>3. CASE Shutdown \/ Edit \/ RateLimitPasses
    BY <2>3 DEF Shutdown, Edit, RateLimitPasses
  <2>4. CASE UNCHANGED vars
    BY <2>4 DEF vars
  <2> QED
    BY <2>1, <2>2, <2>3, <2>4 DEF Next
<1> QED
  BY <1>1, <1>2, PTL DEF Spec
=============================================================================
