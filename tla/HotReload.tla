------------------------------ MODULE HotReload ------------------------------
(***************************************************************************)
(* The scheduler of GameThreadActions while mods are uninstalled: the      *)
(* event loop's thread (EventLoop) runs LuaMod::uninstall, which erases a  *)
(* mod's actions under m_thread_actions_mutex and closes its Lua state,    *)
(* between any two locked regions of the passes the other threads are in.  *)
(* What a pass has taken out of the vectors, or remembers by index, is     *)
(* beyond its reach.                                                       *)
(***************************************************************************)
EXTENDS GameThreadActions

CONSTANT LoopThread  \* the event loop's

ASSUME LoopAssumption == LoopThread \in Threads

VARIABLE closed      \* mods whose Lua state is closed

hotVars == <<vars, closed>>

ActionsOf(m) == {a \in Actions : act[a].owner = m}
SimpleOf(m) == {s \in SimpleActions : simpleOwner[s] = m}

\* The mod whose callback t is about to enter, or is in.
Running(t) ==
  IF stack[t] = <<>> THEN {}
  ELSE CASE Top(t).pc \in {"enterSimple", "callSimple"} -> {simpleOwner[Head(Top(t).todo)]}
         [] Top(t).pc \in {"enterDelayed", "callDelayed"} -> {act[Current(Top(t)).id].owner}
         [] OTHER -> {}

\* A call into a closed Lua state is undefined: no behaviour goes on from there.
Defined == \A t \in Threads : Running(t) \cap closed = {}

\* Variant: what is pending is not erased.
UninstallMainOnly(m) ==
  /\ stack[LoopThread] = <<>> /\ making[LoopThread] = 0
  /\ m \notin closed
  /\ closed' = closed \cup {m}
  /\ simple' = [e \in Methods |-> Without(simple[e], SimpleOf(m))]
  /\ queue' = Without(queue, ActionsOf(m))
  /\ UNCHANGED <<pendingSimple, pendingQueue, act, nextAction, simpleOwner, nextSimple, processing, executing,
                 hooked, nextHandle, making, stack, history>>

\* Variant: the pass's flag and vectors are reset.
UninstallClears(m) ==
  /\ stack[LoopThread] = <<>> /\ making[LoopThread] = 0
  /\ m \notin closed
  /\ closed' = closed \cup {m}
  /\ simple' = [e \in Methods |-> Without(simple[e], SimpleOf(m))]
  /\ pendingSimple' = [e \in Methods |-> <<>>]
  /\ queue' = Without(queue, ActionsOf(m))
  /\ pendingQueue' = <<>>
  /\ UNCHANGED <<act, nextAction, simpleOwner, nextSimple, processing, executing,
                 hooked, nextHandle, making, stack, history>>

\* The six std::erase_if and lua_close, under the mutex.
Uninstall(m) ==
  /\ stack[LoopThread] = <<>> /\ making[LoopThread] = 0
  /\ m \notin closed
  /\ closed' = closed \cup {m}
  /\ simple' = [e \in Methods |-> Without(simple[e], SimpleOf(m))]
  /\ pendingSimple' = [e \in Methods |-> Without(pendingSimple[e], SimpleOf(m))]
  /\ queue' = Without(queue, ActionsOf(m))
  /\ pendingQueue' = Without(pendingQueue, ActionsOf(m))
  /\ UNCHANGED <<act, nextAction, simpleOwner, nextSimple, processing, executing,
                 hooked, nextHandle, making, stack, history>>

HotInit == Init /\ closed = {}

\* The steps of the scheduler, with open mods registering and controlling.
SchedulerStep ==
  /\ \/ EngineTickHook
     \/ Tick
     \/ \E t \in Threads :
          \/ ProcessEventHook(t)
          \/ PassStep(t)
          \/ \E m \in Mods \ closed : Registration(t, m) \/ Controlling(t, m)
  /\ UNCHANGED closed

HotNext == Defined /\ (SchedulerStep \/ \E m \in Mods : Uninstall(m))

HotSpec == HotInit /\ [][HotNext]_hotVars
-----------------------------------------------------------------------------
(* Properties.                                                             *)

\* An uninstall takes only its own mod's simple actions away: the others' are still
\* waiting, in a pass or done, each once.
OthersKeepTheirActions ==
  \A s \in 1 .. nextSimple - 1 :
    IF simpleOwner[s] \in closed THEN Cardinality(SimplePlaces(s)) <= 1
                                 ELSE Cardinality(SimplePlaces(s)) = 1

\* No delayed action of an uninstalled mod is listed again, by no merge, no
\* retriggering and no settling.
UninstalledIsErased ==
  \A a \in Range(queue) \cup Range(pendingQueue) : act[a].owner \notin closed

\* A callback runs in an open Lua state.
CallbackStateOpen == Defined
=============================================================================
