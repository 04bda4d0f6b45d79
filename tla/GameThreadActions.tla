------------------------- MODULE GameThreadActions -------------------------
(***************************************************************************)
(* The scheduler that runs Lua callbacks from inside the engine's hooks    *)
(* (UE4SS/src/Mod/LuaMod.cpp).  A mod registers simple actions             *)
(* (ExecuteInGameThread) and delayed ones (timers, loops, frame counters); *)
(* every call of a hooked engine function is a PASS over the static action *)
(* vectors: drain the simple ones, collect the due delayed ones under the  *)
(* mutex, run them WITHOUT it, settle them BY INDEX under it again, merge  *)
(* what was registered meanwhile.  A callback may call back into the       *)
(* engine, so a pass can begin inside a callback of another pass of the    *)
(* same thread, and ProcessEvent passes run on whichever thread calls a    *)
(* UFunction.                                                              *)
(*                                                                         *)
(* One step is one region the code executes under m_thread_actions_mutex,  *)
(* one access of the unguarded re-entrancy flag, or one callback entry or  *)
(* return.                                                                 *)
(***************************************************************************)
EXTENDS Vectors

CONSTANTS
  Mods,           \* Lua mods
  Threads,        \* threads that run Lua or call UFunctions
  GameThread,     \* the one that calls UEngine::Tick
  Available,      \* hooked engine functions (AOB scan and settings), of Methods
  DefaultMethod,  \* m_default_game_thread_method
  Delays,         \* delays a mod asks for, in ms or frames
  MaxDelayed,     \* bound: delayed registrations
  MaxSimple,      \* bound: simple registrations
  MaxHandle,      \* bound: handles given out
  MaxDepth        \* bound: passes nested on one thread

Methods == {"EngineTick", "ProcessEvent"}

ASSUME ThreadAssumption == GameThread \in Threads
ASSUME ModAssumption == Mods # {}
ASSUME MethodAssumption ==
  /\ Available \subseteq Methods
  /\ DefaultMethod \in Methods
ASSUME BoundAssumption ==
  /\ Delays \subseteq Nat
  /\ MaxDelayed \in Nat
  /\ MaxSimple \in Nat
  /\ MaxHandle \in Nat
  /\ MaxDepth \in Nat

Actions == 1 .. MaxDelayed        \* delayed registrations, in order
SimpleActions == 1 .. MaxSimple
Handles == 1 .. MaxHandle

VARIABLES
  simple,         \* m_game_thread_actions and m_engine_tick_actions
  pendingSimple,  \* m_pending_game_thread_actions and m_pending_engine_tick_actions
  queue,          \* m_delayed_game_thread_actions: the order of the actions
  pendingQueue,   \* m_pending_delayed_game_thread_actions
  act,            \* the fields of each delayed action
  simpleOwner,    \* the mod of each simple action
  processing,     \* m_is_processing_actions
  executing,      \* m_is_currently_executing_game_action
  hooked,         \* m_is_engine_tick_hooked, m_is_process_event_hooked
  nextAction, nextSimple,  \* registrations so far, plus one
  nextHandle,     \* m_next_delayed_action_handle
  making,         \* per thread: the counter MakeActionHandle has read, or 0
  stack,          \* per thread: its open passes, the innermost first
  freed,          \* history: actions whose registry reference was released
  fired,          \* history: one-shot actions entered since a call last armed them
  ran             \* history: simple actions, in the order they ran

registry == <<act, queue, pendingQueue, nextAction>>
simples == <<simple, pendingSimple, simpleOwner, nextSimple>>
history == <<freed, fired, ran>>
vars == <<simple, pendingSimple, queue, pendingQueue, act, simpleOwner,
          processing, executing, hooked, nextAction, nextSimple, nextHandle,
          making, stack, freed, fired, ran>>

-----------------------------------------------------------------------------
(* Data.                                                                   *)

\* DelayedActionStatus; its Pending is never assigned.
Statuses == {"Active", "Paused", "Executing", "PendingRemoval"}

\* DelayedGameThreadAction.  "frames" is delay_frames > 0; "delay" is
\* delay_frames or delay_ms; "left" is frames_remaining, or the time until
\* execute_at (time_remaining_ms while paused), never below zero: the code
\* only asks whether either has reached zero.
Attributes ==
  [owner : Mods, handle : Nat, method : Methods, frames : BOOLEAN,
   delay : Nat, left : Nat, looping : BOOLEAN, pauseAfter : BOOLEAN,
   status : Statuses]

Entries == [index : Actions, id : Actions]     \* ReadyDelayedExec

Stages == {"drain", "simple", "enterSimple", "callSimple", "collect",
           "delayed", "enterDelayed", "callDelayed", "merge", "thrown"}

\* The locals of one running hook.
Frames ==
  [exec : Methods, pc : Stages, todo : Seq(SimpleActions),
   deferred : Seq(SimpleActions), ready : SUBSET Entries,
   unrun : SUBSET Entries]

\* The first element of q that is in S.
First(q, S) ==
  q[CHOOSE i \in DOMAIN q : q[i] \in S /\ \A j \in 1 .. i - 1 : q[j] \notin S]

Top(t) == stack[t][1]
At(t, pc) == stack[t] # <<>> /\ Top(t).pc = pc
SetTop(t, f) == stack' = [stack EXCEPT ![t][1] = f]
Goto(t, pc) == SetTop(t, [Top(t) EXCEPT !.pc = pc])

\* The entry stage 2 of process_delayed_actions is at: entries are in index order.
Current(f) == CHOOSE e \in f.unrun : \A o \in f.unrun : e.index <= o.index

\* Lua code, or native code of the game, is running on t outside the hooks.
Outside(t) ==
  /\ making[t] = 0
  /\ stack[t] # <<>> => Top(t).pc \in {"callSimple", "callDelayed"}

\* Mod m's Lua code is running on thread t: a callback of a pass, or, with no
\* pass open, main.lua, a key bind or a UFunction hook.
Calling(t, m) ==
  /\ Outside(t)
  /\ At(t, "callSimple") => simpleOwner[Head(Top(t).todo)] = m
  /\ At(t, "callDelayed") => act[Current(Top(t)).id].owner = m

-----------------------------------------------------------------------------
(* Registering.                                                            *)

\* The method a delay uses: the default one, else the other.
DelayMethods ==
  IF DefaultMethod \in Available THEN {DefaultMethod} ELSE Available

NewAction(m, h, method, frames, d, looping) ==
  [owner |-> m, handle |-> h, method |-> method, frames |-> frames,
   delay |-> d, left |-> d, looping |-> looping, pauseAfter |-> FALSE,
   status |-> "Active"]

\* Append a delayed action to the queue, or to the pending one during a pass.
Insert(a) ==
  /\ nextAction \in Actions
  /\ act' = [act EXCEPT ![nextAction] = a]
  /\ nextAction' = nextAction + 1
  /\ IF processing
     THEN /\ pendingQueue' = Append(pendingQueue, nextAction)
          /\ UNCHANGED queue
     ELSE /\ queue' = Append(queue, nextAction)
          /\ UNCHANGED pendingQueue

\* Variant: new actions go to the front.
ExecuteInGameThreadFront(t, m, method) ==
  /\ Calling(t, m)
  /\ nextSimple \in SimpleActions
  /\ method \in Available
  /\ hooked' = hooked \cup {method}
  /\ simpleOwner' = [simpleOwner EXCEPT ![nextSimple] = m]
  /\ nextSimple' = nextSimple + 1
  /\ simple' = [simple EXCEPT ![method] = <<nextSimple>> \o @]
  /\ UNCHANGED <<registry, pendingSimple, processing, executing, nextHandle, making,
                 stack, history>>

\* ExecuteInGameThread throws unless the method asked for is hooked.
ExecuteInGameThread(t, m, method) ==
  /\ Calling(t, m)
  /\ nextSimple \in SimpleActions
  /\ method \in Available
  /\ hooked' = hooked \cup {method}
  /\ simpleOwner' = [simpleOwner EXCEPT ![nextSimple] = m]
  /\ nextSimple' = nextSimple + 1
  /\ IF processing
     THEN /\ pendingSimple' = [pendingSimple EXCEPT ![method] = Append(@, nextSimple)]
          /\ UNCHANGED simple
     ELSE /\ simple' = [simple EXCEPT ![method] = Append(@, nextSimple)]
          /\ UNCHANGED pendingSimple
  /\ UNCHANGED <<registry, processing, executing, nextHandle, making, stack, history>>

\* The registrations that draw a fresh handle: ExecuteInGameThreadWithDelay and
\* LoopInGameThreadWithDelay (frames = FALSE), ExecuteInGameThreadAfterFrames
\* and LoopInGameThreadAfterFrames.  A delay of zero frames is a time of zero.
RegisterDelayed(t, m, method, frames, d, looping) ==
  /\ Calling(t, m)
  /\ nextHandle \in Handles
  /\ IF frames THEN method = "EngineTick" /\ method \in Available
               ELSE method \in DelayMethods
  /\ Insert(NewAction(m, nextHandle, method, frames /\ d > 0, d, looping))
  /\ nextHandle' = nextHandle + 1
  /\ hooked' = hooked \cup {method, IF frames THEN method ELSE DefaultMethod}
  /\ UNCHANGED <<simples, processing, executing, making, stack, history>>

\* Variant: what is still pending is not looked at.
LiveInQueue(h) ==
  {a \in Range(queue) : act[a].handle = h /\ act[a].status # "PendingRemoval"}

\* Listed, not cancelled actions with handle h, whoever owns them.
LiveWith(h) ==
  {a \in Range(queue) \cup Range(pendingQueue) :
     act[a].handle = h /\ act[a].status # "PendingRemoval"}

\* ExecuteInGameThreadWithDelay(handle, delay, callback): a live handle blocks it.
\* Mods pass handles the counter has given out (delayedactions.md:33).
ExecuteWithHandle(t, m, h, method, d) ==
  /\ Calling(t, m)
  /\ h < nextHandle
  /\ method \in DelayMethods
  /\ LiveWith(h) = {}
  /\ Insert(NewAction(m, h, method, FALSE, d, FALSE))
  /\ hooked' = hooked \cup {method, DefaultMethod}
  /\ UNCHANGED <<simples, processing, executing, nextHandle, making, stack, history>>

\* The action a handle designates: the queue is searched before the pending one.
Selected(S) ==
  IF Range(queue) \cap S # {} THEN First(queue, S) ELSE First(pendingQueue, S)

\* RetriggerableExecuteInGameThreadWithDelay: re-arms the live action of the
\* handle, or registers one.  A frame action keeps counting frames.
Retrigger(t, m, h, method, d) ==
  /\ Calling(t, m)
  /\ h < nextHandle
  /\ method \in DelayMethods
  /\ IF LiveWith(h) = {}
     THEN /\ Insert(NewAction(m, h, method, FALSE, d, FALSE))
          /\ UNCHANGED fired
     ELSE LET a == Selected(LiveWith(h)) IN
          /\ act' = [act EXCEPT ![a].status = "Active",
                                ![a].delay = IF act[a].frames THEN @ ELSE d,
                                ![a].left = IF act[a].frames THEN @ ELSE d]
          /\ fired' = fired \ {a}
          /\ UNCHANGED <<queue, pendingQueue, nextAction>>
  /\ hooked' = hooked \cup {method, DefaultMethod}
  /\ UNCHANGED <<simples, processing, executing, nextHandle, making, stack, freed, ran>>

\* MakeActionHandle increments the counter without the mutex: a read, then a write.
MakeActionHandleRead(t) ==
  /\ Outside(t)
  /\ nextHandle \in Handles
  /\ making' = [making EXCEPT ![t] = nextHandle]
  /\ UNCHANGED <<registry, simples, processing, executing, hooked, nextHandle,
                 stack, history>>

MakeActionHandleWrite(t) ==
  /\ making[t] # 0
  /\ nextHandle' = making[t] + 1
  /\ making' = [making EXCEPT ![t] = 0]
  /\ UNCHANGED <<registry, simples, processing, executing, hooked, stack, history>>

-----------------------------------------------------------------------------
(* Controlling.  A call that finds nothing returns false and changes nothing,*)
(* so only the calls that find an action are steps.                        *)

\* The actions of mod m with handle h and a status of S.
Owned(m, h, S) ==
  {a \in Range(queue) \cup Range(pendingQueue) :
     act[a].handle = h /\ act[a].owner = m /\ act[a].status \in S}

NotCancelled == Statuses \ {"PendingRemoval"}

\* What every control call leaves alone.
Control(t, m, h, S) ==
  /\ Calling(t, m)
  /\ Owned(m, h, S) # {}
  /\ UNCHANGED <<queue, pendingQueue, nextAction, simples, processing, executing,
                 hooked, nextHandle, making, stack, freed, ran>>

ResetDelayedActionTimer(t, m, h) ==
  /\ Control(t, m, h, NotCancelled)
  /\ LET a == Selected(Owned(m, h, NotCancelled)) IN
     /\ act' = [act EXCEPT ![a].left = act[a].delay, ![a].status = "Active"]
     /\ fired' = fired \ {a}

\* get_integer() has removed the handle from the Lua stack, so the read of index
\* 2 finds nothing and lua_tointeger answers zero, whatever delay was passed.  A
\* frame count of zero turns a frame action into a time action that is due.
SecondArgument(d) == 0

SetDelayedActionTimer(t, m, h, d) ==
  /\ Control(t, m, h, NotCancelled)
  /\ LET a == Selected(Owned(m, h, NotCancelled)) IN
     /\ act' = [act EXCEPT ![a].frames = @ /\ SecondArgument(d) > 0,
                           ![a].delay = SecondArgument(d),
                           ![a].left = SecondArgument(d),
                           ![a].status = "Active"]
     /\ fired' = fired \ {a}

\* Only an active action, or a loop that is executing, can be paused; the pause
\* of the latter waits for its callback.
PauseDelayedAction(t, m, h) ==
  LET S == {a \in Owned(m, h, {"Active", "Executing"}) :
              act[a].status = "Active" \/ act[a].looping}
  IN  /\ Control(t, m, h, {"Active", "Executing"})
      /\ S # {}
      /\ act' = IF act[Selected(S)].status = "Active"
                THEN [act EXCEPT ![Selected(S)].status = "Paused"]
                ELSE [act EXCEPT ![Selected(S)].pauseAfter = TRUE]
      /\ UNCHANGED fired

UnpauseDelayedAction(t, m, h) ==
  /\ Control(t, m, h, {"Paused"})
  /\ act' = [act EXCEPT ![Selected(Owned(m, h, {"Paused"}))].status = "Active"]
  /\ UNCHANGED fired

\* Variant: the action is erased at once.
CancelErases(t, m, h) ==
  LET a == Selected(Owned(m, h, NotCancelled)) IN
  /\ Calling(t, m)
  /\ Owned(m, h, NotCancelled) # {}
  /\ act' = [act EXCEPT ![a].status = "PendingRemoval"]
  /\ queue' = Without(queue, {a})
  /\ pendingQueue' = Without(pendingQueue, {a})
  /\ freed' = freed \cup {a}
  /\ UNCHANGED <<nextAction, simples, processing, executing, hooked, nextHandle,
                 making, stack, fired, ran>>

\* Variant: the registry reference is released at once.
CancelReleases(t, m, h) ==
  LET a == Selected(Owned(m, h, NotCancelled)) IN
  /\ Calling(t, m)
  /\ Owned(m, h, NotCancelled) # {}
  /\ act' = [act EXCEPT ![a].status = "PendingRemoval"]
  /\ freed' = freed \cup {a}
  /\ UNCHANGED <<queue, pendingQueue, nextAction, simples, processing, executing,
                 hooked, nextHandle, making, stack, fired, ran>>

\* Cancelling marks the action; the settling of a pass erases it.
CancelDelayedAction(t, m, h) ==
  /\ Control(t, m, h, NotCancelled)
  /\ act' = [act EXCEPT ![Selected(Owned(m, h, NotCancelled))].status =
                           "PendingRemoval"]
  /\ UNCHANGED fired

ClearAllDelayedActions(t, m) ==
  LET mine == {a \in Range(queue) \cup Range(pendingQueue) : act[a].owner = m}
  IN  /\ Calling(t, m)
      /\ act' = [a \in Actions |-> IF a \in mine
                                   THEN [act[a] EXCEPT !.status = "PendingRemoval"]
                                   ELSE act[a]]
      /\ UNCHANGED <<queue, pendingQueue, nextAction, simples, processing,
                     executing, hooked, nextHandle, making, stack, history>>

-----------------------------------------------------------------------------
(* A pass.                                                                 *)

Begin(t, e) ==
  /\ e \in hooked \cap Available
  /\ Len(stack[t]) < MaxDepth
  /\ processing' = TRUE
  /\ stack' = [stack EXCEPT ![t] =
                 <<[exec |-> e, pc |-> "drain", todo |-> <<>>,
                    deferred |-> <<>>, ready |-> {}, unrun |-> {}]>> \o @]
  /\ UNCHANGED <<registry, simples, executing, hooked, nextHandle, making, history>>

\* engine_tick_hook: UEngine::Tick runs on the game thread and does not nest.
EngineTickHook ==
  /\ stack[GameThread] = <<>>
  /\ making[GameThread] = 0
  /\ Begin(GameThread, "EngineTick")

\* process_event_hook: any thread that calls a UFunction, a callback's included.
ProcessEventHook(t) == Outside(t) /\ Begin(t, "ProcessEvent")

\* process_simple_actions takes the whole vector under the mutex ...
TakeSimple(t) ==
  /\ At(t, "drain")
  /\ SetTop(t, [Top(t) EXCEPT !.pc = "simple", !.todo = simple[Top(t).exec]])
  /\ simple' = [simple EXCEPT ![Top(t).exec] = <<>>]
  /\ UNCHANGED <<registry, pendingSimple, simpleOwner, nextSimple, processing,
                 executing, hooked, nextHandle, making, history>>

\* ... then, without it, defers each action if a callback is executing ...
DeferSimple(t) ==
  /\ At(t, "simple") /\ Top(t).todo # <<>> /\ executing
  /\ SetTop(t, [Top(t) EXCEPT !.deferred = Append(@, Head(Top(t).todo)), !.todo = Tail(@)])
  /\ UNCHANGED <<registry, simples, processing, executing, hooked, nextHandle,
                 making, history>>

\* Variant: the flag is not looked at.
CheckSimpleUnguarded(t) ==
  /\ At(t, "simple") /\ Top(t).todo # <<>>
  /\ Goto(t, "enterSimple")
  /\ UNCHANGED <<registry, simples, processing, executing, hooked, nextHandle,
                 making, history>>

\* ... or runs it: the flag is read, then written, and nothing guards it.
CheckSimple(t) ==
  /\ At(t, "simple") /\ Top(t).todo # <<>> /\ ~executing
  /\ Goto(t, "enterSimple")
  /\ UNCHANGED <<registry, simples, processing, executing, hooked, nextHandle,
                 making, history>>

EnterSimple(t) ==
  /\ At(t, "enterSimple")
  /\ executing' = TRUE
  /\ Goto(t, "callSimple")
  /\ UNCHANGED <<registry, simples, processing, hooked, nextHandle, making, history>>

LeaveSimple(t) ==
  /\ At(t, "callSimple") /\ making[t] = 0
  /\ executing' = FALSE
  /\ ran' = Append(ran, Head(Top(t).todo))
  /\ SetTop(t, [Top(t) EXCEPT !.pc = "simple", !.todo = Tail(@)])
  /\ UNCHANGED <<registry, simples, processing, hooked, nextHandle, making,
                 freed, fired>>

\* Variant: the deferred actions replace what was registered meanwhile.
RequeueOverwrites(t) ==
  /\ At(t, "simple") /\ Top(t).todo = <<>>
  /\ simple' = [simple EXCEPT ![Top(t).exec] = Top(t).deferred]
  /\ SetTop(t, [Top(t) EXCEPT !.pc = "collect", !.deferred = <<>>])
  /\ UNCHANGED <<registry, pendingSimple, simpleOwner, nextSimple, processing,
                 executing, hooked, nextHandle, making, history>>

\* The deferred actions go back to the end of the vector.
RequeueDeferred(t) ==
  /\ At(t, "simple") /\ Top(t).todo = <<>>
  /\ simple' = [simple EXCEPT ![Top(t).exec] = @ \o Top(t).deferred]
  /\ SetTop(t, [Top(t) EXCEPT !.pc = "collect", !.deferred = <<>>])
  /\ UNCHANGED <<registry, pendingSimple, simpleOwner, nextSimple, processing,
                 executing, hooked, nextHandle, making, history>>

\* Stage 1 of process_delayed_actions: the active actions of this executor; a
\* frame action loses a frame even when nothing may run.
Eligible(e) == {a \in Range(queue) : act[a].status = "Active" /\ act[a].method = e}
CountedDown(a) ==
  IF act[a].frames /\ act[a].left > 0 THEN act[a].left - 1 ELSE act[a].left
Due(e) == {a \in Eligible(e) : CountedDown(a) = 0 /\ ~executing}

CollectReady(t) ==
  /\ At(t, "collect")
  /\ LET e == Top(t).exec
         due == {[index |-> i, id |-> queue[i]] : i \in {j \in DOMAIN queue : queue[j] \in Due(e)}}
     IN  /\ act' = [a \in Actions |->
                      IF a \in Eligible(e)
                      THEN [act[a] EXCEPT !.left = CountedDown(a),
                                          !.status = IF a \in Due(e) THEN "Executing" ELSE @]
                      ELSE act[a]]
         /\ SetTop(t, [Top(t) EXCEPT !.pc = "delayed", !.ready = due, !.unrun = due])
  /\ UNCHANGED <<queue, pendingQueue, nextAction, simples, processing,
                 executing, hooked, nextHandle, making, history>>

\* Stage 2, without the mutex: an entry is passed over if a callback is executing,
\* on this thread or another.
CheckDelayed(t) ==
  /\ At(t, "delayed") /\ Top(t).unrun # {}
  /\ IF executing THEN SetTop(t, [Top(t) EXCEPT !.unrun = @ \ {Current(Top(t))}])
                  ELSE Goto(t, "enterDelayed")
  /\ UNCHANGED <<registry, simples, processing, executing, hooked, nextHandle,
                 making, history>>

\* get_function_ref throws, outside the TRY, if the reference was released; the
\* hook never gets past that, and the flag stays set.
EnterDelayed(t) ==
  LET a == Current(Top(t)).id IN
  /\ At(t, "enterDelayed")
  /\ executing' = TRUE
  /\ \/ /\ a \notin freed
        /\ Goto(t, "callDelayed")
        /\ fired' = IF act[a].looping THEN fired ELSE fired \cup {a}
     \/ /\ a \in freed
        /\ Goto(t, "thrown")
        /\ UNCHANGED fired
  /\ UNCHANGED <<registry, simples, processing, hooked, nextHandle, making, freed, ran>>

\* The callback returns, or its error is caught by the TRY.
LeaveDelayed(t) ==
  /\ At(t, "callDelayed") /\ making[t] = 0
  /\ executing' = FALSE
  /\ SetTop(t, [Top(t) EXCEPT !.pc = "delayed", !.unrun = @ \ {Current(Top(t))}])
  /\ UNCHANGED <<registry, simples, processing, hooked, nextHandle, making, history>>

\* Variant: a loop is armed with the enumeration's unused status.
SettledPending(a) ==
  IF a.looping THEN [a EXCEPT !.left = a.delay, !.status = "Pending"]
               ELSE [a EXCEPT !.status = "PendingRemoval"]

\* Variant: a one-shot action stays armed.
SettledArmed(a) ==
  IF a.status = "PendingRemoval" THEN a
  ELSE [a EXCEPT !.left = a.delay, !.status = "Active"]

\* Variant: a cancellation by the callback itself is not looked at.
SettledRevived(a) ==
  IF a.looping THEN [a EXCEPT !.left = a.delay, !.status = "Active"]
               ELSE [a EXCEPT !.status = "PendingRemoval"]

\* Stage 3: what the callback's return does to the action now at an index.
Settled(a) ==
  CASE a.status = "PendingRemoval" -> a
    [] a.status # "PendingRemoval" /\ a.pauseAfter ->
         [a EXCEPT !.pauseAfter = FALSE, !.left = a.delay, !.status = "Paused"]
    [] a.status # "PendingRemoval" /\ ~a.pauseAfter /\ a.looping ->
         [a EXCEPT !.left = a.delay, !.status = "Active"]
    [] OTHER -> [a EXCEPT !.status = "PendingRemoval"]

\* Variant: the last index is taken to be out of range.
InRangeStrict(e) == e.index < Len(queue)

\* The vector may have shrunk since stage 1.
InRange(e) == e.index <= Len(queue)

\* Settle what stands at the recorded indices, then erase what is cancelled or done.
SettleReady(t) ==
  /\ At(t, "delayed") /\ Top(t).unrun = {}
  /\ LET touched == {queue[e.index] : e \in {r \in Top(t).ready : InRange(r)}}
         dead == {a \in Range(queue) : act'[a].status = "PendingRemoval"}
     IN  /\ act' = [a \in Actions |-> IF a \in touched THEN Settled(act[a]) ELSE act[a]]
         /\ queue' = Without(queue, dead)
         /\ freed' = freed \cup dead
  /\ SetTop(t, [Top(t) EXCEPT !.pc = "merge", !.ready = {}])
  /\ UNCHANGED <<pendingQueue, nextAction, simples, processing, executing,
                 hooked, nextHandle, making, fired, ran>>

\* Variant: only simple actions are merged.
MergeSimpleOnly(t) ==
  /\ At(t, "merge")
  /\ processing' = FALSE
  /\ LET e == Top(t).exec IN
     /\ simple' = [simple EXCEPT ![e] = @ \o pendingSimple[e]]
     /\ pendingSimple' = [pendingSimple EXCEPT ![e] = <<>>]
  /\ stack' = [stack EXCEPT ![t] = Tail(@)]
  /\ UNCHANGED <<registry, simpleOwner, nextSimple, executing, hooked, nextHandle,
                 making, history>>

\* Variant: only delayed actions are merged.
MergeDelayedOnly(t) ==
  /\ At(t, "merge")
  /\ processing' = FALSE
  /\ queue' = queue \o pendingQueue
  /\ pendingQueue' = <<>>
  /\ stack' = [stack EXCEPT ![t] = Tail(@)]
  /\ UNCHANGED <<act, nextAction, simples, executing, hooked, nextHandle, making,
                 history>>

\* The last locked region: iteration is over, and what waited is appended.
MergePending(t) ==
  /\ At(t, "merge")
  /\ processing' = FALSE
  /\ LET e == Top(t).exec IN
     /\ simple' = [simple EXCEPT ![e] = @ \o pendingSimple[e]]
     /\ pendingSimple' = [pendingSimple EXCEPT ![e] = <<>>]
  /\ queue' = queue \o pendingQueue
  /\ pendingQueue' = <<>>
  /\ stack' = [stack EXCEPT ![t] = Tail(@)]
  /\ UNCHANGED <<act, nextAction, simpleOwner, nextSimple, executing, hooked,
                 nextHandle, making, history>>

\* A unit of time passes for the timers that are running.
Tick ==
  LET running == {a \in Range(queue) \cup Range(pendingQueue) :
                    act[a].status = "Active" /\ ~act[a].frames /\ act[a].left > 0}
  IN  /\ running # {}
      /\ act' = [a \in Actions |-> IF a \in running
                                   THEN [act[a] EXCEPT !.left = @ - 1] ELSE act[a]]
      /\ UNCHANGED <<queue, pendingQueue, nextAction, simples, processing,
                     executing, hooked, nextHandle, making, stack, history>>

-----------------------------------------------------------------------------
Unregistered ==
  NewAction(CHOOSE m \in Mods : TRUE, 0, "EngineTick", FALSE, 0, FALSE)

Init ==
  /\ simple = [e \in Methods |-> <<>>]
  /\ pendingSimple = [e \in Methods |-> <<>>]
  /\ queue = <<>>
  /\ pendingQueue = <<>>
  /\ act = [a \in Actions |-> Unregistered]
  /\ simpleOwner = [s \in SimpleActions |-> CHOOSE m \in Mods : TRUE]
  /\ processing = FALSE
  /\ executing = FALSE
  /\ hooked = {}
  /\ nextAction = 1
  /\ nextSimple = 1
  /\ nextHandle = 1
  /\ making = [t \in Threads |-> 0]
  /\ stack = [t \in Threads |-> <<>>]
  /\ freed = {}
  /\ fired = {}
  /\ ran = <<>>

\* What a pass does after it has begun.
PassStep(t) ==
  \/ TakeSimple(t)
  \/ DeferSimple(t)
  \/ CheckSimple(t)
  \/ EnterSimple(t)
  \/ LeaveSimple(t)
  \/ RequeueDeferred(t)
  \/ CollectReady(t)
  \/ CheckDelayed(t)
  \/ EnterDelayed(t)
  \/ LeaveDelayed(t)
  \/ SettleReady(t)
  \/ MergePending(t)

Registration(t, m) ==
  \/ \E method \in Methods : ExecuteInGameThread(t, m, method)
  \/ \E method \in Methods, frames, looping \in BOOLEAN, d \in Delays :
       RegisterDelayed(t, m, method, frames, d, looping)
  \/ \E h \in Handles, method \in Methods, d \in Delays :
       \/ ExecuteWithHandle(t, m, h, method, d)
       \/ Retrigger(t, m, h, method, d)

Controlling(t, m) ==
  \/ \E h \in Handles :
       \/ ResetDelayedActionTimer(t, m, h)
       \/ \E d \in Delays : SetDelayedActionTimer(t, m, h, d)
       \/ PauseDelayedAction(t, m, h)
       \/ UnpauseDelayedAction(t, m, h)
       \/ CancelDelayedAction(t, m, h)
  \/ ClearAllDelayedActions(t, m)

Next ==
  \/ EngineTickHook
  \/ Tick
  \/ \E t \in Threads :
       \/ ProcessEventHook(t)
       \/ PassStep(t)
       \/ MakeActionHandleRead(t)
       \/ MakeActionHandleWrite(t)
       \/ \E m \in Mods : Registration(t, m) \/ Controlling(t, m)

Spec == Init /\ [][Next]_vars
-----------------------------------------------------------------------------
(* Properties.                                                             *)

\* Every variable keeps its type.
TypeOK ==
  /\ simple \in [Methods -> Seq(SimpleActions)]
  /\ pendingSimple \in [Methods -> Seq(SimpleActions)]
  /\ queue \in Seq(Actions)
  /\ pendingQueue \in Seq(Actions)
  /\ act \in [Actions -> Attributes]
  /\ simpleOwner \in [SimpleActions -> Mods]
  /\ processing \in BOOLEAN
  /\ executing \in BOOLEAN
  /\ hooked \subseteq Methods
  /\ nextAction \in 1 .. MaxDelayed + 1
  /\ nextSimple \in 1 .. MaxSimple + 1
  /\ nextHandle \in 1 .. MaxHandle + 1
  /\ making \in [Threads -> 0 .. MaxHandle]
  /\ stack \in [Threads -> Seq(Frames)]
  /\ freed \subseteq Actions
  /\ fired \subseteq Actions
  /\ ran \in Seq(SimpleActions)

Passes == {p \in Threads \X (1 .. MaxDepth) : p[2] <= Len(stack[p[1]])}
PassOf(p) == stack[p[1]][p[2]]

\* Between stage 1 and stage 3 of process_delayed_actions the mutex is free, and
\* stage 3 addresses the vector by the indices of stage 1: each must still
\* designate the action it was recorded for (LuaMod.cpp:3844, 3928-3934).
IndicesStable ==
  \A p \in Passes : \A e \in PassOf(p).ready :
    /\ e.index <= Len(queue)
    /\ queue[e.index] = e.id

\* Stage 1 passes over an executing action (LuaMod.cpp:3879), so an action left
\* in that status with no pass to settle it would never run or expire again.
ExecutingIsInAPass ==
  \A a \in Actions : act[a].status = "Executing" =>
    \E p \in Passes : \E e \in PassOf(p).ready : e.id = a

\* A callback of a collected action is called through a Lua registry reference
\* (LuaMod.cpp:3918): it was not released since.
ReadyReferencesLive ==
  \A p \in Passes : \A e \in PassOf(p).ready : e.id \notin freed

\* A one-shot action is entered once for each time a call arms it, although a
\* failing or long callback leaves it in the vector until stage 3.
OneShotFiresOnce ==
  \A p \in Passes :
    (PassOf(p).pc = "enterDelayed" /\ ~act[Current(PassOf(p)).id].looping) =>
      Current(PassOf(p)).id \notin fired

\* The flag keeps callbacks from nesting: in a stack of passes at most one is
\* inside a callback that it entered, and only while the flag is set.
CallbacksDoNotNest ==
  LET InCallback == {p \in Passes : PassOf(p).pc \in {"callSimple", "callDelayed"}}
  IN  \A p, q \in InCallback : p = q /\ executing

\* No live handle designates two actions: the overloads that take a handle look
\* for it in both vectors.
LiveHandlesUnique ==
  \A a, b \in {x \in Range(queue) \cup Range(pendingQueue) : act[x].status # "PendingRemoval"} :
    act[a].handle = act[b].handle => a = b

\* A cancelled action stays cancelled: no call, and no settling of the callback
\* that cancelled its own action, revives it.
CancelIsFinal ==
  [][\A a \in Actions : act[a].status = "PendingRemoval" =>
       act'[a].status = "PendingRemoval"]_vars

\* Where simple action s is.
SimplePlaces(s) ==
  {<<"queue", e>> : e \in {x \in Methods : s \in Range(simple[x])}}
    \cup {<<"pending", e>> : e \in {x \in Methods : s \in Range(pendingSimple[x])}}
    \cup {<<"pass", p>> :
             p \in {x \in Passes : s \in Range(PassOf(x).todo \o PassOf(x).deferred)}}
    \cup {<<"ran", n>> : n \in {x \in DOMAIN ran : ran[x] = s}}

\* Simple actions of one method run in the order they were registered.
SimpleActionsInOrder ==
  \A i, j \in DOMAIN ran : i < j => ran[i] < ran[j]

\* A due action of the queue is collected, unless a call re-arms, pauses or
\* cancels it first.
DueIsCollected ==
  \A a \in Actions :
    (a \in Range(queue) \cup Range(pendingQueue) /\ act[a].status = "Active" /\ act[a].left = 0)
      ~> (act[a].status # "Active" \/ act[a].left # 0)

\* A registered simple action runs.
SimpleActionsRun ==
  \A s \in SimpleActions : s < nextSimple ~> s \in Range(ran)

\* The engine ticks every frame, a pass goes on until it ends, callbacks return,
\* and time passes.
FairSpec ==
  /\ Spec
  /\ WF_vars(EngineTickHook)
  /\ WF_vars(Tick)
  /\ \A t \in Threads : WF_vars(PassStep(t))
  /\ \A t \in Threads : WF_vars(MakeActionHandleWrite(t))
=============================================================================
