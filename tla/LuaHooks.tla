------------------------------- MODULE LuaHooks -------------------------------
(***************************************************************************)
(* Hooks of Lua mods on UFunctions (LuaMod.cpp): RegisterHook,             *)
(* UnregisterHook, the pre and post callbacks of a native function, the    *)
(* script hook of a blueprint function, and what LuaMod::uninstall does to *)
(* them on the event loop's thread.                                        *)
(*                                                                         *)
(* A native function's hooks are records of g_hooked_script_function_data  *)
(* whose two hook functions the engine fires.  They take no lock, so each  *)
(* of their tests, calls and removals is a step of its own, between which  *)
(* other threads unregister hooks and uninstall works.  The hooks of a     *)
(* blueprint function share one group, which script_hook runs under        *)
(* m_thread_actions_mutex.  The game thread is a stack of calls, since a   *)
(* callback may call other functions.  How the engine fires callbacks is   *)
(* not under src/: it is modelled as the comment in uninstall says it is   *)
(* relied on.                                                              *)
(***************************************************************************)
EXTENDS Naturals, Sequences

CONSTANTS
  Mods,
  Native,      \* UFunctions with native code
  Script,      \* UFunctions run by ProcessInternal
  MaxHooks,    \* bound: registrations
  MaxDepth,    \* bound: calls within calls
  Sharing,     \* may several mods hook the same blueprint function?
  Recursion,   \* may a post callback cause a call of its own function?
  Interrupts   \* may an uninstall begin while a native hook function of its mod runs, or
               \* close the Lua state while one checks for the mark or removes its hook?

ASSUME HooksAssumption ==
  /\ Native \cap Script = {}
  /\ MaxHooks \in Nat /\ MaxDepth \in Nat
  /\ {Sharing, Recursion, Interrupts} \subseteq BOOLEAN

VARIABLES
  hook,        \* the registrations so far, by identifier
  listed,      \* native hooks whose data exists
  hooked,      \* native hooks whose callbacks the engine holds, removal not requested
  scheduled,   \* native hooks with scheduled_for_removal
  groups,      \* m_script_hook_callbacks: function -> its entries
  owner,       \* function -> the mod that created its group, if there is one
  dropped,     \* script hooks whose registry index is -1
  released,    \* hook -> how often its references were given back
  stage,       \* mod -> how far its uninstall is
  calls        \* the game thread's calls, the innermost one last

registry == <<hook, listed, hooked, scheduled, groups, owner, dropped, released>>
vars == <<registry, stage, calls>>

Functions == Native \cup Script
NoHook == 0
HookIds == 1 .. Len(hook)
IsFirst(h, S) == h \in S /\ \A k \in S : h <= k
HooksOf(m) == {h \in HookIds : hook[h].mod = m}
Stages == {"open", "unhook", "close", "erase", "closed"}
Busy == {"unhook", "close", "erase"}
Uninstalling == \E m \in Mods : stage[m] \in Busy

\* Where the hook function that runs in a call is: before its test of the flag, before
\* Lua, in Lua, before the post hook's last test, or before a step of the removal.
Positions == {"idle", "check", "enter", "lua", "again", "unhook", "unref", "erase"}

Init ==
  /\ hook = <<>> /\ listed = {} /\ hooked = {} /\ scheduled = {}
  /\ groups = [f \in Script |-> {}] /\ owner = [f \in Script |-> {}] /\ dropped = {}
  /\ released = <<>>
  /\ stage = [m \in Mods |-> "open"]
  /\ calls = <<>>
-----------------------------------------------------------------------------
(* The game thread's calls.                                                *)

\* A call under way: its function, its phase, the hooks still to fire, the hook that runs
\* and where, and, for the properties, the hooks marked when it began.
Call(f, phase, todo) ==
  [fn |-> f, phase |-> phase, todo |-> todo, running |-> NoHook, at |-> "idle", marked |-> scheduled]

Current == calls[Len(calls)]
InCallback == calls # <<>> /\ Current.at = "lua"
Caller == hook[Current.running].mod

\* script_hook and uninstall hold m_thread_actions_mutex for as long as they run.
InScriptHook == \E i \in 1 .. Len(calls) : calls[i].phase = "script"
LockFree == ~InScriptHook /\ ~Uninstalling

\* Code of m takes the mutex: in its callback on the game thread, or on another thread.
CanAsk(m) ==
  /\ stage[m] = "open" /\ ~Uninstalling
  /\ (InCallback /\ Caller = m) \/ ~InScriptHook

ContinueWith(call) == calls' = [calls EXCEPT ![Len(calls)] = call]
Return == calls' = SubSeq(calls, 1, Len(calls) - 1)
Passed(call, h) == [call EXCEPT !.todo = @ \ {h}, !.running = NoHook, !.at = "idle"]
Starts(call, h, position) == [call EXCEPT !.running = h, !.at = position]
Moves(position) == ContinueWith([Current EXCEPT !.at = position])
Leaves == ContinueWith(Passed(Current, Current.running))
-----------------------------------------------------------------------------
(* RegisterHook.                                                           *)

Adds(m, f, post) ==
  /\ hook' = Append(hook, [mod |-> m, fn |-> f, post |-> post])
  /\ released' = Append(released, 0)

RegisterNative(m, f, post) ==
  /\ CanAsk(m) /\ Len(hook) < MaxHooks
  /\ Adds(m, f, post)
  /\ listed' = listed \cup {Len(hook) + 1}
  /\ hooked' = hooked \cup {Len(hook) + 1}
  /\ UNCHANGED <<scheduled, groups, owner, dropped, stage, calls>>

RegisterScript(m, f) ==
  /\ CanAsk(m) /\ Len(hook) < MaxHooks
  /\ Sharing \/ \A h \in HookIds : hook[h].fn = f => hook[h].mod = m
  /\ Adds(m, f, FALSE)
  /\ groups' = [groups EXCEPT ![f] = @ \cup {Len(hook) + 1}]
  /\ owner' = [owner EXCEPT ![f] = IF @ = {} THEN {m} ELSE @]
  /\ UNCHANGED <<listed, hooked, scheduled, dropped, stage, calls>>

\* UnregisterHook, by any mod that knows the identifiers: a native hook is marked, a
\* script hook loses its registry index.
UnregisterNative(m, h) ==
  /\ CanAsk(m) /\ h \in listed
  /\ scheduled' = scheduled \cup {h}
  /\ UNCHANGED <<hook, listed, hooked, groups, owner, dropped, released, stage, calls>>

UnregisterScript(m, h) ==
  /\ CanAsk(m) /\ h \in groups[hook[h].fn]
  /\ dropped' = dropped \cup {h}
  /\ UNCHANGED <<hook, listed, hooked, scheduled, groups, owner, released, stage, calls>>

Unregister(m, h) ==
  IF hook[h].fn \in Native THEN UnregisterNative(m, h) ELSE UnregisterScript(m, h)
-----------------------------------------------------------------------------
(* A native function's call.                                               *)

\* The engine's callbacks for f; they are fired in the order of their registration.
CallbacksOf(f) == {h \in hooked : hook[h].fn = f}

\* A function is called: by the game, or by the callback that runs.
MayCall(f) ==
  /\ calls = <<>> \/ InCallback
  /\ Len(calls) < MaxDepth
  /\ Recursion \/ \A i \in 1 .. Len(calls) : ~(calls[i].fn = f /\ calls[i].phase = "post")

CallNative(f) ==
  /\ MayCall(f)
  /\ CallbacksOf(f) # {}
  /\ calls' = Append(calls, Call(f, "pre", CallbacksOf(f)))
  /\ UNCHANGED <<registry, stage>>

\* The next callback of the phase.
Fires(phase, h) ==
  /\ calls # <<>> /\ Current.phase = phase /\ Current.running = NoHook
  /\ IsFirst(h, Current.todo)

\* The engine passes over a callback whose removal was requested.
FireNative(h) ==
  /\ Fires("pre", h) \/ Fires("post", h)
  /\ ContinueWith(IF h \in hooked THEN Starts(Current, h, "check") ELSE Passed(Current, h))
  /\ UNCHANGED <<registry, stage>>

\* A native hook function of the phase is there.
IsAt(phase, position) == calls # <<>> /\ Current.phase = phase /\ Current.at = position

\* The flag as it is read, from memory given back if the data is gone.
Scheduled(h) == IF h \in listed THEN {h \in scheduled} ELSE BOOLEAN

\* lua_unreal_script_function_hook_pre: nothing for a hook that is scheduled for
\* removal, else its callback.
PreChecks ==
  /\ IsAt("pre", "check")
  /\ \E flag \in Scheduled(Current.running) : IF flag THEN Leaves ELSE Moves("enter")
  /\ UNCHANGED <<registry, stage>>

\* Either function calls Lua, whatever became of the flag since its test.
Enters ==
  /\ IsAt("pre", "enter") \/ IsAt("post", "enter")
  /\ Moves("lua")
  /\ UNCHANGED <<registry, stage>>

\* Nothing of the hook's data is used after its pre callback.
PreReturns ==
  /\ IsAt("pre", "lua")
  /\ Leaves
  /\ UNCHANGED <<registry, stage>>

\* The function itself has run.
PreEnds ==
  /\ calls # <<>> /\ Current.phase = "pre" /\ Current.todo = {}
  /\ ContinueWith([Current EXCEPT !.phase = "post", !.todo = CallbacksOf(Current.fn)])
  /\ UNCHANGED <<registry, stage>>

\* Variant: a hook without a post callback is passed over.
PostChecksIfAny ==
  /\ IsAt("post", "check")
  /\ \E flag \in Scheduled(Current.running) :
       IF ~hook[Current.running].post THEN Leaves
       ELSE IF flag THEN Moves("unhook") ELSE Moves("enter")
  /\ UNCHANGED <<registry, stage>>

\* lua_unreal_script_function_hook_post up to its callback, if it has one.
PostChecks ==
  /\ IsAt("post", "check")
  /\ \E flag \in Scheduled(Current.running) :
       IF flag THEN Moves("unhook")
       ELSE IF hook[Current.running].post THEN Moves("enter") ELSE Moves("again")
  /\ UNCHANGED <<registry, stage>>

PostReturns ==
  /\ IsAt("post", "lua")
  /\ Moves("again")
  /\ UNCHANGED <<registry, stage>>

\* The end of it: the return values and the second test.
PostChecksAgain ==
  /\ IsAt("post", "again")
  /\ \E flag \in Scheduled(Current.running) : IF flag THEN Moves("unhook") ELSE Leaves
  /\ UNCHANGED <<registry, stage>>

\* Variant: the callbacks stay.
PostUnhooksNone ==
  /\ IsAt("post", "unhook")
  /\ Moves("unref")
  /\ UNCHANGED <<registry, stage>>

\* Variant: every callback of the function goes.
PostUnhooksAll ==
  /\ IsAt("post", "unhook")
  /\ hooked' = hooked \ CallbacksOf(Current.fn)
  /\ Moves("unref")
  /\ UNCHANGED <<hook, listed, scheduled, groups, owner, dropped, released, stage>>

\* remove_if_scheduled: both callbacks, both references and the thread's, then the data.
PostUnhooks ==
  /\ IsAt("post", "unhook")
  /\ hooked' = hooked \ {Current.running}
  /\ Moves("unref")
  /\ UNCHANGED <<hook, listed, scheduled, groups, owner, dropped, released, stage>>

PostReleases ==
  /\ IsAt("post", "unref")
  /\ released' = [released EXCEPT ![Current.running] = @ + 1]
  /\ Moves("erase")
  /\ UNCHANGED <<hook, listed, hooked, scheduled, groups, owner, dropped, stage>>

\* Variant: the data stays.
PostErasesNothing ==
  /\ IsAt("post", "erase")
  /\ Leaves
  /\ UNCHANGED <<registry, stage>>

PostErases ==
  /\ IsAt("post", "erase")
  /\ listed' = listed \ {Current.running}
  /\ Leaves
  /\ UNCHANGED <<hook, hooked, scheduled, groups, owner, dropped, released, stage>>

PostEnds ==
  /\ calls # <<>> /\ Current.phase = "post" /\ Current.todo = {}
  /\ Return
  /\ UNCHANGED <<registry, stage>>
-----------------------------------------------------------------------------
(* A blueprint function's call: script_hook.  The entries are those there  *)
(* when the loop begins; what a registration on the same function does to  *)
(* the vector meanwhile is not modelled.                                   *)

CallScript(f) ==
  /\ MayCall(f)
  /\ ~Uninstalling
  /\ groups[f] # {}
  /\ calls' = Append(calls, Call(f, "script", groups[f]))
  /\ UNCHANGED <<registry, stage>>

FireScript(h) ==
  /\ Fires("script", h)
  /\ ContinueWith(IF h \in dropped THEN Passed(Current, h) ELSE Starts(Current, h, "lua"))
  /\ UNCHANGED <<registry, stage>>

\* An error in the callback, or in what is made of its value, ends script_hook.
ScriptReturns ==
  /\ IsAt("script", "lua")
  /\ \/ Leaves
     \/ ContinueWith([Passed(Current, Current.running) EXCEPT !.todo = {}])
  /\ UNCHANGED <<registry, stage>>

ScriptEnds ==
  /\ calls # <<>> /\ Current.phase = "script" /\ Current.todo = {}
  /\ Return
  /\ UNCHANGED <<registry, stage>>
-----------------------------------------------------------------------------
(* LuaMod::uninstall, on the event loop's thread and under the mutex.      *)

\* Native hook functions of m that run, on the game thread and at any depth of calls.
RunsNative(m) ==
  \E i \in 1 .. Len(calls) : calls[i].running \in HooksOf(m) /\ calls[i].phase # "script"

RunsNativeOutsideLua(m) ==
  \E i \in 1 .. Len(calls) :
    calls[i].running \in HooksOf(m) /\ calls[i].phase # "script" /\ calls[i].at # "lua"

\* erase_from_container: a group goes with the mod that created it.
ErasesGroups(m) ==
  /\ groups' = [f \in Script |-> IF m \in owner[f] THEN {} ELSE groups[f]]
  /\ owner' = [f \in Script |-> owner[f] \ {m}]

\* Variant: the hooks are not marked first.
UninstallUnmarked(m) ==
  /\ LockFree /\ stage[m] = "open"
  /\ Interrupts \/ ~RunsNative(m)
  /\ stage' = [stage EXCEPT ![m] = "unhook"]
  /\ ErasesGroups(m)
  /\ UNCHANGED <<hook, listed, hooked, scheduled, dropped, released, calls>>

\* Script hooks' groups are erased, native hooks marked.
UninstallBegins(m) ==
  /\ LockFree /\ stage[m] = "open"
  /\ Interrupts \/ ~RunsNative(m)
  /\ stage' = [stage EXCEPT ![m] = "unhook"]
  /\ ErasesGroups(m)
  /\ scheduled' = scheduled \cup (HooksOf(m) \cap listed)
  /\ UNCHANGED <<hook, listed, hooked, dropped, released, calls>>

\* Variant: the engine keeps the callbacks.
UninstallUnhooksNone(m) ==
  /\ stage[m] = "unhook"
  /\ stage' = [stage EXCEPT ![m] = "close"]
  /\ UNCHANGED <<registry, calls>>

UninstallUnhooks(m) ==
  /\ stage[m] = "unhook"
  /\ stage' = [stage EXCEPT ![m] = "close"]
  /\ hooked' = hooked \ (HooksOf(m) \cap listed)
  /\ UNCHANGED <<hook, listed, scheduled, groups, owner, dropped, released, calls>>

\* lua_close gives back the references that were not.
UninstallCloses(m) ==
  /\ stage[m] = "close"
  /\ Interrupts \/ ~RunsNativeOutsideLua(m)
  /\ stage' = [stage EXCEPT ![m] = "erase"]
  /\ released' = [h \in HookIds |-> IF h \in HooksOf(m) \cap listed /\ released[h] = 0 THEN 1 ELSE released[h]]
  /\ UNCHANGED <<hook, listed, hooked, scheduled, groups, owner, dropped, calls>>

UninstallErases(m) ==
  /\ stage[m] = "erase"
  /\ stage' = [stage EXCEPT ![m] = "closed"]
  /\ listed' = listed \ HooksOf(m)
  /\ UNCHANGED <<hook, hooked, scheduled, groups, owner, dropped, released, calls>>
-----------------------------------------------------------------------------
GameThread ==
  \/ \E f \in Native : CallNative(f)
  \/ \E f \in Script : CallScript(f)
  \/ \E h \in HookIds : FireNative(h) \/ FireScript(h)
  \/ PreChecks \/ Enters \/ PreReturns \/ PreEnds
  \/ PostChecks \/ PostReturns \/ PostChecksAgain
  \/ PostUnhooks \/ PostReleases \/ PostErases \/ PostEnds
  \/ ScriptReturns \/ ScriptEnds

ModCode(m) ==
  \/ \E f \in Native, post \in BOOLEAN : RegisterNative(m, f, post)
  \/ \E f \in Script : RegisterScript(m, f)
  \/ \E h \in HookIds : Unregister(m, h)

Uninstall(m) == UninstallBegins(m) \/ UninstallUnhooks(m) \/ UninstallCloses(m) \/ UninstallErases(m)

Next == GameThread \/ \E m \in Mods : ModCode(m) \/ Uninstall(m)

Spec == Init /\ [][Next]_vars
-----------------------------------------------------------------------------
(* Properties.                                                             *)

Calls == [fn : Functions, phase : {"pre", "post", "script"}, todo : SUBSET HookIds, running : HookIds \cup {NoHook},
          at : Positions, marked : SUBSET HookIds]

\* Types; the engine holds callbacks of existing data only, and uninstall is busy with one mod.
TypeOK ==
  /\ hook \in Seq([mod : Mods, fn : Functions, post : BOOLEAN])
  /\ hooked \subseteq listed /\ listed \subseteq HookIds /\ scheduled \subseteq HookIds /\ dropped \subseteq HookIds
  /\ groups \in [Script -> SUBSET HookIds] /\ owner \in [Script -> SUBSET Mods]
  /\ released \in Seq(Nat) /\ Len(released) = Len(hook)
  /\ stage \in [Mods -> Stages]
  /\ \A m, k \in Mods : {stage[m], stage[k]} \subseteq Busy => m = k
  /\ calls \in Seq(Calls)

\* All that is left to do for h's data is to erase it.
IsErased(h) ==
  \/ stage[hook[h].mod] = "erase"
  \/ \E i \in 1 .. Len(calls) : calls[i].running = h /\ calls[i].at = "erase"

\* The references of a native hook are given back once: by the post hook that finds the
\* mark, step by step, or by lua_close, and by neither again when the other came first;
\* its data outlives them only until the erase that comes next.
ReleasedOnce ==
  \A h \in HookIds :
    hook[h].fn \in Native => released[h] = IF h \in listed /\ ~IsErased(h) THEN 0 ELSE 1

\* A hook that nobody unregistered, of a mod that is not uninstalled, is still fired:
\* no other mod's uninstall or unregistration takes it away.
HooksStay ==
  \A h \in HookIds :
    stage[hook[h].mod] = "open" /\ h \notin scheduled \cup dropped =>
      IF hook[h].fn \in Native THEN h \in hooked ELSE h \in groups[hook[h].fn]

\* A call that began after a native hook was unregistered removes it, whichever callbacks
\* and calls within calls it takes (a mod being uninstalled erases its own).
UnregisteredIsRemoved ==
  \A i \in 1 .. Len(calls) :
    calls[i].phase = "post" /\ calls[i].todo = {} =>
      \A h \in calls[i].marked \cap listed : hook[h].fn = calls[i].fn => stage[hook[h].mod] # "open"

\* A hook function that enters or runs Lua, handles what it returned or gives references
\* back, at any depth of calls, is one of a mod whose Lua state is open.
UsesLua == {"enter", "lua", "again", "unref"}

CallbackStateOpen ==
  \A i \in 1 .. Len(calls) :
    calls[i].at \in UsesLua => stage[hook[calls[i].running].mod] \notin {"erase", "closed"}

\* A native hook function that still uses its hook's data (all but a pre hook once it is in
\* Lua) finds it: no removal by a call within the call, no uninstall has erased it.
HookDataIsLive ==
  \A i \in 1 .. Len(calls) :
    calls[i].running # NoHook /\ calls[i].phase # "script" =>
      calls[i].running \in listed \/ (calls[i].phase = "pre" /\ calls[i].at = "lua")
=============================================================================
