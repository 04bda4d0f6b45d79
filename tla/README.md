# RE-UE4SS-Linux in TLA+

UE4SS is a library that is loaded into an Unreal Engine game and runs Lua and
C++ mods in it. Its own logic is concurrent and re-entrant: the game's threads
call hooked engine functions, the hooks run Lua callbacks, callbacks call back
into the engine, an event loop thread starts, updates and reloads mods, a
watcher thread asks it to stop. These modules model that logic from the code
in `UE4SS/`, check it with TLC and prove parts of it with TLAPS.

## The system

| Component | State | Operations | Hard because |
| --- | --- | --- | --- |
| Game-thread scheduler (`Mod/LuaMod.cpp`, static members of `LuaMod`) | vectors of simple and delayed actions, their pending twins, two flags, a handle counter, one recursive mutex | register, control (reset, set, pause, unpause, cancel, clear), the passes of `engine_tick_hook` and `process_event_hook` | callbacks run without the mutex between two stages that address the vector by index; passes nest and run on several threads; the flags are read and set unlocked |
| Thread synchronizer (`Sync.cpp`) | one atomic | `process_sync_request`, `ScopedThreadSynchronizer`, `sync_and_execute` | two threads wait on the same atomic; a new request can overtake the end of the last |
| Filesystem watcher and automatic reload (`FilesystemWatcher*`, the callback in `UE4SSProgram::update`) | last notification, pending changes, stop token | poll, notify, replace a mod | rate limit, shutdown while a callback waits, two platforms |
| Event loop (`UE4SSProgram::update`) | event queue, `m_mods`, pause and run flags | queue and run events, update mods, key binds | events run under the queue's mutex and take the actions mutex; other threads queue |
| Mod lifecycle (`UE4SSProgram`, `Mod`, `CppMod`, `LuaMod::start_mod`, `uninstall`) | installed and started mods, Lua states, hook containers | setup, install, start, reinstall, restart, uninstall | pointers captured in queued events, hooks that run while a Lua state is closed |
| Linux startup (`tools/linux/run_ue4ss.sh`, `Platform/Linux/EntryLinux.cpp`, `StartupPolicy.cpp`) | environment of each process, started flag, runtime-ready flag, the program object | launcher, preload constructors, `dlopen` interposer, detached init thread, destructor | every process of a launch loads the library and inherits the environment; restoring can fail halfway |
| Lua hooks (`LuaMod.cpp`) | hook data, engine callbacks, groups of script hooks | RegisterHook, UnregisterHook, pre and post callbacks, `script_hook` | hooks unregister hooks and call hooked functions while they run; native ones hold no lock |
| Lua async worker (`LuaMod.cpp`) | pending and delayed actions of a mod, a thread | ExecuteAsync, ExecuteWithDelay, LoopAsync, `update_async` | uninstall must stop a thread whose callbacks need the mutex that uninstall takes |
| Lua binding layer (`deps/first/LuaMadeSimple`) | the Lua stack | get, set, call | getters remove what they read |
| Input (`deps/first/Input`) | key sets, activity flag | register, poll | game and loop threads |
| Settings and INI parser, signature scanner, dumpers and generators, GUI, crash dumper, output devices | | | sequential, or input and output only |

How they interact: Lua code of a mod runs (1) in the mod's main script and key
binds, on the event loop thread, (2) in UFunction hooks, on the thread that
calls the function, and (3) in scheduled actions, inside a pass of the
scheduler. From any of these it may register and control actions, and call a
UFunction, which begins a ProcessEvent pass on the same thread. The watcher
calls the reload callback on its own thread; the callback uninstalls and starts
mods while the event loop stands still in `process_sync_request`. Uninstalling
removes the mod's actions from the scheduler's vectors and closes the Lua state.

What makes each correct: the scheduler runs each action exactly as often as
it was asked to, in order, never after a cancellation, never nested, and settles
the action it ran; the synchronizer lets exactly one of the two threads touch
`m_mods`, and neither waits for ever; a changed script is loaded; the loop runs
each event once and never deadlocks; no callback runs in a closed Lua state; the
program starts in the host alone, once, with the user's environment; a hook's references
and its data go together, once, and the hook with them.
`PROJECT.json` lists the hazards line by line.

## The modules

| Module | Models | Runs | Proofs |
| --- | --- | --- | --- |
| `GameThreadActions` | the scheduler | `EngineTick`, `NestedPasses`, `ClaimLoops` | `GameThreadActions_proofs` |
| `HotReload` | the scheduler composed with `LuaMod::uninstall` on the event loop's thread | `HotReload`, `ClaimUninstall` | `HotReload_proofs` |
| `AutoReload` | synchronizer, watcher, the loop's iteration as one step | `Reload` | `AutoReload_proofs` |
| `EventQueue` | what `queue_event` promises (abstract) | as a property of `EventLoop` | |
| `EventLoop` | event loop, queue, key binds, life of the mods | `EventLoop`, `ClaimRestart` | `EventLoop_proofs` |
| `LuaHooks` | hooks and their removal by uninstall | `Hooks`, `ClaimHooks` | `LuaHooks_proofs` |
| `AsyncWorker` | the worker of a mod and its stop in uninstall | `Async` | `AsyncWorker_proofs` |
| `LinuxStartup` | launcher, processes, constructors | `LinuxStartup` | `LinuxStartup_proofs` |
| `Vectors` | what `std::erase_if` leaves of a vector (`Without`), for the scheduler and `m_mods` | in those of both | `Vectors_proofs` |

An `MC` module gives a specification the constants that a configuration cannot write, its
symmetry, and what a comment or a page of the documentation claims. Where TLC needs no
such thing (`AsyncWorker`) the specification is run itself. `uninstall` appears in
four modules, each with the part of it that concerns the component: it closes and
unlists in `EventLoop`, erases actions in `HotReload`, removes hooks in `LuaHooks`, joins
in `AsyncWorker`. In a specification, a definition marked "Variant" is not used: it is
what a plausible mistake would make of its neighbour, and `PROJECT.json` lists which
property each of them breaks.

## GameThreadActions

| TLA+ | Code |
| --- | --- |
| `simple`, `pendingSimple` | `m_engine_tick_actions`, `m_game_thread_actions` and their `m_pending_` twins, by method |
| `queue`, `pendingQueue`, `act` | `m_delayed_game_thread_actions` and its pending twin: the order, and the fields of each action |
| `processing`, `executing` | `m_is_processing_actions`, `m_is_currently_executing_game_action` |
| `hooked`, `Available` | registered hooks; hooks whose engine function was found |
| `nextHandle`, `making` | `m_next_delayed_action_handle`, and a thread between reading and writing it |
| `stack` | the running hooks of each thread, the innermost first, with their locals `to_run`, `deferred`, `ready` |
| `freed`, `fired`, `ran` | history for the properties |

One step is a region under `m_thread_actions_mutex`, one access of the unguarded
flag, or one entry or return of a callback. `TakeSimple`, `DeferSimple`,
`CheckSimple`, `EnterSimple`, `LeaveSimple` and `RequeueDeferred` are
`process_simple_actions`; `CollectReady`, `CheckDelayed`,
`EnterDelayed`, `LeaveDelayed` and `SettleReady` the three stages of
`process_delayed_actions`; `Begin` and `MergePending` the ends of the hooks. While a
thread is inside a callback (or outside every pass), `Calling` lets it make any
registration or control call, and begin another pass.

Abstractions. `left` is the time or the frames until an action is due and stops at
zero: the code only asks whether that point is reached. The hidden `delay_ms` that a
retrigger writes into a frame action is left out (it is only read after
`SetDelayedActionTimer` turned the action into a timed one). Stage 1 reads the
executing flag once for all its entries. A hook that was registered twice for two mods
is a pass that begins twice. A callback returns, with or without an error; a
`get_function_ref` that throws outside the `TRY` ends the pass at `thrown` with the flag
set. Handles given by mods come from the counter (`delayedactions.md:33`).
Concurrent use of one Lua state by two threads is not modelled: what it does to the
interpreter is undefined. Callbacks of NotifyOnNewObject are not part of the pass.

Runs (all of `MCGameThreadActions`):

- `EngineTick`: only the EngineTick hook, the game thread and the event loop thread
  calling the API, two actions of each kind, one handle. The entries of stage 1 stay valid
  until stage 3 (`IndicesStable`, `ReadyReferencesLive`), nothing stays marked executing
  (`ExecutingIsInAPass`), a one-shot fires once for each arming (`OneShotFiresOnce`), a
  cancellation is final (`CancelIsFinal`); simple actions run and run in order
  (`SimpleActionsRun`, `SimpleActionsInOrder`), and what is due is collected
  (`DueIsCollected`). Two simple actions are enough for an
  order. With one handle one delayed action is live at a time (a second handle exceeds the time a run
  should take), the second being registered when the first has gone; what several at a time do to each other's indices
  is proved, not run (`EngineTickOnlyIsSafe`). Fairness (`FairSpec`): the engine ticks every
  frame, a pass goes on, callbacks return, time passes; none is assumed for mods.
- `NestedPasses`: both hooks, one thread, passes nested twice. `CallbacksDoNotNest` and
  `LiveHandlesUnique`. Deadlock is not checked: a thrown exception ends a pass for good.
- `ClaimLoops` (`LoopsContinue`): with a nested pass, the settlement by index reaches another action, and a
  loop is stuck in Executing (`delayedactions.md:69`).

## HotReload

The event loop's thread runs `Uninstall(m)` between any two locked regions of the passes
of `GameThreadActions`: it erases the mod's entries from the six vectors and closes its Lua
state (`closed`). What a pass has taken out of the vectors, or remembers by index, is out of
its reach. A call into a closed Lua state is undefined, so no behaviour goes on from there
(`Defined`).

- `HotReload`: two mods, two threads, the ProcessEvent hook (its passes begin on either
  thread). No other mod's simple action is lost or doubled (`OthersKeepTheirActions`), and none
  of the mod's delayed actions comes back through a merge, a retrigger or a settlement
  (`UninstalledIsErased`). Deadlock is not checked, since behaviours stop where they are undefined.
- `ClaimUninstall` (`NeverInvalidState`): the comment at `LuaMod.cpp:6070-6071` gives the order of the erasing and
  the closing as what keeps actions from running in an invalid state. It does not suffice: a pass that
  has collected the action enters its callback.

## AutoReload

`sync` is the atomic; `loop` and `watcher` are the positions of the two threads in
`update`/`process_sync_request` and in `poll`, the callback and its
`ScopedThreadSynchronizer`. A waiter of the atomic compares, sleeps, and compares again when
notified. `recent` stands for the rate limit of 4000 ms: it is set before the callback by the Linux
watcher and after it by the Windows one, and `Slow` names what may outlast it. `version` and
`loaded` relate the script to the mod. Left out: mods in `dlls` directories (the callback
returns), read errors, and an exception from `uninstall` (on Windows it ends the
process, on Linux the branch is not reached). `MaxEdits` bounds the edits: one
notification, one that comes while the first is being handled, and one after it.

- `Reload`: both platforms, a slow callback on Windows. Callback and loop exclude each
  other (`ReloadExcludesLoop`), neither waits for ever (`NeitherIsStuck`), and on Windows a
  change that passed the rate limit is loaded (`NotifiedChangeIsLoaded`). On Linux none
  is: see `NothingLoadedOnLinux`.

Fairness: each thread goes on, and time passes. The program may be shut down at any time;
then the watcher's destructor may join a watcher that waits for the loop for ever, so the liveness
properties stop at `~running`, and deadlock is not checked.

## EventQueue and EventLoop

| TLA+ | Code |
| --- | --- |
| `queue`, `done`, `served` | `m_queued_events`, how many of them the running `remove_if` has executed, and history |
| `eventLock`, `actionsLock` | the holders of `m_event_queue_mutex` and `LuaMod::m_thread_actions_mutex` (recursive) |
| `loop`, `job`, `target`, `todo` | where `update` is, and the request it carries out |
| `keys` | the copied callbacks of `Handler::process_event` that are still to be called |
| `mods`, `instances` | `m_mods`, and every `LuaMod` ever made (its id is its position) with its state |
| `caller` | the other threads: outside, in a callback under the mutex, or in `queue_event` |

`Ask`/`Enqueue` are `queue_event` (the flag is read before the mutex is taken), `LoopBegins`
to `BatchEnds` the batch, `ReadKeys` to `LeaveKeyBind` the key binds. `FindMod` to
`StartMod` carry out a restart, uninstall or start, `BeginReinstall` to
`EndReinstall` the hot reload key and the button. A start of a directory without a `main.lua` ends after the
mod of that name that was not started has been deleted (`FindStartable`). On the loop's own thread a request is not
queued but carried out inside the callback that makes it (`AskInKeyBind`).
`m_pause_events_processing` is not a variable here: the loop's thread alone sets it in these
requests, and nobody else reads it (in `AutoReload`, where the watcher sets it, it is).

- `EventLoop`: two mods, one enabled, two threads of which one holds the actions mutex in its
  callbacks, three requests in all, two events per batch (the code has five: with three
  requests, two already leave one behind), one key bind per iteration.
  `EventLoop` implements `EventQueue` (`KeepsPromise`, under the mapping
  `waiting <- NotExecuted`, what `remove_if` has not executed) and serves every request
  (`RequestsAreServed`); no two mods have one name (`NamesUnique`); what runs is listed and what is
  closed is not (`ListedMatchesRunning`); a request by id never hits another mod
  (`IdHitsItsMod`); a reinstall ends with exactly the enabled mods running
  (`ReinstallStartsEnabled`).
- `ClaimRestart` (`RestartIsCarriedOut`): the same with `AskUnderLock`: the thread in a hook queues a restart while it
  holds the actions mutex, and the loop holds the queue's mutex and waits for the other. Nobody
  moves. `modmanagement.md:7` says that the restart is queued for the next update cycle.

Fairness (`FairSpec`): the loop's thread goes on, strongly, since the mutexes it waits for
are released again and again and the implementations let a waiter in; a thread's callback makes
its request and returns. New callbacks and requests come or not. Deadlock is not checked: the
program ends. Bounds `KeySelf = FALSE` and `MaxKeys = 1`: a key bind that restarts or uninstalls
its own mod (which `modmanagement.md` shows) closes the Lua state that runs it, and a
later callback of the same batch of keys may belong to a mod that has gone: both are undefined
behaviour, hazards of the list that no property states.

## LuaHooks

| TLA+ | Code |
| --- | --- |
| `hook`, `listed` | the registrations so far; `g_hooked_script_function_data` |
| `hooked` | native hooks whose callbacks the engine holds (UnregisterHook takes them away, or requests it) |
| `scheduled`, `dropped` | `scheduled_for_removal`; a registry index of -1 |
| `groups`, `owner` | `m_script_hook_callbacks`: the entries of a function, and the mod that created its group |
| `released` | history: how often the references of a hook were given back |
| `stage` | how far `uninstall` of a mod is |
| `calls` | the calls under way on the game thread, with the hooks still to fire, and the position (`at`) of the hook function that runs |

A native call fires its pre hooks, runs, and fires its post hooks (`FireNative` to `PostEnds`).
The two hook functions take no lock (`LuaMod.cpp:131-430`), so what they do is not one step: the
pre hook tests the mark (`PreChecks`), sets up its parameters and enters Lua (`Enters`), returns
(`PreReturns`); the post hook tests the mark (`PostChecks`), calls Lua if it has a callback
(`Enters`, `PostReturns`), handles the return values and tests the mark again
(`PostChecksAgain`), and where it found it removes the hook: callbacks (`PostUnhooks`), references
(`PostReleases`), data (`PostErases`). Between any two of them other threads unregister hooks and uninstall
works, and a hook may thus enter Lua after it was unregistered. A mark read from data that is gone is either
value (`Scheduled`). A blueprint call runs
`script_hook` under the mutex (`CallScript` to `ScriptEnds`). Registering and unregistering happen in
any callback, or on another thread when the mutex is free. Uninstall marks, unhooks, closes and erases
in four steps on the event loop's thread, under the mutex, which native hooks do not take: the steps of the two
threads alternate. An error in a blueprint hook's callback ends `script_hook` (`ScriptReturns`). How the engine fires callbacks is not in the repository; it is modelled as
the comment in `uninstall` (`LuaMod.cpp:6046-6059`) relies on it. The value a callback returns and
the parameters it is given are left out, as is a registration on the blueprint function whose hooks
are being run (the vector it iterates over grows).

- `Hooks`: two mods, a native and a blueprint function, three hooks, calls within calls (3.2 million states).
  References are given back once, by the post hook that removes the hook or by `lua_close`
  (`ReleasedOnce`), no wanted hook is lost (`HooksStay`), an unregistered one
  is removed by the next complete call (`UnregisteredIsRemoved`), hook functions use open
  Lua states (`CallbackStateOpen`) and data that is there (`HookDataIsLive`). Three
  hooks are two of one mod on one function and one of the other. Deadlock is not checked: when
  every mod is uninstalled nothing is left to do.
- `ClaimHooks` (`UnhookedBeforeClose`): two mods on one blueprint function (`Sharing`). The group goes with its
  creator only, so the other mod's entry outlives its Lua state (`LuaMod.cpp:5947`), against the
  comment at `LuaMod.cpp:6046`.

The run excludes three things, by name, and the theorems have them as hypotheses. Each of the
constants can be set to TRUE to see the behaviour.

- `Sharing`: several mods on one blueprint function (`ClaimHooks`).
- `Recursion`: a post callback that causes a call of its own function. The inner call erases the
  data that the outer one still reads: `HookDataIsLive` and `ReleasedOnce` fail.
- `Interrupts`: an uninstall that begins while a native hook function of the mod runs, or closes the
  Lua state while one tests the mark or removes its hook. Nothing in the code prevents it, for the hook functions take no
  lock. Uninstall may then close the state in which a callback runs (`CallbackStateOpen`) and erase the data it
  returns to (`HookDataIsLive`). And a post hook that has read the mark uninstall set, or any earlier one,
  may be overtaken on its way to `luaL_unref` (`LuaMod.cpp:240-256`) by `lua_close` and the erase
  (`LuaMod.cpp:6116-6125`): it gives references of a closed state back a second time, through data that has gone
  (`ReleasedOnce`). The comments at `LuaMod.cpp:6046` and `LuaMod.cpp:6118` say that unhooking first prevents
  this; it does so for hooks whose turn has not come, not for one that has been entered. What the run and the theorems do show
  is everything short of this overlap: marks and unhooking may fall between any two steps of a hook function, the
  close and the erase between those of other mods' hooks and of calls.

Steps are as coarse as this and no coarser: the two `UnregisterHook` calls of a removal are one step, its
`luaL_unref` calls another, and an operation on the vector `g_hooked_script_function_data` is atomic. In the code it is not (a data race:
the erase in `remove_if_scheduled` holds no lock, the loops in uninstall, UnregisterHook and RegisterHook hold one that
it does not take), nor is the use of one Lua state by two threads. Exceptions that leave a native hook function are
left out as well.

## AsyncWorker

`pending`, `delayed` are the two vectors, `batch` the round of `remove_if`, `worker` the
thread, `loop` how far uninstall is, `mutex` the actions mutex, which a callback of the worker may
want (`ExecuteInGameThread`) and the game thread's hooks hold. A loop's callback goes on by default
and ends by returning true or by throwing. On Linux the thread is not started (`worker = "off"` at
first; `LuaMod.hpp:197-208`); the code of the worker is modelled for the builds that do.

- `Async`: three actions. One-shots are called once (`OneShotsCalledOnce`), immediate ones in order
  (`ImmediateInOrder`), every action while the mod stays (`ActionsAreCalled`); no callback runs in a Lua state
  that is being closed (`CallbackStateOpen`), and uninstall ends (`UninstallEnds`), because it joins
  before it takes the mutex.

Fairness: threads are scheduled, delays pass, callbacks and the hooks that hold the mutex
return (weak); a thread that waits for the mutex gets it, although it is taken again and again
(strong). Left out: callbacks that queue an event. The event loop holds the queue's mutex while it runs
uninstall, so such a worker is never joined; it is the circular wait of `ClaimRestart` with a
join in place of a mutex. The worker's spinning while `m_pause_events_processing` (a member of
the mod that nothing sets) is left out too.

## LinuxStartup

A process has its place (`pc`), executable, environment and memory (`started`, `thread`).
A variable that is not set is `{}`, one that is set is `{v}`, so that an empty LD_PRELOAD and none
differ. `Launch` is `run_ue4ss.sh`, `Exec` and `Fork` the system, `AttachSkips` to
`AttachStarts` the outcomes of `ue4ss_so_attached` (`Decision` is `evaluate`, `Restored(e, n)` the
environment after n of the five calls of `restore_original_environment`), `RuntimeReady` the last
constructor, `ThreadRuns` the initialisation thread that has waited for it. Launches may be made
from any shell, inside another launch too. Left out: SELinux checks, usage errors (the script
ends before it exports anything), the `/proc/self/fd` path under which a library whose own path has
a space or a colon is preloaded (`run_ue4ss.sh:149-152`; a wrapper that closes descriptors breaks it), the `dlopen` interposer (it calls C++ mods only), and the
program's destruction. The child of a fork has the parent's flag without its thread.

- `LinuxStartup`: two processes at a time, two executables and the shell, two launches, a user's
  LD_PRELOAD that is unset, empty, or has libraries, UE4SS among them. UE4SS starts in the named host alone
  (`StartsOnlyHost`), no descendant of an accepted host is accepted again for the launch
  (`AcceptedOnce`), host and descendants have the environment back
  (`EnvironmentRestored`), and until then every process of the launch still leads to the host
  (`WrappersLeadToHost`). Two processes are a parent and its child, and processes end and
  their slots are used again. Deadlock is not checked: all may exit.

## What the models show beyond the properties

Behaviours met while modelling, which the models contain and no run is about:

- `SetDelayedActionTimer` always sets a delay of zero: the handle was removed from the Lua stack
  before index 2 is read (`LuaMod.cpp:4821`; `SecondArgument`).
- A cancellation by an earlier callback of the same batch is answered true, and the action is
  entered all the same (`LuaMod.cpp:3910`).
- Delayed actions run on whichever thread calls ProcessEvent, not on the game thread only
  (`LuaMod.cpp:3986`; `delayedactions.md:7`).
- On Linux, with a reload callback longer than the rate limit, the next request overtakes the loop's
  waking and its callback runs beside the loop (`Sync.cpp:20`; set `SlowOn` for linux).
- Two threads in `MakeActionHandle` may be given one handle (`LuaMod.cpp:5450`).

## What is proved

Every safety invariant and action property that a passing run checks is also a theorem, and so
is the refinement of `EventQueue`. Each holds for every value of the constants: all sets of mods, threads, names, functions and
processes, all delays and all bounds. Where a theorem has a further hypothesis, it is part of the statement and given below.

### GameThreadActions_proofs

Without a hypothesis, for any threads, hooks and nesting:

- `TypeCorrect` (`TypeOK`). `TypeOK` alone is not inductive: a frame inside a callback must
  have the action it runs (`ProperFrames`), and the two vectors together must hold no
  more actions than were registered, or an index recorded by stage 1 could exceed the
  bound. `TypeInv` adds both (`TypeInvariant`).
- `CancelFinal` (`CancelIsFinal`): no step, of any thread, takes an action out of PendingRemoval.
- `NoActionTwice`: no delayed action is listed twice, in the vector and its pending twin
  together (`Distinct`). The invariant `ListInv` rests on `Fresh` (what is listed was registered) and
  adds that a one-shot is never told to pause after its callback.
- `NoSimpleActionIsLost`: each registered simple action is in exactly one place: a vector, a
  pending vector, the `to_run` or `deferred` of some open pass, or done. `HeldIn` is the function from all these
  places, for every thread and depth, to their vectors, and the invariant `PlacesInv` says that they are `Apart`
  (nothing twice in one or in two of them) and hold all that was registered. A step of a pass exchanges two of
  the vectors, or moves the head or all of one behind another.

If the ProcessEvent hook is not available (`"ProcessEvent" \notin Available`):

- `EngineTickOnlyIsSafe`, with `ExecutingIsSettled` and `ReferencesStayLive` (`IndicesStable`,
  `ExecutingIsInAPass`, `ReadyReferencesLive`). The invariant `TickInv` says that at
  most one pass is open, on the game thread (`OnePass`), that its entries designate their actions
  (`EntriesHold`: every other step of any thread keeps the indices of the queue, and
  only that pass erases), that every executing action has an entry, and that only
  cancelled actions are released.
- `SimpleActionsKeepOrder` (`SimpleActionsInOrder`): what ran, what the pass holds, the vector and its pending twin
  are one sequence (`Line`), ascending by registration (`LineOK`). Steps of a pass move along it, a
  registration appends to it. That needs `PassShape`: the flags say exactly what the one pass is
  doing, so it never defers and the pending vector is empty between passes.
- `OneShotsFireOnce` (`OneShotFiresOnce`): an entered one-shot that was not armed again is not among the
  entries still to be entered, and is on its way out or about to be settled (`OneShotsOK`).

The hypothesis is needed: with a nested pass the entries of the outer one go stale (`ClaimLoops` shows it), and a
pass that finds the flag set defers its actions behind those registered meanwhile.

If one thread runs Lua and calls UFunctions (`Threads = {GameThread}`), with any hooks and nesting:

- `CallbacksNeverNest` (`CallbacksDoNotNest`): two passes are open at most, the outer one then being inside a callback,
  and the flag is set exactly while one is, or was when it threw (`NestInv`).
- `HandlesStayUnique` (`LiveHandlesUnique`): a handle being made is the next one, and all in use are smaller
  (`HandleInv`).

The hypothesis is needed: the flag is read and set, and the counter incremented, without
the mutex (`LuaMod.cpp:3712`, `LuaMod.cpp:5450`).

### HotReload_proofs

No hypothesis beyond that the event loop's thread is one of the threads. `UninstalledStaysErased` (`UninstalledIsErased`) and
`OthersKeepTheirs` (`OthersKeepTheirActions`), from `HotInvariant`: `TypeInv`, `Fresh`, and `OpenAreHeld`, which is
`PlacesInv` for the mods whose state is open. The steps of `GameThreadActions` are covered by its lemmas, which say of
every step what it lists (`ListedKept`) and what it moves (`NoneMoved`, `OneMore`); what is
left is `Uninstall`, which takes the same set out of every vector (`SomeErased`).

### EventLoop_proofs

For any mods directory, `mods.txt`, threads, requests, key binds and lock-holding
callbacks that make requests (`AskUnderLock`, whose behaviours may stop but do nothing wrong), key binds about
their own mod included (as far as the model follows them). `LoopInvariant` establishes
`LoopInv`: the types; who holds the queue's mutex and which event is carried out under it
(`BatchOK`); who holds the actions mutex (`KeysOK`); and the life of the mods (`LifeOK`), that is, which of the mods listed, running and closed are
which (`ListOK`), what the stage of a request has found (`StageOK`: between `uninstall` and the
erasure the target alone is closed; at the creation no listed mod has the name) and how far a
reinstall has started its candidates (`StartOK`). From it:

- `LoopTypeCorrect` (`TypeOK`), `OneModPerName` (`NamesUnique`), `RunningModsAreListed` (`ListedMatchesRunning`);
- `IdsAreNotReused` (`IdHitsItsMod`): only a `delete` or a reinstall closes a mod, and `StageOK` names it;
- `ReinstallRunsTheEnabled` (`ReinstallStartsEnabled`): `StartOK` when no candidate is left;
- `QueueKeepsItsPromise` (`KeepsPromise`): `EventLoop` implements `EventQueue` under
  `waiting <- NotExecuted`. The end of an event is the abstract execution, an `Enqueue` the abstract queueing, and
  every other step, the erasing at the end of a batch among them, is a stutter.

### AsyncWorker_proofs

For any number of actions. `WorkerInvariant` establishes `WorkerInv`: the lists ascend in the order of
asking and a round splits the worker's into what it has kept and what is to come
(`ListsOK`); the state closes after the thread has ended, and the action whose callback runs is recorded
(`CallOK`); no round leaves an immediate action behind (`OrderOK`). From it `WorkerTypeCorrect`, `OneShotsAreCalledOnce`
(`OneShotsCalledOnce`), `AsyncKeepsOrder` (`ImmediateInOrder`) and `CallbacksEndBeforeClose`
(`CallbackStateOpen`).

### AutoReload_proofs

`TypeCorrect`; `ReloadIsExclusive` under `RateLimitHolds` (the
rate limit outlasts the waking and, on Linux, the callback); and `NothingLoadedOnLinux`. The
invariant of the second ties the atomic to the two positions (`Rendezvous`) and says that it is
Complete only while the last notification is recent (`Spaced`): that is why no second
request comes too early. The third says that the Linux watcher's callback, which takes the name
`Scripts` for that of the mod (`UE4SSProgram.cpp:1197`), loads no version of any script.

### LinuxStartup_proofs

For any number of processes, executables and launches and any
LD_PRELOAD: `TypeCorrect` and the four safety properties (`StartedInHost`, `HostAcceptedOnce`,
`EnvironmentIsRestored`, `WrappersKeepContract`), from `LaunchesAreSound`. Processes meet in fork and launch only, so
the invariant is about one process at a time (`Sound`): as long as the host is named in its
environment, the process is of a pending or failed launch and restoring would give the right
LD_PRELOAD back (`Contract`); once accepted, the environment is the user's (`Scoped`); and
UE4SS runs only in an accepted host of the right executable (`Hosted`). A launch that is
recorded later changes nothing for the earlier ones (`SoundLater`).

### LuaHooks_proofs

For any mods, functions, registrations and depth, under `Bounds` (no
`Sharing`, `Recursion` or `Interrupts`): `TypeOK` (`HooksTypeCorrect`) and the five properties
of the run (`ReferencesReleasedOnce`, `HooksAreKept`, `UnregisteredGoes`,
`CallbacksHaveTheirState`, `HookDataStays`), from one invariant (`HooksInvariant`). It
types the registrations (`Registered`), relates the data, the marks and the engine's callbacks to the stage of the mod's uninstall
(`Staged`), references, callbacks and data to the position of the post hook that removes them and
to the stage of an uninstall (`Removals`), a group to the one mod that has hooks in it (`Grouped`), and says of every open
call (`Sound`) that the hooks it still has to fire are of its function, that a hook function
that is not in a pre callback has its data, that a removal is of a marked hook, and that the hooks
marked before the call whose data is left are still to be fired. `Removals` is needed because a removal and
an uninstall are both several steps: that the references are given back once follows only from how far each is.
The last conjunct of `Stacked`, no call of a function inside its own post phase, is what
`Recursion` would break: the hook under a running post callback can be erased only by a call of the same
function.

### Vectors_proofs

What `Without` keeps and in which order, and that a vector without repetition stays so, for any elements; and the lemmas about functions of vectors that are `Apart` (`ExchangeKeepsApart`, `HeadGoesOver`,
`AllGoesOver`, `NewAdded`, `SomeErased`) on which `NoSimpleActionIsLost` and `OthersKeepTheirs` rest.

### Assumptions, and what is model-checked only

The assumptions are those on the constants, which TLC evaluates in each run. TLC alone checks

- liveness: `DueIsCollected`, `SimpleActionsRun`, `NeitherIsStuck`, `NotifiedChangeIsLoaded`, `RequestsAreServed`, `ActionsAreCalled` and
  `UninstallEnds`. They rest on fairness, that is on ENABLED, which is beyond the prover;
- the counterexamples of the four `Claim` runs.

Outside the hypotheses given above (several threads, nested passes) nothing stronger is
claimed of `GameThreadActions`; some of it is false there. What a recursively defined operator computes for every input could not be proved
(the induction theorems take an operator parameter); `Without` and `First` are defined
with CHOOSE over ranks and positions instead, and their lemmas are proved directly.

## Not modelled

Most of the source by lines is data or presentation (fonts, the windows of the GUI), sequential
code without state of its own (INI parser, signature scanner, dumpers, SDK and USMAP
generators, the Lua types' accessors), or pure output (logging, crash handling). The Unreal reflection
library is a submodule that is not in the repository, and is seen only through its hooks. C++ mods
run arbitrary code on the event loop; only their slots in the loop are there. Custom
events, NotifyOnNewObject and the engine hooks of Lua mods keep lists of callbacks that are
gone over as those of `script_hook` are. Of the input handler, key sources and registration are left
out; of the start of the program, everything between the initialisation thread and the first
iteration of the loop.

## Plan

Done: the modules and runs above, and the proofs of all their safety properties. Left, in this order:

1. For nested passes, what remains true of `IndicesStable` and `OneShotFiresOnce`: up to which
   erasure by an inner pass the entries of the outer one hold.
2. For several threads without ProcessEvent passes, that only `MakeActionHandle` can give a handle twice.
3. NotifyOnNewObject with its pending callbacks, as a part of the pass.
