----------------------------- MODULE AutoReload -----------------------------
(***************************************************************************)
(* Automatic reloading of a Lua mod whose script changed: the thread of    *)
(* FilesystemWatcher::poll runs a callback that stops the event loop of    *)
(* UE4SSProgram::update through one atomic (UE4SS/src/Sync.cpp), replaces  *)
(* the mod, and lets the loop go on.  The rendezvous has no request of its *)
(* own to wait for, so a second notification must not come before the loop *)
(* has left the first: only the rate limit of the watcher keeps it back.   *)
(*                                                                         *)
(* One step is one access of the atomic or of the rate limit, or one stage *)
(* of the loop's iteration or of the callback's work.                      *)
(***************************************************************************)
EXTENDS Naturals

CONSTANTS
  Platforms, \* of "linux" and "windows": whose FilesystemWatcher::poll is built
  SlowOn,    \* what can outlast the rate limit (4000 ms) there, of Phases
  MaxEdits   \* bound: changes of the script

\* A notification callback, and the waking of the loop after it.
Phases == {"callback", "wakeup"}

ASSUME PlatformAssumption == Platforms \subseteq {"linux", "windows"}
ASSUME SlowAssumption == SlowOn \in [Platforms -> SUBSET Phases]
ASSUME EditsAssumption == MaxEdits \in Nat

VARIABLES
  platform, \* the build, chosen once
  sync,     \* ThreadState::underlying
  loop,     \* where UE4SSProgram::update is
  watcher,  \* where the polling thread is
  paused,   \* UE4SSProgram::m_pause_events_processing
  running,  \* m_processing_events
  recent,   \* m_last_notification is less than the minimal duration ago
  pending,  \* changes the operating system has not handed to the watcher
  mod,      \* the mod in m_mods: started or uninstalled
  version,  \* how often the script was written
  loaded    \* the version the mod has executed

vars == <<platform, sync, loop, watcher, paused, running, recent, pending, mod, version, loaded>>
program == <<paused, mod, loaded>>
files == <<recent, pending, version>>

Slow == SlowOn[platform]

-----------------------------------------------------------------------------
(* std::atomic wait and notify: a waiter compares, sleeps while the value  *)
(* is the old one, and compares again when it is woken.                    *)

LoopWakes == loop' = IF loop = "asleep" THEN "wait" ELSE loop
WatcherWakes == watcher' = IF watcher = "asleep" THEN "wait" ELSE watcher

-----------------------------------------------------------------------------
(* The event loop.                                                         *)

\* A paused loop spins here: it begins nothing and serves no request.
LoopBegins ==
  /\ loop = "top" /\ running /\ ~paused
  /\ loop' = "update"
  /\ UNCHANGED <<sync, watcher, running, platform, program, files>>

\* Events, key binds and the updates of the mods have run.
LoopUpdates ==
  /\ loop = "update"
  /\ loop' = "look"
  /\ UNCHANGED <<sync, watcher, running, platform, program, files>>

\* process_sync_request: look for a request, ...
LoopLooks ==
  /\ loop = "look"
  /\ loop' = IF sync = "WaitForMain" THEN "accept" ELSE "top"
  /\ UNCHANGED <<sync, watcher, running, platform, program, files>>

\* ... accept it, ...
LoopAccepts ==
  /\ loop = "accept"
  /\ sync' = "WaitForOther"
  /\ loop' = "notify"
  /\ UNCHANGED <<watcher, running, platform, program, files>>

\* Variant: the watcher is not woken.
LoopAsksSilently ==
  /\ loop = "notify"
  /\ loop' = "wait"
  /\ UNCHANGED <<watcher, sync, running, platform, program, files>>

\* ... wake the watcher, ...
LoopNotifies ==
  /\ loop = "notify"
  /\ WatcherWakes
  /\ loop' = "wait"
  /\ UNCHANGED <<sync, running, platform, program, files>>

\* ... wait until the atomic is no longer WaitForOther, ...
LoopWaits ==
  /\ loop = "wait"
  /\ loop' = IF sync = "WaitForOther" THEN "asleep" ELSE "resume"
  /\ UNCHANGED <<sync, watcher, running, platform, program, files>>

\* ... whatever it is then.
LoopResumes ==
  /\ loop = "resume"
  /\ sync' = "Idle"
  /\ loop' = "top"
  /\ UNCHANGED <<watcher, running, platform, program, files>>

\* ~UE4SSProgram, on another thread.
Shutdown ==
  /\ running
  /\ running' = FALSE
  /\ UNCHANGED <<platform, sync, loop, watcher, program, files>>

\* The loop ends; ~FilesystemWatcher requests the stop of the watcher and joins it.
LoopEnds ==
  /\ loop = "top" /\ ~running
  /\ loop' = "join"
  /\ UNCHANGED <<sync, watcher, running, platform, program, files>>

LoopJoins ==
  /\ loop = "join" /\ watcher = "stopped"
  /\ loop' = "done"
  /\ UNCHANGED <<sync, watcher, running, platform, program, files>>

-----------------------------------------------------------------------------
(* The watcher.                                                            *)

\* Someone writes the script.  Windows signals the directory's handle; inotify
\* queues one event per write.
Edit ==
  /\ version < MaxEdits
  /\ version' = version + 1
  /\ pending' = IF platform = "linux" THEN pending + 1 ELSE 1
  /\ UNCHANGED <<sync, loop, watcher, running, platform, recent, program>>

\* The minimal duration between notifications passes.
RateLimitPasses ==
  /\ recent
  /\ watcher \notin {"poll", "stopped"} => "callback" \in Slow
  /\ sync = "Complete" => "wakeup" \in Slow
  /\ recent' = FALSE
  /\ UNCHANGED <<sync, loop, watcher, running, platform, pending, version, program>>

\* Linux stamps m_last_notification before the callback, Windows after it.
StampsAlways == TRUE
StampsBefore == platform = "linux"

\* Variant: a poll that timed out is taken for a change.
TakeTimeout ==
  /\ watcher = "poll"
  /\ pending' = pending - 1
  /\ UNCHANGED <<watcher, recent, sync, loop, running, platform, version, program>>

\* Variant: every change is notified.
TakeAnyChange ==
  /\ watcher = "poll" /\ pending > 0
  /\ pending' = pending - 1
  /\ watcher' = "request"
  /\ UNCHANGED <<recent, sync, loop, running, platform, version, program>>

\* A change that comes too soon is dropped.  Windows stops before the next
\* change, Linux only after those it has read already.
TakeChange ==
  /\ watcher = "poll" /\ pending > 0
  /\ platform = "windows" => loop # "join"
  /\ pending' = pending - 1
  /\ IF recent
     THEN UNCHANGED <<watcher, recent>>
     ELSE /\ watcher' = "request"
          /\ recent' = StampsBefore
  /\ UNCHANGED <<sync, loop, running, platform, version, program>>

\* ScopedThreadSynchronizer: ask the loop to stop, ...
WatcherAsks ==
  /\ watcher = "request"
  /\ sync' = "WaitForMain"
  /\ watcher' = "wait"
  /\ UNCHANGED <<loop, running, platform, program, files>>

\* ... and wait until the atomic is no longer WaitForMain.
WatcherWaits ==
  /\ watcher = "wait"
  /\ watcher' = IF sync = "WaitForMain" THEN "asleep" ELSE "find"
  /\ UNCHANGED <<sync, loop, running, platform, program, files>>

\* The callback takes the parent directory's name for the mod's.  Windows reports
\* <Mods>/<mod>/Scripts, Linux <Mods>/<mod>/Scripts/<file>.
NameOfScripts == FALSE
NamesTheMod == platform = "windows"

WatcherFindsMod ==
  /\ watcher = "find"
  /\ IF NamesTheMod /\ mod = "started"
     THEN /\ watcher' = "replace"
          /\ mod' = "uninstalled"
          /\ paused' = TRUE
     ELSE /\ watcher' = "complete"
          /\ UNCHANGED <<mod, paused>>
  /\ UNCHANGED <<sync, loop, running, platform, loaded, files>>

WatcherReplacesMod ==
  /\ watcher = "replace"
  /\ paused' = FALSE
  /\ watcher' = "start"
  /\ UNCHANGED <<sync, loop, running, platform, mod, loaded, files>>

WatcherStartsMod ==
  /\ watcher = "start"
  /\ mod' = "started"
  /\ loaded' = version
  /\ watcher' = "complete"
  /\ UNCHANGED <<sync, loop, running, platform, paused, files>>

\* ~ScopedThreadSynchronizer.
WatcherCompletes ==
  /\ watcher = "complete"
  /\ sync' = "Complete"
  /\ watcher' = "notify"
  /\ UNCHANGED <<loop, running, platform, program, files>>

\* Variant, the end of sync_and_execute: the loop is not woken.
WatcherEndsSilently ==
  /\ watcher = "notify"
  /\ watcher' = "stamp"
  /\ UNCHANGED <<loop, sync, running, platform, program, files>>

WatcherNotifies ==
  /\ watcher = "notify"
  /\ LoopWakes
  /\ watcher' = "stamp"
  /\ UNCHANGED <<sync, running, platform, program, files>>

\* Back in poll.
WatcherReturns ==
  /\ watcher = "stamp"
  /\ recent' = (recent \/ ~StampsBefore)
  /\ watcher' = "poll"
  /\ UNCHANGED <<sync, loop, running, platform, program, pending, version>>

WatcherStops ==
  /\ watcher = "poll" /\ loop = "join"
  /\ watcher' = "stopped"
  /\ UNCHANGED <<sync, loop, running, platform, program, files>>

-----------------------------------------------------------------------------
Init ==
  /\ platform \in Platforms
  /\ sync = "Idle"
  /\ loop = "top"
  /\ watcher = "poll"
  /\ paused = FALSE
  /\ running = TRUE
  /\ recent = TRUE
  /\ pending = 0
  /\ mod = "started"
  /\ version = 0
  /\ loaded = 0

LoopStep ==
  \/ LoopBegins
  \/ LoopUpdates
  \/ LoopLooks
  \/ LoopAccepts
  \/ LoopNotifies
  \/ LoopWaits
  \/ LoopResumes
  \/ LoopEnds
  \/ LoopJoins

WatcherStep ==
  \/ TakeChange
  \/ WatcherAsks
  \/ WatcherWaits
  \/ WatcherFindsMod
  \/ WatcherReplacesMod
  \/ WatcherStartsMod
  \/ WatcherCompletes
  \/ WatcherNotifies
  \/ WatcherReturns
  \/ WatcherStops

Next == LoopStep \/ WatcherStep \/ Shutdown \/ Edit \/ RateLimitPasses

Spec == Init /\ [][Next]_vars

\* Both threads go on, and time passes.
FairSpec == Spec /\ WF_vars(LoopStep) /\ WF_vars(WatcherStep) /\ WF_vars(RateLimitPasses)

-----------------------------------------------------------------------------
(* Properties.                                                             *)

\* Every variable keeps its type.
TypeOK ==
  /\ platform \in Platforms
  /\ sync \in {"Idle", "WaitForMain", "WaitForOther", "Complete"}
  /\ loop \in {"top", "update", "look", "accept", "notify", "wait", "asleep",
               "resume", "join", "done"}
  /\ watcher \in {"poll", "request", "wait", "asleep", "find", "replace", "start",
                  "complete", "notify", "stamp", "stopped"}
  /\ paused \in BOOLEAN
  /\ running \in BOOLEAN
  /\ recent \in BOOLEAN
  /\ pending \in Nat
  /\ mod \in {"started", "uninstalled"}
  /\ version \in 0 .. MaxEdits
  /\ loaded \in 0 .. MaxEdits

\* While the callback looks for the mod, replaces it in m_mods and starts it, the
\* loop, which iterates m_mods and runs the mods, is inside process_sync_request.
ReloadExcludesLoop ==
  watcher \in {"find", "replace", "start"} => loop \in {"notify", "wait", "asleep"}

\* Neither thread waits for the other for ever: the callback wakes the loop, and the loop
\* lets the callback run, unless the program shuts down.
NeitherIsStuck ==
  /\ loop \in {"wait", "asleep"} ~> loop \notin {"wait", "asleep"}
  /\ watcher \in {"wait", "asleep"} ~> (watcher = "find" \/ ~running)

\* On Windows a change that passed the rate limit reaches the mod, unless the program
\* shuts down: the mod has executed that version of the script, or a later one.
\* (On Linux none ever does: NothingLoadedOnLinux in AutoReload_proofs.)
NotifiedChangeIsLoaded ==
  \A v \in 0 .. MaxEdits :
    (platform = "windows" /\ watcher = "request" /\ version = v) ~> (loaded >= v \/ ~running)
=============================================================================
