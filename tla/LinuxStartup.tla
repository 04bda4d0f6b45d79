---------------------------- MODULE LinuxStartup ----------------------------
(***************************************************************************)
(* Who starts UE4SS on Linux.  run_ue4ss.sh puts the library in LD_PRELOAD *)
(* and names the executable that is to host it; the environment, and with  *)
(* it the library, is inherited by every process fork and exec make of the *)
(* command.  The library's constructor starts UE4SS in the host alone, and *)
(* gives it the environment back that the launcher was called with before  *)
(* any thread of UE4SS exists, so that the host's helpers are not touched. *)
(*                                                                         *)
(* A step is one process calling fork, exec or exit, running the launcher, *)
(* or running one constructor of the library.                              *)
(***************************************************************************)
EXTENDS Naturals, Sequences

CONSTANTS
  Procs,       \* process slots: how many live at a time
  Shell,       \* the interpreter of scripts, run_ue4ss.sh among them
  Elf,         \* executables that can be named as hosts
  UserPreload, \* what LD_PRELOAD is for the user: {} or {a sequence of libraries}
  MaxLaunches  \* bound: runs of the launcher

Libraries == {"ue4ss", "other"}

ASSUME ImageAssumption == Shell \notin Elf
ASSUME PreloadAssumption == UserPreload \subseteq SUBSET Seq(Libraries)
ASSUME LaunchAssumption == MaxLaunches \in Nat

Images == Elf \cup {Shell}

VARIABLES
  proc,     \* the processes
  launches  \* history: the host named by each run of the launcher, and LD_PRELOAD then

vars == <<proc, launches>>

-----------------------------------------------------------------------------
(* Environments.  A variable that is not set is {}, one that is set is {v}. *)

Unset == {}
Preloads == SUBSET Seq(Libraries)

Environments ==
  [preload  : Preloads,             \* LD_PRELOAD
   target   : {Unset} \cup {{i} : i \in Elf},  \* UE4SS_LAUNCH_TARGET_EXE
   wasSet   : {Unset, {"0"}, {"1"}},  \* UE4SS_LAUNCH_LD_PRELOAD_WAS_SET
   original : Preloads,             \* UE4SS_LAUNCH_ORIGINAL_LD_PRELOAD
   module   : {Unset, {"ue4ss"}},   \* UE4SS_MODULE_PATH
   legacy   : {Unset, {"1"}},       \* UE4SS_ALLOW_LEGACY_START
   disable  : {Unset, {"1"}}]       \* UE4SS_DISABLE_AUTO_START

Loads(e) == \E s \in e.preload : \E n \in DOMAIN s : s[n] = "ue4ss"

\* Variant: the flag says "" when there is no original value.
ExportedEmptyFlag(e, host) ==
  [e EXCEPT !.preload = IF e.preload = Unset THEN {<<"ue4ss">>}
                        ELSE {<<"ue4ss">> \o s : s \in e.preload},
            !.target = {host},
            !.wasSet = IF e.preload = Unset THEN {""} ELSE {"1"},
            !.original = IF e.preload = Unset THEN {<<>>} ELSE e.preload,
            !.module = {"ue4ss"}]

\* run_ue4ss.sh prepends the library to what it finds, an empty value being none.
Exported(e, host) ==
  [e EXCEPT !.preload = IF e.preload = Unset THEN {<<"ue4ss">>}
                        ELSE {<<"ue4ss">> \o s : s \in e.preload},
            !.target = {host},
            !.wasSet = IF e.preload = Unset THEN {"0"} ELSE {"1"},
            !.original = IF e.preload = Unset THEN {<<>>} ELSE e.preload,
            !.module = {"ue4ss"}]

Restorable(e) == e.wasSet = {"0"} \/ (e.wasSet = {"1"} /\ e.original # Unset)

\* Variant: an empty original value is taken for none.
RestoredPreloadIfAny(e) ==
  IF e.wasSet = {"1"} /\ e.original # {<<>>} THEN e.original ELSE Unset

RestoredPreload(e) == IF e.wasSet = {"1"} THEN e.original ELSE Unset

\* Variant: LD_PRELOAD alone is restored.
RestoredKeepsTarget(e, n) ==
  IF n = 0 THEN e ELSE [e EXCEPT !.preload = RestoredPreload(e)]

\* restore_original_environment after n of its five calls of setenv and unsetenv.
Restored(e, n) ==
  [e EXCEPT !.preload  = IF n < 1 THEN @ ELSE RestoredPreload(e),
            !.target   = IF n < 2 THEN @ ELSE Unset,
            !.wasSet   = IF n < 3 THEN @ ELSE Unset,
            !.original = IF n < 4 THEN @ ELSE Unset,
            !.module   = IF n < 5 THEN @ ELSE Unset]

-----------------------------------------------------------------------------
(* The constructor's decision.                                             *)

\* Variant: any process of the launch will do.
DecisionAnyImage(e, image) ==
  IF e.target = Unset THEN IF e.legacy = {"1"} THEN "LegacyStart" ELSE "MissingTarget"
  ELSE "LauncherStart"

Decision(e, image) ==
  IF e.target = Unset THEN IF e.legacy = {"1"} THEN "LegacyStart" ELSE "MissingTarget"
  ELSE IF e.target = {image} THEN "LauncherStart" ELSE "TargetMismatch"

-----------------------------------------------------------------------------
(* Processes.                                                              *)

\* None; running ue4ss_so_attached; past it; past ue4ss_runtime_ready, or without
\* the library.
Stages == {"none", "attach", "attached", "main"}

Processes ==
  [pc : Stages, image : Images, env : Environments,
   started : BOOLEAN,                        \* s_ue4ss_started
   thread : {"none", "waits", "runs"},       \* thread_so_start
   launch : Nat,                             \* history: the launch it is of, or 0
   scope : {"none", "pending", "failed", "accepted"},  \* history: how that launch stands
   accepted : Nat]                           \* history: hosts accepted for it so far

\* exec: the environment stays, the program's memory and threads go.
Executing(r, image, e) ==
  [r EXCEPT !.pc = IF Loads(e) THEN "attach" ELSE "main",
            !.image = image,
            !.env = e,
            !.started = FALSE,
            !.thread = "none"]

Exec(p, image) ==
  /\ proc[p].pc = "main"
  /\ proc' = [proc EXCEPT ![p] = Executing(@, image, @.env)]
  /\ UNCHANGED launches

\* The child has the parent's memory and one thread, which is not UE4SS's.
Fork(p, child) ==
  /\ proc[p].pc = "main"
  /\ proc[child].pc = "none"
  /\ proc' = [proc EXCEPT ![child] = [proc[p] EXCEPT !.thread = "none"]]
  /\ UNCHANGED launches

\* The launcher exports its variables and executes the command.
Launch(p, host, command) ==
  /\ proc[p].pc = "main" /\ proc[p].image = Shell
  /\ Len(launches) < MaxLaunches
  /\ launches' = Append(launches, [host |-> host, preload |-> proc[p].env.preload])
  /\ proc' = [proc EXCEPT ![p] =
                [Executing(@, command, Exported(@.env, host))
                   EXCEPT !.launch = Len(launches) + 1, !.scope = "pending", !.accepted = 0]]

\* exit runs the destructor, which takes the flag back and the program with it.
Exit(p) ==
  /\ proc[p].pc = "main"
  /\ proc' = [proc EXCEPT ![p].pc = "none", ![p].started = FALSE, ![p].thread = "none"]
  /\ UNCHANGED launches

\* Variant: the environment is restored before the executables are compared.
AttachSkipsRestored(p) ==
  /\ proc[p].pc = "attach"
  /\ \/ proc[p].env.disable = {"1"}
     \/ Decision(proc[p].env, proc[p].image) \in {"MissingTarget", "TargetMismatch"}
     \/ proc[p].env.target # Unset
  /\ proc' = [proc EXCEPT ![p].pc = "attached",
                          ![p].env = IF proc[p].env.target = Unset THEN @
                                     ELSE Restored(@, 5)]
  /\ UNCHANGED launches

\* ue4ss_so_attached does not start UE4SS: it is disabled, decides against it, or
\* cannot resolve or compare the executables.
AttachSkips(p) ==
  /\ proc[p].pc = "attach"
  /\ \/ proc[p].env.disable = {"1"}
     \/ Decision(proc[p].env, proc[p].image) \in {"MissingTarget", "TargetMismatch"}
     \/ proc[p].env.target # Unset
  /\ proc' = [proc EXCEPT ![p].pc = "attached"]
  /\ UNCHANGED launches

Decides(p, decision) ==
  /\ proc[p].pc = "attach"
  /\ proc[p].env.disable # {"1"}
  /\ Decision(proc[p].env, proc[p].image) = decision

\* The flag is taken, then the thread made; without it the flag is given back.
Start(r) ==
  IF r.started THEN {r} ELSE {r, [r EXCEPT !.started = TRUE, !.thread = "waits"]}

AttachStartsLegacy(p) ==
  /\ Decides(p, "LegacyStart")
  /\ \E r \in Start([proc[p] EXCEPT !.pc = "attached"]) : proc' = [proc EXCEPT ![p] = r]
  /\ UNCHANGED launches

\* Restoring the environment fails after n of its steps.
AttachFails(p) ==
  /\ Decides(p, "LauncherStart")
  /\ \E n \in 0 .. 4 :
       /\ Restorable(proc[p].env) \/ n = 0
       /\ proc' = [proc EXCEPT ![p] = [proc[p] EXCEPT !.pc = "attached",
                                                      !.env = Restored(@, n),
                                                      !.scope = "failed"]]
  /\ UNCHANGED launches

AttachStarts(p) ==
  /\ Decides(p, "LauncherStart")
  /\ Restorable(proc[p].env)
  /\ \E r \in Start([proc[p] EXCEPT !.pc = "attached",
                                    !.env = Restored(@, 5),
                                    !.scope = "accepted",
                                    !.accepted = @ + 1]) :
       proc' = [proc EXCEPT ![p] = r]
  /\ UNCHANGED launches

\* ue4ss_runtime_ready, the last constructor; main follows.
RuntimeReady(p) ==
  /\ proc[p].pc = "attached"
  /\ proc' = [proc EXCEPT ![p].pc = "main"]
  /\ UNCHANGED launches

\* The thread has waited for it, and makes the program.
ThreadRuns(p) ==
  /\ proc[p].thread = "waits" /\ proc[p].pc = "main"
  /\ proc' = [proc EXCEPT ![p].thread = "runs"]
  /\ UNCHANGED launches

-----------------------------------------------------------------------------
UserEnvironments ==
  [preload : UserPreload, target : {Unset}, wasSet : {Unset}, original : {Unset},
   module : {Unset}, legacy : {Unset, {"1"}}, disable : {Unset, {"1"}}]

\* The user's shell.
Init ==
  /\ \E p \in Procs, e \in UserEnvironments :
       proc = [q \in Procs |->
                 [pc |-> IF q = p THEN "main" ELSE "none", image |-> Shell, env |-> e,
                  started |-> FALSE, thread |-> "none",
                  launch |-> 0, scope |-> "none", accepted |-> 0]]
  /\ launches = <<>>

Next ==
  \E p \in Procs :
    \/ \E image \in Images : Exec(p, image)
    \/ \E child \in Procs : Fork(p, child)
    \/ \E host \in Elf, command \in Images : Launch(p, host, command)
    \/ Exit(p)
    \/ AttachSkips(p)
    \/ AttachStartsLegacy(p)
    \/ AttachFails(p)
    \/ AttachStarts(p)
    \/ RuntimeReady(p)
    \/ ThreadRuns(p)

Spec == Init /\ [][Next]_vars

-----------------------------------------------------------------------------
(* Properties.                                                             *)

\* Every variable keeps its type.
TypeOK ==
  /\ proc \in [Procs -> Processes]
  /\ launches \in Seq([host : Elf, preload : Preloads])

Live == {p \in Procs : proc[p].pc # "none"}

Of(p) == launches[proc[p].launch]

\* Unless legacy starts are allowed, UE4SS is started only in the host its launch
\* named, whatever wrappers, helpers and other launches came before.
StartsOnlyHost ==
  \A p \in Live : (proc[p].thread # "none" /\ proc[p].env.legacy = Unset) =>
    /\ proc[p].launch # 0
    /\ proc[p].image = Of(p).host
    /\ proc[p].scope = "accepted"

\* Nothing that descends from an accepted host is accepted for the same launch, be it
\* the host's executable again and UE4SS in the user's own LD_PRELOAD.
AcceptedOnce == \A p \in Live : proc[p].accepted <= 1

\* An accepted host and all that descends from it have the LD_PRELOAD the launcher
\* was called with, set or not set, and none of the private variables.
EnvironmentRestored ==
  \A p \in Live : proc[p].scope = "accepted" =>
    /\ proc[p].env.preload = Of(p).preload
    /\ proc[p].env.target = Unset
    /\ proc[p].env.wasSet = Unset
    /\ proc[p].env.original = Unset
    /\ proc[p].env.module = Unset

\* Until then every process loads the library and knows the host, so that wrappers
\* lead to it.
WrappersLeadToHost ==
  \A p \in Live : proc[p].scope = "pending" =>
    /\ Loads(proc[p].env)
    /\ proc[p].env.target = {Of(p).host}
=============================================================================
