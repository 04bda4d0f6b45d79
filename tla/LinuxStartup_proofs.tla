------------------------- MODULE LinuxStartup_proofs -------------------------
(***************************************************************************)
(* For any number of processes, executables and launches, and whatever the *)
(* user's LD_PRELOAD: UE4SS starts in the hosts alone, and they and their  *)
(* descendants have the user's environment back.                           *)
(*                                                                         *)
(* Processes meet in fork only, so the inductive invariant is about one    *)
(* process at a time: Sound(r, ls) of its record and the launches so far.  *)
(***************************************************************************)
EXTENDS LinuxStartup, TLAPS

LaunchRecords == [host : Elf, preload : Preloads]

\* The contract is whole, with what restoring needs, as long as the host is named.
Contract(r, ls) ==
  r.env.target # Unset =>
    /\ r.scope \in {"pending", "failed"}
    /\ r.env.target = {ls[r.launch].host}
    /\ RestoredPreload(r.env) = ls[r.launch].preload

\* The launcher's part of the environment.
Scoped(r, ls) ==
  /\ r.launch \in 0 .. Len(ls)
  /\ r.launch = 0 <=> r.scope = "none"
  /\ r.accepted = IF r.scope = "accepted" THEN 1 ELSE 0
  /\ r.scope = "pending" => r.env.target # Unset /\ Loads(r.env)
  /\ r.scope = "accepted" =>
       /\ r.env.preload = ls[r.launch].preload
       /\ r.env.target = Unset /\ r.env.wasSet = Unset
       /\ r.env.original = Unset /\ r.env.module = Unset

\* Where UE4SS runs.
Hosted(r, ls) ==
  (r.thread # "none" /\ r.env.legacy = Unset) =>
    r.scope = "accepted" /\ r.image = ls[r.launch].host

Sound(r, ls) == r \in Processes /\ Contract(r, ls) /\ Scoped(r, ls) /\ Hosted(r, ls)

Inv ==
  /\ launches \in Seq(LaunchRecords)
  /\ DOMAIN proc = Procs
  /\ proc = [p \in Procs |-> proc[p]]
  /\ \A p \in Procs : Sound(proc[p], launches)

-----------------------------------------------------------------------------
\* A launch is recorded behind those there are, so it changes nothing for them.
LEMMA SoundLater ==
  ASSUME NEW ls \in Seq(LaunchRecords), NEW l \in LaunchRecords, NEW r, Sound(r, ls)
  PROVE  Sound(r, Append(ls, l))
<1>1. r \in Processes /\ r.launch \in 0 .. Len(ls)
  BY DEF Sound, Scoped
<1>2. Len(Append(ls, l)) = Len(ls) + 1 /\ Len(ls) \in Nat
  OBVIOUS
<1>3. r.launch # 0 => Append(ls, l)[r.launch] = ls[r.launch]
  BY <1>1, <1>2
<1>4. r.scope # "none" => r.launch # 0
  BY DEF Sound, Scoped
<1>5. Contract(r, Append(ls, l))
  BY <1>3, <1>4 DEF Sound, Contract
<1>6. Scoped(r, Append(ls, l))
  BY <1>1, <1>2, <1>3, <1>4 DEF Sound, Scoped
<1>7. Hosted(r, Append(ls, l))
  BY <1>3, <1>4 DEF Sound, Hosted
<1> QED
  BY <1>1, <1>5, <1>6, <1>7 DEF Sound

\* The types of the parts of a process.
LEMMA Parts ==
  ASSUME NEW r \in Processes
  PROVE  /\ r.env \in Environments /\ r.pc \in Stages /\ r.image \in Images
         /\ r.started \in BOOLEAN /\ r.thread \in {"none", "waits", "runs"}
         /\ r.launch \in Nat /\ r.accepted \in Nat
         /\ r.scope \in {"none", "pending", "failed", "accepted"}
BY DEF Processes

\* exec keeps what the launcher established: the environment, and no UE4SS runs.
LEMMA ExecutingSound ==
  ASSUME NEW ls \in Seq(LaunchRecords), NEW r, Sound(r, ls), NEW image \in Images
  PROVE  Sound(Executing(r, image, r.env), ls)
<1> DEFINE s == Executing(r, image, r.env)
<1>1. r \in Processes
  BY DEF Sound
<1>2. s.env = r.env /\ s.launch = r.launch /\ s.scope = r.scope
      /\ s.accepted = r.accepted /\ s.thread = "none"
  BY <1>1 DEF Executing, Processes
<1>3. s \in Processes
  BY <1>1, Parts DEF Executing, Processes, Stages
<1> HIDE DEF s
<1>4. Contract(s, ls) /\ Scoped(s, ls) /\ Hosted(s, ls)
  BY <1>2 DEF Sound, Contract, Scoped, Hosted
<1> QED
  BY <1>3, <1>4 DEF Sound, s

\* The child has none of UE4SS's threads.
LEMMA ForkedSound ==
  ASSUME NEW ls \in Seq(LaunchRecords), NEW r, Sound(r, ls)
  PROVE  Sound([r EXCEPT !.thread = "none"], ls)
<1> DEFINE s == [r EXCEPT !.thread = "none"]
<1>1. r \in Processes
  BY DEF Sound
<1>2. s \in Processes /\ s.env = r.env /\ s.launch = r.launch /\ s.scope = r.scope
      /\ s.accepted = r.accepted /\ s.thread = "none"
  BY <1>1 DEF Processes
<1> HIDE DEF s
<1>3. Contract(s, ls) /\ Scoped(s, ls) /\ Hosted(s, ls)
  BY <1>2 DEF Sound, Contract, Scoped, Hosted
<1> QED
  BY <1>2, <1>3 DEF Sound, s

\* What the launcher exports loads the library, names the host, and restores to what
\* the launcher found.
LEMMA ExportedContract ==
  ASSUME NEW e \in Environments, NEW host \in Elf
  PROVE  LET x == Exported(e, host) IN
         /\ x \in Environments
         /\ Loads(x)
         /\ x.target = {host}
         /\ RestoredPreload(x) = e.preload
         /\ x.legacy = e.legacy
<1> DEFINE x == Exported(e, host)
<1>1. e.preload \subseteq Seq(Libraries)
  BY DEF Environments, Preloads
<1>2. <<"ue4ss">> \in Seq(Libraries) /\ <<>> \in Seq(Libraries)
  BY DEF Libraries
<1>3. \A s \in e.preload : <<"ue4ss">> \o s \in Seq(Libraries)
                           /\ Len(<<"ue4ss">> \o s) >= 1 /\ (<<"ue4ss">> \o s)[1] = "ue4ss"
  BY <1>1, <1>2
<1>6. {host} \in {Unset} \cup {{i} : i \in Elf}
  OBVIOUS
<1>4. CASE e.preload = Unset
  <2>1. x = [e EXCEPT !.preload = {<<"ue4ss">>}, !.target = {host}, !.wasSet = {"0"},
                      !.original = {<<>>}, !.module = {"ue4ss"}]
    BY <1>4 DEF Exported
  <2>a. {<<"ue4ss">>} \in Preloads /\ {<<>>} \in Preloads
    BY <1>2 DEF Preloads
  <2>b. x \in Environments
    BY <2>1, <2>a, <1>6 DEF Environments
  <2>2. x.preload = {<<"ue4ss">>} /\ x.target = {host}
        /\ x.wasSet = {"0"} /\ x.legacy = e.legacy
    BY <2>1 DEF Environments
  <2>3. Loads(x)
    BY <2>2 DEF Loads
  <2> QED
    BY <2>b, <2>2, <2>3, <1>4 DEF RestoredPreload
<1>5. CASE e.preload # Unset
  <2>1. x = [e EXCEPT !.preload = {<<"ue4ss">> \o s : s \in e.preload}, !.target = {host},
                      !.wasSet = {"1"}, !.original = e.preload, !.module = {"ue4ss"}]
    BY <1>5 DEF Exported
  <2>a. {<<"ue4ss">> \o s : s \in e.preload} \in Preloads /\ e.preload \in Preloads
    BY <1>1, <1>3 DEF Preloads
  <2>b. x \in Environments
    BY <2>1, <2>a, <1>6 DEF Environments
  <2>2. x.preload = {<<"ue4ss">> \o s : s \in e.preload}
        /\ x.target = {host} /\ x.wasSet = {"1"} /\ x.original = e.preload
        /\ x.legacy = e.legacy
    BY <2>1 DEF Environments
  <2>3. PICK s \in e.preload : TRUE
    BY <1>5 DEF Unset
  <2>4. <<"ue4ss">> \o s \in x.preload
    BY <2>2, <2>3
  <2>5. 1 \in DOMAIN (<<"ue4ss">> \o s)
    BY <1>3, <2>3
  <2>6. Loads(x)
    BY <2>4, <2>5, <1>3, <2>3 DEF Loads
  <2> QED
    BY <2>b, <2>2, <2>6 DEF RestoredPreload
<1> QED
  BY <1>4, <1>5

\* The launcher begins a launch of its own.
LEMMA LaunchedSound ==
  ASSUME NEW ls \in Seq(LaunchRecords), NEW r, Sound(r, ls),
         NEW host \in Elf, NEW command \in Images
  PROVE  Sound([Executing(r, command, Exported(r.env, host))
                  EXCEPT !.launch = Len(ls) + 1, !.scope = "pending", !.accepted = 0],
               Append(ls, [host |-> host, preload |-> r.env.preload]))
<1> DEFINE l == [host |-> host, preload |-> r.env.preload]
           x == Exported(r.env, host)
           s == [Executing(r, command, x)
                   EXCEPT !.launch = Len(ls) + 1, !.scope = "pending", !.accepted = 0]
<1>1. r \in Processes /\ r.env \in Environments
  BY Parts DEF Sound
<1>2. /\ x \in Environments /\ Loads(x) /\ x.target = {host}
      /\ RestoredPreload(x) = r.env.preload
  BY <1>1, ExportedContract
<1> HIDE DEF x
<1>3. Executing(r, command, x) = [r EXCEPT !.pc = "attach", !.image = command, !.env = x,
                                           !.started = FALSE, !.thread = "none"]
  BY <1>2 DEF Executing
<1>4. s \in Processes /\ s.env = x /\ s.launch = Len(ls) + 1 /\ s.scope = "pending"
      /\ s.accepted = 0 /\ s.thread = "none"
  <2>1. s = [r EXCEPT !.pc = "attach", !.image = command, !.env = x, !.started = FALSE,
                      !.thread = "none", !.launch = Len(ls) + 1, !.scope = "pending",
                      !.accepted = 0]
    BY <1>3
  <2>2. Len(ls) + 1 \in Nat
    OBVIOUS
  <2> HIDE DEF s
  <2>3. s.env = x /\ s.launch = Len(ls) + 1 /\ s.scope = "pending"
        /\ s.accepted = 0 /\ s.thread = "none"
    BY <1>1, <2>1 DEF Processes
  <2>4. s \in Processes
    BY <1>1, <1>2, <2>1, <2>2 DEF Processes, Stages
  <2> QED
    BY <2>3, <2>4
<1>5. Append(ls, l)[Len(ls) + 1] = l /\ Len(Append(ls, l)) = Len(ls) + 1 /\ Len(ls) \in Nat
  OBVIOUS
<1> HIDE DEF s
<1>7. /\ Append(ls, l)[s.launch].host = host
      /\ Append(ls, l)[s.launch].preload = r.env.preload
      /\ s.launch \in 0 .. Len(Append(ls, l)) /\ s.launch # 0
  BY <1>4, <1>5
<1>8. s.env.target # Unset
  BY <1>2, <1>4 DEF Unset
<1> HIDE DEF l
<1>6. Contract(s, Append(ls, l)) /\ Scoped(s, Append(ls, l)) /\ Hosted(s, Append(ls, l))
  BY <1>2, <1>4, <1>7, <1>8 DEF Contract, Scoped, Hosted
<1> QED
  BY <1>4, <1>6 DEF Sound, s, x, l

\* A step that leaves the environment and the launch alone, and starts UE4SS only by
\* the opt-in.
LEMMA OwnStepSound ==
  ASSUME NEW ls \in Seq(LaunchRecords), NEW r, Sound(r, ls), NEW s \in Processes,
         s.env = r.env, s.launch = r.launch, s.scope = r.scope,
         s.accepted = r.accepted, s.image = r.image,
         s.thread # "none" => r.thread # "none" \/ r.env.legacy # Unset
  PROVE  Sound(s, ls)
<1>1. Contract(s, ls) /\ Scoped(s, ls) /\ Hosted(s, ls)
  BY DEF Sound, Contract, Scoped, Hosted
<1> QED
  BY <1>1 DEF Sound

\* The fields of an environment that is restored, partly or wholly.
LEMMA RestoredFields ==
  ASSUME NEW e \in Environments, NEW n \in 0 .. 5
  PROVE  LET x == Restored(e, n) IN
         /\ x \in Environments
         /\ x.legacy = e.legacy
         /\ x.target # Unset => /\ x.target = e.target
                                /\ RestoredPreload(x) = RestoredPreload(e)
         /\ n = 5 => /\ x.preload = RestoredPreload(e)
                     /\ x.target = Unset /\ x.wasSet = Unset
                     /\ x.original = Unset /\ x.module = Unset
<1> DEFINE x == Restored(e, n)
<1>1. RestoredPreload(e) \in Preloads
  BY DEF RestoredPreload, Environments, Preloads, Unset
<1>2. e.preload \in Preloads /\ e.original \in Preloads /\ Unset \in Preloads
  BY DEF Environments, Preloads, Unset
<1>3. x \in Environments
  BY <1>1, <1>2 DEF Restored, Environments
<1>4. /\ x.preload = IF n < 1 THEN e.preload ELSE RestoredPreload(e)
      /\ x.target = IF n < 2 THEN e.target ELSE Unset
      /\ x.wasSet = IF n < 3 THEN e.wasSet ELSE Unset
      /\ x.original = IF n < 4 THEN e.original ELSE Unset
      /\ x.module = IF n < 5 THEN e.module ELSE Unset
      /\ x.legacy = e.legacy
  BY DEF Restored, Environments
<1> HIDE DEF x
<1>5. x.target # Unset => x.wasSet = e.wasSet /\ x.original = e.original
  BY <1>4
<1> QED
  BY <1>3, <1>4, <1>5 DEF RestoredPreload, x

\* What the constructor knows when it decides for a launcher start: it is in the
\* host, and nobody was accepted for this launch.
LEMMA LauncherStartInHost ==
  ASSUME NEW ls \in Seq(LaunchRecords), NEW r, Sound(r, ls),
         Decision(r.env, r.image) = "LauncherStart"
  PROVE  /\ r.scope \in {"pending", "failed"}
         /\ r.image = ls[r.launch].host
         /\ RestoredPreload(r.env) = ls[r.launch].preload
         /\ r.launch \in 0 .. Len(ls) /\ r.launch # 0
         /\ r.accepted = 0
         /\ r.thread # "none" => r.env.legacy # Unset
<1>1. r.env.target # Unset /\ r.env.target = {r.image}
  BY DEF Decision
<1>2. /\ r.scope \in {"pending", "failed"}
      /\ r.env.target = {ls[r.launch].host}
      /\ RestoredPreload(r.env) = ls[r.launch].preload
  BY <1>1 DEF Sound, Contract
<1>3. r.image = ls[r.launch].host
  BY <1>1, <1>2
<1> QED
  BY <1>2, <1>3 DEF Sound, Scoped, Hosted

\* A restoration that fails leaves a contract that is whole, or no host.
LEMMA FailedSound ==
  ASSUME NEW ls \in Seq(LaunchRecords), NEW r, Sound(r, ls), NEW n \in 0 .. 4,
         Decision(r.env, r.image) = "LauncherStart"
  PROVE  Sound([r EXCEPT !.pc = "attached", !.env = Restored(@, n), !.scope = "failed"], ls)
<1> DEFINE x == Restored(r.env, n)
           s == [r EXCEPT !.pc = "attached", !.env = x, !.scope = "failed"]
<1>1. r \in Processes /\ r.env \in Environments
  BY Parts DEF Sound
<1>2. /\ x \in Environments
      /\ x.legacy = r.env.legacy
      /\ x.target # Unset => /\ x.target = r.env.target
                             /\ RestoredPreload(x) = RestoredPreload(r.env)
  BY <1>1, RestoredFields
<1> HIDE DEF x
<1>3. s \in Processes /\ s.env = x /\ s.scope = "failed" /\ s.launch = r.launch
      /\ s.accepted = r.accepted /\ s.thread = r.thread /\ s.image = r.image
  BY <1>1, <1>2 DEF Processes, Stages
<1> HIDE DEF s
<1>4. Contract(s, ls)
  BY <1>2, <1>3 DEF Sound, Contract
<1>5. Scoped(s, ls)
  BY <1>3, LauncherStartInHost DEF Scoped
<1>6. Hosted(s, ls)
  BY <1>2, <1>3, LauncherStartInHost DEF Hosted
<1> QED
  BY <1>3, <1>4, <1>5, <1>6 DEF Sound, s, x

\* The host that is accepted has the environment of the launch back, whether or not
\* its thread can be made.
LEMMA AcceptedSound ==
  ASSUME NEW ls \in Seq(LaunchRecords), NEW r, Sound(r, ls),
         Decision(r.env, r.image) = "LauncherStart",
         NEW s \in Start([r EXCEPT !.pc = "attached", !.env = Restored(@, 5),
                                   !.scope = "accepted", !.accepted = @ + 1])
  PROVE  Sound(s, ls)
<1> DEFINE x == Restored(r.env, 5)
           a == [r EXCEPT !.pc = "attached", !.env = x, !.scope = "accepted",
                          !.accepted = r.accepted + 1]
<1>1. r \in Processes /\ r.env \in Environments /\ r.accepted = 0
  BY Parts, LauncherStartInHost DEF Sound
<1>2. /\ x \in Environments
      /\ x.preload = RestoredPreload(r.env)
      /\ x.target = Unset /\ x.wasSet = Unset /\ x.original = Unset /\ x.module = Unset
  BY <1>1, RestoredFields
<1> HIDE DEF x
<1>3. a \in Processes /\ a.env = x /\ a.scope = "accepted" /\ a.launch = r.launch
      /\ a.accepted = 1 /\ a.image = r.image
  <2>1. a = [r EXCEPT !.pc = "attached", !.env = x, !.scope = "accepted", !.accepted = 1]
    BY <1>1
  <2> HIDE DEF a
  <2>2. a.env = x /\ a.scope = "accepted" /\ a.launch = r.launch
        /\ a.accepted = 1 /\ a.image = r.image
    BY <1>1, <2>1 DEF Processes
  <2>3. a \in Processes
    BY <1>1, <1>2, <2>1 DEF Processes, Stages
  <2> QED
    BY <2>2, <2>3
<1>4. s = a \/ s = [a EXCEPT !.started = TRUE, !.thread = "waits"]
  BY DEF Start, x
<1> HIDE DEF a
<1>5. s \in Processes /\ s.env = x /\ s.scope = "accepted" /\ s.launch = r.launch
      /\ s.accepted = 1 /\ s.image = r.image
  <2>1. CASE s = a
    BY <2>1, <1>3
  <2>2. CASE s = [a EXCEPT !.started = TRUE, !.thread = "waits"]
    BY <2>2, <1>3 DEF Processes
  <2> QED
    BY <1>4, <2>1, <2>2
<1>6. Contract(s, ls) /\ Scoped(s, ls) /\ Hosted(s, ls)
  BY <1>2, <1>5, LauncherStartInHost DEF Contract, Scoped, Hosted
<1> QED
  BY <1>5, <1>6 DEF Sound

-----------------------------------------------------------------------------
\* The user's shell is of no launch.
LEMMA InvInitially == Init => Inv
<1> SUFFICES ASSUME Init PROVE Inv
  OBVIOUS
<1>1. PICK p \in Procs, e \in UserEnvironments :
        proc = [q \in Procs |->
                 [pc |-> IF q = p THEN "main" ELSE "none", image |-> Shell, env |-> e,
                  started |-> FALSE, thread |-> "none",
                  launch |-> 0, scope |-> "none", accepted |-> 0]]
  BY DEF Init
<1>2. e \in Environments /\ e.target = Unset
  BY PreloadAssumption DEF UserEnvironments, Environments, Preloads, Unset
<1>3. launches = <<>> /\ launches \in Seq(LaunchRecords) /\ Len(launches) = 0
  BY DEF Init
<1>4. ASSUME NEW q \in Procs PROVE Sound(proc[q], launches)
  <2>1. proc[q] \in Processes
    BY <1>1, <1>2 DEF Processes, Stages, Images
  <2>2. /\ proc[q].env = e /\ proc[q].thread = "none" /\ proc[q].launch = 0
        /\ proc[q].scope = "none" /\ proc[q].accepted = 0
    BY <1>1
  <2>3. Contract(proc[q], launches) /\ Scoped(proc[q], launches) /\ Hosted(proc[q], launches)
    BY <1>2, <1>3, <2>2 DEF Contract, Scoped, Hosted
  <2> QED
    BY <2>1, <2>3 DEF Sound
<1> QED
  BY <1>1, <1>3, <1>4 DEF Inv

\* A step that replaces one sound process by another, in launches as they are.
LEMMA OneProcess ==
  ASSUME Inv, NEW p \in Procs, NEW s, Sound(s, launches),
         proc' = [proc EXCEPT ![p] = s], launches' = launches
  PROVE  Inv'
<1>1. \A q \in Procs : proc'[q] = IF q = p THEN s ELSE proc[q]
  BY DEF Inv
<1>2. \A q \in Procs : Sound(proc'[q], launches')
  BY <1>1 DEF Inv
<1>3. DOMAIN proc' = Procs /\ proc' = [q \in Procs |-> proc'[q]]
  BY DEF Inv
<1> QED
  BY <1>2, <1>3 DEF Inv

LEMMA InvInductive == Inv /\ [Next]_vars => Inv'
<1> SUFFICES ASSUME Inv, [Next]_vars PROVE Inv'
  OBVIOUS
<1>1. ASSUME NEW p \in Procs, NEW image \in Images, Exec(p, image) PROVE Inv'
  <2>1. Sound(Executing(proc[p], image, proc[p].env), launches)
    BY ExecutingSound DEF Inv
  <2> QED
    BY <1>1, <2>1, OneProcess DEF Exec
<1>2. ASSUME NEW p \in Procs, NEW child \in Procs, Fork(p, child) PROVE Inv'
  <2>1. Sound([proc[p] EXCEPT !.thread = "none"], launches)
    BY ForkedSound DEF Inv
  <2> QED
    BY <1>2, <2>1, OneProcess DEF Fork
<1>3. ASSUME NEW p \in Procs, NEW host \in Elf, NEW command \in Images,
             Launch(p, host, command)
      PROVE  Inv'
  <2> DEFINE l == [host |-> host, preload |-> proc[p].env.preload]
             s == [Executing(proc[p], command, Exported(proc[p].env, host))
                     EXCEPT !.launch = Len(launches) + 1, !.scope = "pending", !.accepted = 0]
  <2>1. launches' = Append(launches, l) /\ proc' = [proc EXCEPT ![p] = s]
    BY <1>3 DEF Launch
  <2>2. Sound(s, launches')
    BY <2>1, LaunchedSound DEF Inv
  <2>3. proc[p].env \in Environments
    BY Parts DEF Inv, Sound
  <2>4. l \in LaunchRecords
    BY <2>3 DEF LaunchRecords, Environments
  <2>5. \A q \in Procs : Sound(proc[q], launches')
    BY <2>1, <2>4, SoundLater DEF Inv
  <2>6. launches' \in Seq(LaunchRecords)
    BY <2>1, <2>4 DEF Inv
  <2> HIDE DEF s, l
  <2>7. \A q \in Procs : proc'[q] = IF q = p THEN s ELSE proc[q]
    BY <2>1 DEF Inv
  <2>8. DOMAIN proc' = Procs /\ proc' = [q \in Procs |-> proc'[q]]
    BY <2>1 DEF Inv
  <2> QED
    BY <2>2, <2>5, <2>6, <2>7, <2>8 DEF Inv
<1>4. ASSUME NEW p \in Procs, Exit(p) PROVE Inv'
  <2> DEFINE s == [proc[p] EXCEPT !.pc = "none", !.started = FALSE, !.thread = "none"]
  <2>1. proc' = [proc EXCEPT ![p] = s] /\ launches' = launches
    BY <1>4 DEF Exit, Inv
  <2>2. Sound(proc[p], launches) /\ proc[p] \in Processes
    BY DEF Inv, Sound
  <2>3. s \in Processes /\ s.env = proc[p].env /\ s.launch = proc[p].launch
        /\ s.scope = proc[p].scope /\ s.accepted = proc[p].accepted
        /\ s.image = proc[p].image /\ s.thread = "none"
    BY <2>2 DEF Processes, Stages
  <2> HIDE DEF s
  <2>4. Sound(s, launches)
    BY <2>2, <2>3, OwnStepSound DEF Inv
  <2> QED
    BY <2>1, <2>4, OneProcess
<1>5. ASSUME NEW p \in Procs, AttachSkips(p) \/ RuntimeReady(p) PROVE Inv'
  <2> DEFINE s(pc) == [proc[p] EXCEPT !.pc = pc]
  <2>1. PICK pc \in {"attached", "main"} : proc' = [proc EXCEPT ![p] = s(pc)] /\ launches' = launches
    BY <1>5 DEF AttachSkips, RuntimeReady, Inv
  <2>2. Sound(proc[p], launches) /\ proc[p] \in Processes
    BY DEF Inv, Sound
  <2>3. s(pc) \in Processes /\ s(pc).env = proc[p].env /\ s(pc).launch = proc[p].launch
        /\ s(pc).scope = proc[p].scope /\ s(pc).accepted = proc[p].accepted
        /\ s(pc).image = proc[p].image /\ s(pc).thread = proc[p].thread
    BY <2>2 DEF Processes, Stages
  <2> HIDE DEF s
  <2>4. Sound(s(pc), launches)
    BY <2>2, <2>3, OwnStepSound DEF Inv
  <2> QED
    BY <2>1, <2>4, OneProcess
<1>6. ASSUME NEW p \in Procs, ThreadRuns(p) PROVE Inv'
  <2> DEFINE s == [proc[p] EXCEPT !.thread = "runs"]
  <2>1. proc' = [proc EXCEPT ![p] = s] /\ launches' = launches
    BY <1>6 DEF ThreadRuns, Inv
  <2>2. Sound(proc[p], launches) /\ proc[p] \in Processes /\ proc[p].thread # "none"
    BY <1>6 DEF Inv, Sound, ThreadRuns
  <2>3. s \in Processes /\ s.env = proc[p].env /\ s.launch = proc[p].launch
        /\ s.scope = proc[p].scope /\ s.accepted = proc[p].accepted
        /\ s.image = proc[p].image
    BY <2>2 DEF Processes
  <2> HIDE DEF s
  <2>4. Sound(s, launches)
    BY <2>2, <2>3, OwnStepSound DEF Inv
  <2> QED
    BY <2>1, <2>4, OneProcess
<1>7. ASSUME NEW p \in Procs, AttachStartsLegacy(p) PROVE Inv'
  <2> DEFINE a == [proc[p] EXCEPT !.pc = "attached"]
  <2>1. PICK s \in Start(a) : proc' = [proc EXCEPT ![p] = s] /\ launches' = launches
    BY <1>7 DEF AttachStartsLegacy
  <2>2. Sound(proc[p], launches) /\ proc[p] \in Processes
    BY DEF Inv, Sound
  <2>3. proc[p].env.legacy # Unset
    BY <1>7 DEF AttachStartsLegacy, Decides, Decision, Unset
  <2>4. s = a \/ s = [a EXCEPT !.started = TRUE, !.thread = "waits"]
    BY DEF Start
  <2>5. s \in Processes /\ s.env = proc[p].env /\ s.launch = proc[p].launch
        /\ s.scope = proc[p].scope /\ s.accepted = proc[p].accepted
        /\ s.image = proc[p].image
    BY <2>2, <2>4 DEF Processes, Stages
  <2>6. Sound(s, launches)
    BY <2>2, <2>3, <2>5, OwnStepSound DEF Inv
  <2> QED
    BY <2>1, <2>6, OneProcess
<1>8. ASSUME NEW p \in Procs, AttachFails(p) PROVE Inv'
  <2>1. PICK n \in 0 .. 4 :
          proc' = [proc EXCEPT ![p] = [proc[p] EXCEPT !.pc = "attached",
                                         !.env = Restored(@, n), !.scope = "failed"]]
    BY <1>8 DEF AttachFails, Inv
  <2>2. Sound([proc[p] EXCEPT !.pc = "attached", !.env = Restored(@, n), !.scope = "failed"],
              launches)
    BY <1>8, FailedSound DEF AttachFails, Decides, Inv
  <2> QED
    BY <1>8, <2>1, <2>2, OneProcess DEF AttachFails
<1>9. ASSUME NEW p \in Procs, AttachStarts(p) PROVE Inv'
  <2>1. PICK s \in Start([proc[p] EXCEPT !.pc = "attached", !.env = Restored(@, 5),
                                         !.scope = "accepted", !.accepted = @ + 1]) :
          proc' = [proc EXCEPT ![p] = s]
    BY <1>9 DEF AttachStarts
  <2>2. Sound(s, launches)
    BY <1>9, AcceptedSound DEF AttachStarts, Decides, Inv
  <2> QED
    BY <1>9, <2>1, <2>2, OneProcess DEF AttachStarts
<1>10. CASE UNCHANGED vars
  BY <1>10 DEF vars, Inv
<1> QED
  BY <1>1, <1>2, <1>3, <1>4, <1>5, <1>6, <1>7, <1>8, <1>9, <1>10 DEF Next

THEOREM LaunchesAreSound == Spec => []Inv
BY InvInitially, InvInductive, PTL DEF Spec

\* Type correctness of LinuxStartup.
THEOREM TypeCorrect == Spec => []TypeOK
<1>1. Inv => TypeOK
  BY DEF Inv, Sound, TypeOK, LaunchRecords
<1> QED
  BY <1>1, LaunchesAreSound, PTL

\* UE4SS starts in the named host, or because the user allows legacy starts.
THEOREM StartedInHost == Spec => []StartsOnlyHost
<1>1. Inv => StartsOnlyHost
  BY DEF Inv, Sound, Hosted, Scoped, StartsOnlyHost, Live, Of
<1> QED
  BY <1>1, LaunchesAreSound, PTL

\* No descendant of an accepted host is accepted for the same launch.
THEOREM HostAcceptedOnce == Spec => []AcceptedOnce
<1>1. ASSUME Inv, NEW p \in Procs PROVE proc[p].accepted \in {0, 1}
  BY <1>1 DEF Inv, Sound, Scoped
<1>2. \A n \in {0, 1} : n <= 1
  OBVIOUS
<1>3. Inv => AcceptedOnce
  BY <1>1, <1>2, Zenon DEF AcceptedOnce, Live
<1> QED
  BY <1>3, LaunchesAreSound, PTL

\* An accepted host and its descendants have the environment of the launch back.
THEOREM EnvironmentIsRestored == Spec => []EnvironmentRestored
<1>1. Inv => EnvironmentRestored
  BY DEF Inv, Sound, Scoped, EnvironmentRestored, Live, Of
<1> QED
  BY <1>1, LaunchesAreSound, PTL

\* Up to the host, every process loads the library and knows the host.
THEOREM WrappersKeepContract == Spec => []WrappersLeadToHost
<1>1. Inv => WrappersLeadToHost
  BY DEF Inv, Sound, Scoped, Contract, WrappersLeadToHost, Live, Of
<1> QED
  BY <1>1, LaunchesAreSound, PTL
=============================================================================
