------------------------------ MODULE EventLoop ------------------------------
(***************************************************************************)
(* The event loop of UE4SSProgram::update and the life of the Lua mods it  *)
(* manages.  Other threads (the game thread inside Lua callbacks, the GUI) *)
(* queue requests to restart, uninstall or start mods; the loop runs up to *)
(* PerFrame of them per iteration WHILE IT HOLDS m_event_queue_mutex, and  *)
(* uninstalling a mod needs LuaMod::m_thread_actions_mutex, which some     *)
(* callbacks hold while they run Lua.  Called on the loop's own thread,    *)
(* from a key bind, a request runs at once and is not queued.              *)
(*                                                                         *)
(* A step is one region under a mutex, one unlocked look at shared state,  *)
(* or one stage of a request.  Automatic reloading, which pauses this loop,*)
(* is AutoReload.                                                          *)
(***************************************************************************)
EXTENDS Vectors

CONSTANTS
  Names,         \* mod names
  Directory,     \* the names setup_mods makes mods of, in order; it skips a name
                 \* that another mods directory has given it already
  ModsTxt,       \* the lines of mods.txt that are parsed: [name, on]
  EnabledTxt,    \* mods with an enabled.txt, in directory order
  Loop,          \* the event loop's thread
  Threads,       \* the others
  Locking,       \* those whose callbacks run under m_thread_actions_mutex
  AskUnderLock,  \* whether these callbacks make requests
  KeyKinds,      \* the requests Lua key binds make, of Kinds
  KeySelf,       \* whether they make them about their own mod, whose Lua state closes then
                 \* while it runs: what follows is undefined
  PerFrame,      \* max_events_executed_per_frame
  MaxKeys,       \* bound: callbacks of key binds called in one iteration
  MaxRequests    \* bound: requests

Kinds == {"restart", "uninstall", "start", "reinstall"}

ASSUME NameAssumption ==
  /\ Names # {}
  /\ Directory \in Seq(Names)
  /\ \A m, n \in DOMAIN Directory : Directory[m] = Directory[n] => m = n
  /\ ModsTxt \in Seq([name : Names, on : BOOLEAN])
  /\ EnabledTxt \in Seq(Names)
ASSUME ThreadAssumption ==
  /\ Loop \notin Threads
  /\ Locking \subseteq Threads
  /\ AskUnderLock \in BOOLEAN
ASSUME KindAssumption == KeyKinds \subseteq Kinds /\ KeySelf \in BOOLEAN
ASSUME BoundAssumption ==
  /\ PerFrame \in Nat \ {0}
  /\ MaxKeys \in Nat
  /\ MaxRequests \in Nat

VARIABLES
  queue,        \* m_queued_events: executed ones are erased at the end of a batch
  done,         \* num_events_executed of the batch that runs
  served,       \* history: queued requests, in the order they were carried out
  eventLock,    \* m_event_queue_mutex: its holder, or nobody
  actionsLock,  \* m_thread_actions_mutex, likewise
  loop,         \* where the loop is
  job,          \* the request it carries out
  target,       \* the instance that request has found or created
  todo,         \* instances to uninstall, or names to start, in a reinstall
  keys,         \* instances whose key binds are still to be called
  caller,       \* where each other thread is, and the request it makes
  mods,         \* m_mods: instances, in order
  instances,    \* every LuaMod ever made, its id being its position here
  processing,   \* m_processing_events
  made          \* requests so far

queueing == <<queue, done, served, eventLock>>
calling == <<caller, made>>
lifecycle == <<mods, instances>>
work == <<job, target, todo>>
vars == <<queue, done, served, eventLock, actionsLock, loop, job, target, todo,
          keys, caller, mods, instances, processing, made>>

-----------------------------------------------------------------------------
(* Data.                                                                   *)

\* A request names its mod by id (RestartCurrentMod, UninstallCurrentMod) or, id
\* being zero, by name.
Ids == 1 .. Len(Directory) * (MaxRequests + 1)     \* never exhausted
Requests == [kind : Kinds, name : Names, id : {0} \cup Ids]

InstanceStates == {"created", "started", "closed"}

Instances == [name : Names, state : InstanceStates]

\* Variant: a request by id is taken for one by position.
DesignatesPosition(r, i) ==
  IF r.id # 0 THEN r.id \in DOMAIN mods /\ i = mods[r.id] ELSE instances[i].name = r.name

\* The predicate of the look-ups by id and by name.
Designates(r, i) == IF r.id # 0 THEN i = r.id ELSE instances[i].name = r.name

Matches(r) == {n \in DOMAIN mods : Designates(r, mods[n])}

\* Every look-up takes the first match in m_mods.
FirstMatch(r) == mods[CHOOSE n \in Matches(r) : \A o \in Matches(r) : n <= o]

\* The name in a request that has none.
NoName == CHOOSE name \in Names : TRUE

ReinstallAll == [kind |-> "reinstall", name |-> NoName, id |-> 0]
Named(name) == [kind |-> "start", name |-> name, id |-> 0]

\* Variant: the flag of a line is not looked at.
AllLines == [n \in DOMAIN ModsTxt |-> ModsTxt[n].name] \o EnabledTxt

\* The names start_mods tries: those mods.txt enables, then those with enabled.txt.
StartCandidates ==
  LET on == Without(ModsTxt, [name : Names, on : {FALSE}])
  IN  [n \in DOMAIN on |-> on[n].name] \o EnabledTxt

\* Variant: a mod is made in a state of its own.
NewInstalled == [n \in DOMAIN Directory |-> [name |-> Directory[n], state |-> "installed"]]

\* setup_mods makes a mod of each directory whose name is not in m_mods.
NewInstances == [n \in DOMAIN Directory |-> [name |-> Directory[n], state |-> "created"]]

\* A running mod restarts or uninstalls itself by id; a request for all mods names
\* none of them.
Makes(r) ==
  /\ r.id # 0 => /\ r.kind \in {"restart", "uninstall"}
                 /\ r.id \in Range(mods) /\ instances[r.id].state = "started"
                 /\ r.name = instances[r.id].name
  /\ r.kind = "reinstall" => r = ReinstallAll

-----------------------------------------------------------------------------
(* Other threads.                                                          *)

\* Script hooks, notify callbacks and key binds run Lua under the mutex; simple and
\* delayed actions, and the GUI, hold nothing.
EnterCallback(t) ==
  /\ t \in Locking
  /\ caller[t].pc = "out"
  /\ actionsLock = {}
  /\ actionsLock' = {t}
  /\ caller' = [caller EXCEPT ![t].pc = "in"]
  /\ UNCHANGED <<queueing, loop, work, keys, lifecycle, processing, made>>

\* Where a thread makes its requests.
Home(t) == IF t \in Locking THEN "in" ELSE "out"

\* queue_event drops the request unless the loop is processing events.
Ask(t, r) ==
  /\ caller[t].pc = Home(t)
  /\ t \in Locking => AskUnderLock
  /\ made < MaxRequests
  /\ Makes(r)
  /\ made' = made + 1
  /\ caller' = IF processing THEN [caller EXCEPT ![t] = [pc |-> "ask", req |-> r]]
                             ELSE caller
  /\ UNCHANGED <<queueing, actionsLock, loop, work, keys, lifecycle, processing>>

\* Variant: the newest request is put first.
EnqueueFirst(t) ==
  /\ caller[t].pc = "ask"
  /\ eventLock = {}
  /\ queue' = <<caller[t].req>> \o queue
  /\ caller' = [caller EXCEPT ![t].pc = Home(t)]
  /\ UNCHANGED <<done, served, eventLock, actionsLock, loop, work, keys, lifecycle,
                 processing, made>>

Enqueue(t) ==
  /\ caller[t].pc = "ask"
  /\ eventLock = {}
  /\ queue' = Append(queue, caller[t].req)
  /\ caller' = [caller EXCEPT ![t].pc = Home(t)]
  /\ UNCHANGED <<done, served, eventLock, actionsLock, loop, work, keys, lifecycle,
                 processing, made>>

LeaveCallback(t) ==
  /\ caller[t].pc = "in"
  /\ actionsLock' = actionsLock \ {t}
  /\ caller' = [caller EXCEPT ![t].pc = "out"]
  /\ UNCHANGED <<queueing, loop, work, keys, lifecycle, processing, made>>

\* ~UE4SSProgram.
Shutdown ==
  /\ processing
  /\ processing' = FALSE
  /\ UNCHANGED <<queueing, actionsLock, loop, work, keys, calling, lifecycle>>

-----------------------------------------------------------------------------
(* The iteration.                                                          *)

\* is_queue_empty looks at the vector without the mutex.
LoopBegins ==
  /\ loop = "top"
  /\ loop' = IF ~processing THEN "ended" ELSE IF queue = <<>> THEN "input" ELSE "lock"
  /\ UNCHANGED <<queueing, actionsLock, work, keys, calling, lifecycle, processing>>

LoopLocks ==
  /\ loop = "lock"
  /\ eventLock = {}
  /\ eventLock' = {Loop}
  /\ loop' = "batch"
  /\ UNCHANGED <<queue, done, served, actionsLock, work, keys, calling, lifecycle,
                 processing>>

\* remove_if calls the next event ...
NextEvent ==
  /\ loop = "batch"
  /\ done < Len(queue) /\ done < PerFrame
  /\ job' = queue[done + 1]
  /\ loop' = "job"
  /\ UNCHANGED <<queueing, actionsLock, target, todo, keys, calling, lifecycle,
                 processing>>

\* What erase leaves.
NotExecuted == SubSeq(queue, done + 1, Len(queue))

\* Variant: the mutex is not released.
BatchKeepsLock ==
  /\ loop = "batch"
  /\ done = Len(queue) \/ done = PerFrame
  /\ queue' = NotExecuted
  /\ done' = 0
  /\ loop' = "input"
  /\ UNCHANGED <<eventLock, served, actionsLock, work, keys, calling, lifecycle, processing>>

\* ... and the executed ones are erased when the limit or the end is reached.
BatchEnds ==
  /\ loop = "batch"
  /\ done = Len(queue) \/ done = PerFrame
  /\ queue' = NotExecuted
  /\ done' = 0
  /\ eventLock' = {}
  /\ loop' = "input"
  /\ UNCHANGED <<served, actionsLock, work, keys, calling, lifecycle, processing>>

\* Handler::process_event copies the callbacks of the pressed keys, which it calls
\* one after the other.  The updates of the mods follow, and the iteration ends.
ReadKeys ==
  /\ loop = "input"
  /\ \E pressed \in UNION {[1 .. n -> {i \in Range(mods) : instances[i].state = "started"}] : n \in 0 .. MaxKeys} :
       keys' = pressed
  /\ loop' = "key"
  /\ UNCHANGED <<queueing, actionsLock, work, calling, lifecycle, processing>>

KeysEnd ==
  /\ loop = "key" /\ keys = <<>>
  /\ loop' = "top"
  /\ UNCHANGED <<queueing, actionsLock, work, keys, calling, lifecycle, processing>>

\* The hot reload key is bound by the program itself, outside Lua.
HotReloadKey ==
  /\ loop = "key" /\ keys = <<>>
  /\ made < MaxRequests
  /\ made' = made + 1
  /\ job' = ReinstallAll
  /\ loop' = "job"
  /\ UNCHANGED <<queueing, actionsLock, target, todo, keys, caller, lifecycle, processing>>

\* The callback of a Lua key bind runs under the actions mutex ...
EnterKeyBind ==
  /\ loop = "key" /\ keys # <<>>
  /\ actionsLock = {}
  /\ actionsLock' = {Loop}
  /\ loop' = "keyCall"
  /\ UNCHANGED <<queueing, work, keys, calling, lifecycle, processing>>

\* ... and a request it makes is carried out inside it.
AskInKeyBind(r) ==
  /\ loop = "keyCall"
  /\ r.kind \in KeyKinds
  /\ Makes(r) /\ r.id \in {0, Head(keys)}
  /\ (r.id # 0 \/ r.name = instances[Head(keys)].name) => KeySelf
  /\ made < MaxRequests
  /\ made' = made + 1
  /\ job' = r
  /\ loop' = "job"
  /\ UNCHANGED <<queueing, actionsLock, target, todo, keys, caller, lifecycle,
                 processing>>

LeaveKeyBind ==
  /\ loop = "keyCall"
  /\ actionsLock' = {}
  /\ keys' = Tail(keys)
  /\ loop' = "key"
  /\ UNCHANGED <<queueing, work, calling, lifecycle, processing>>

-----------------------------------------------------------------------------
(* Carrying out a request, inside an event or inside a key bind.           *)

\* The request is done; an event is counted, a key bind goes on.
Finish ==
  IF eventLock = {Loop}
  THEN /\ loop' = "batch"
       /\ done' = done + 1
       /\ served' = Append(served, job)
       /\ UNCHANGED <<queue, eventLock>>
  ELSE /\ loop' = IF actionsLock = {Loop} THEN "keyCall" ELSE "key"
       /\ UNCHANGED queueing

\* A restart or uninstall request looks its mod up now, not when it was queued.
FindMod ==
  /\ loop = "job"
  /\ job.kind \in {"restart", "uninstall"}
  /\ IF Matches(job) # {}
     THEN /\ target' = FirstMatch(job)
          /\ loop' = "uninstall"
          /\ UNCHANGED queueing
     ELSE /\ Finish
          /\ UNCHANGED target
  /\ UNCHANGED <<job, todo, actionsLock, keys, calling, lifecycle, processing>>

\* Variant: a running mod is replaced, too.
FindReplaceable ==
  /\ loop = "job"
  /\ job.kind = "start"
  /\ mods' = IF Matches(job) = {} THEN mods
             ELSE Without(mods, {FirstMatch(job)})
  /\ loop' = "create"
  /\ UNCHANGED <<queueing, work, actionsLock, keys, calling, instances, processing>>

\* A start request leaves a running mod alone and removes one that never started;
\* a directory without a main.lua ends the request after that removal.
FindStartable ==
  /\ loop = "job"
  /\ job.kind = "start"
  /\ IF Matches(job) # {} /\ instances[FirstMatch(job)].state = "started"
     THEN /\ Finish
          /\ UNCHANGED mods
     ELSE /\ mods' = IF Matches(job) = {} THEN mods
                     ELSE Without(mods, {FirstMatch(job)})
          /\ \/ loop' = "create" /\ UNCHANGED queueing
             \/ Finish
  /\ UNCHANGED <<work, actionsLock, keys, calling, instances, processing>>

\* LuaMod::uninstall, under the (recursive) actions mutex.
Close(i) ==
  /\ actionsLock \subseteq {Loop}
  /\ instances' = [instances EXCEPT ![i].state = "closed"]

\* Variant: a restarted mod stays in m_mods.
DeleteOnUninstall ==
  /\ loop = "delete"
  /\ IF job.kind = "restart"
     THEN loop' = "create" /\ UNCHANGED <<mods, queueing>>
     ELSE /\ mods' = Without(mods, {target})
          /\ Finish
  /\ UNCHANGED <<work, actionsLock, keys, calling, instances, processing>>

Uninstall ==
  /\ loop = "uninstall"
  /\ Close(target)
  /\ loop' = "delete"
  /\ UNCHANGED <<queueing, actionsLock, work, keys, calling, mods, processing>>

DeleteMod ==
  /\ loop = "delete"
  /\ mods' = Without(mods, {target})
  /\ IF job.kind = "restart" THEN loop' = "create" /\ UNCHANGED queueing ELSE Finish
  /\ UNCHANGED <<work, actionsLock, keys, calling, instances, processing>>

\* A new LuaMod draws the next id.  A restart takes the name of the old one.
CreateMod ==
  /\ loop = "create"
  /\ LET name == IF job.kind = "restart" THEN instances[target].name ELSE job.name
     IN  instances' = Append(instances, [name |-> name, state |-> "created"])
  /\ mods' = Append(mods, Len(instances) + 1)
  /\ target' = Len(instances) + 1
  /\ loop' = "main"
  /\ UNCHANGED <<queueing, actionsLock, job, todo, keys, calling, processing>>

\* start_mod executes main.lua.
StartMod ==
  /\ loop = "main"
  /\ instances' = [instances EXCEPT ![target].state = "started"]
  /\ Finish
  /\ UNCHANGED <<work, actionsLock, keys, calling, mods, processing>>

\* queue_reinstall_mods: uninstall every mod, ...
BeginReinstall ==
  /\ loop = "job"
  /\ job.kind = "reinstall"
  /\ todo' = mods
  /\ loop' = "uninstallAll"
  /\ UNCHANGED <<queueing, job, target, actionsLock, keys, calling, lifecycle, processing>>

UninstallNext ==
  /\ loop = "uninstallAll" /\ todo # <<>>
  /\ Close(Head(todo))
  /\ todo' = Tail(todo)
  /\ UNCHANGED <<queueing, actionsLock, loop, job, target, keys, calling, mods, processing>>

\* Variant: m_mods is not cleared.
SetupKeepsMods ==
  /\ loop = "uninstallAll" /\ todo = <<>>
  /\ mods' = mods \o [n \in DOMAIN Directory |-> Len(instances) + n]
  /\ instances' = instances \o NewInstances
  /\ todo' = StartCandidates
  /\ loop' = "startAll"
  /\ UNCHANGED <<queueing, job, target, actionsLock, keys, calling, processing>>

\* ... clear m_mods, make a mod of every directory, ...
SetupMods ==
  /\ loop = "uninstallAll" /\ todo = <<>>
  /\ mods' = [n \in DOMAIN Directory |-> Len(instances) + n]
  /\ instances' = instances \o NewInstances
  /\ todo' = StartCandidates
  /\ loop' = "startAll"
  /\ UNCHANGED <<queueing, job, target, actionsLock, keys, calling, processing>>

\* find_mod_by_name found one, and it is not started.
NotStarted(name) ==
  /\ Matches(Named(name)) # {}
  /\ instances[FirstMatch(Named(name))].state = "created"

\* ... and start the enabled ones, in the order of the candidates.
StartNext ==
  /\ loop = "startAll" /\ todo # <<>>
  /\ todo' = Tail(todo)
  /\ instances' = IF NotStarted(Head(todo))
                  THEN [instances EXCEPT ![FirstMatch(Named(Head(todo)))].state = "started"]
                  ELSE instances
  /\ UNCHANGED <<queueing, actionsLock, loop, job, target, keys, calling, mods, processing>>

EndReinstall ==
  /\ loop = "startAll" /\ todo = <<>>
  /\ Finish
  /\ UNCHANGED <<work, actionsLock, keys, calling, lifecycle, processing>>

-----------------------------------------------------------------------------
NoRequest == [kind |-> "start", name |-> NoName, id |-> 0]

\* The mods that are installed have been started by on_program_start.
Init ==
  /\ queue = <<>>
  /\ done = 0
  /\ served = <<>>
  /\ eventLock = {}
  /\ actionsLock = {}
  /\ loop = "top"
  /\ job = NoRequest
  /\ target = 0
  /\ todo = <<>>
  /\ keys = <<>>
  /\ caller = [t \in Threads |-> [pc |-> "out", req |-> NoRequest]]
  /\ mods = [n \in DOMAIN Directory |-> n]
  /\ instances = [n \in DOMAIN Directory |->
                    [name |-> Directory[n],
                     state |-> IF Directory[n] \in Range(StartCandidates)
                               THEN "started" ELSE "created"]]
  /\ processing = TRUE
  /\ made = 0

Iterate ==
  \/ LoopBegins
  \/ LoopLocks
  \/ NextEvent
  \/ BatchEnds
  \/ ReadKeys
  \/ KeysEnd
  \/ EnterKeyBind
  \/ LeaveKeyBind

CarryOut ==
  \/ FindMod
  \/ FindStartable
  \/ Uninstall
  \/ DeleteMod
  \/ CreateMod
  \/ StartMod
  \/ BeginReinstall
  \/ UninstallNext
  \/ SetupMods
  \/ StartNext
  \/ EndReinstall

CallerStep(t) == Enqueue(t) \/ LeaveCallback(t)

Next ==
  \/ Iterate
  \/ CarryOut
  \/ HotReloadKey
  \/ \E r \in Requests : AskInKeyBind(r)
  \/ \E t \in Threads :
       \/ EnterCallback(t)
       \/ \E r \in Requests : Ask(t, r)
       \/ CallerStep(t)
  \/ Shutdown

Spec == Init /\ [][Next]_vars

\* The loop's thread goes on, and gets a mutex that is released again and again;
\* callbacks make their requests and return.
FairSpec ==
  /\ Spec
  /\ SF_vars(Iterate \/ CarryOut)
  /\ \A t \in Threads : WF_vars(CallerStep(t))

-----------------------------------------------------------------------------
(* Properties.                                                             *)

Jobs == {"job", "uninstall", "delete", "create", "main", "uninstallAll", "startAll"}

\* Every variable keeps its type.
TypeOK ==
  /\ queue \in Seq(Requests)
  /\ done \in Nat
  /\ served \in Seq(Requests)
  /\ eventLock \subseteq Threads \cup {Loop}
  /\ actionsLock \subseteq Threads \cup {Loop}
  /\ loop \in Jobs \cup {"top", "lock", "batch", "input", "key", "keyCall", "ended"}
  /\ job \in Requests
  /\ target \in Nat
  /\ keys \in Seq(Nat)
  /\ caller \in [Threads -> [pc : {"out", "in", "ask"}, req : Requests]]
  /\ mods \in Seq(Nat)
  /\ instances \in Seq(Instances)
  /\ processing \in BOOLEAN
  /\ made \in Nat

\* What EventQueue promises, the executed events of a batch being served although
\* they are still in the vector.
Promise == INSTANCE EventQueue WITH
  waiting <- NotExecuted, open <- processing

KeepsPromise == Promise!Spec

\* The loop serves what is queued: it never waits for a thread that waits for it.
RequestsAreServed == \A n \in 1 .. MaxRequests : Promise!IsServed(n)

\* However requests are mixed, m_mods holds at most one mod of a name, so that the
\* look-ups by name (UE4SSProgram.cpp:1968, 2375) are unambiguous.
NamesUnique ==
  \A m, n \in DOMAIN mods : instances[mods[m]].name = instances[mods[n]].name => m = n

\* A mod that runs is listed, so it can still be found, updated and uninstalled, and
\* between requests no closed mod is, whose state the loop would update.
ListedMatchesRunning ==
  /\ \A i \in DOMAIN instances : instances[i].state = "started" => i \in Range(mods)
  /\ loop \notin Jobs => \A i \in Range(mods) : instances[i].state # "closed"

\* RestartCurrentMod and UninstallCurrentMod, served late, never close a mod other
\* than the one that called them, even when it has gone meanwhile.
IdHitsItsMod ==
  [][\A i \in DOMAIN instances :
       (instances[i].state # "closed" /\ instances'[i].state = "closed") =>
         job.kind = "reinstall" \/ IF job.id # 0 THEN i = job.id ELSE instances[i].name = job.name]_vars

Enabled ==
  {ModsTxt[n].name : n \in {l \in DOMAIN ModsTxt : ModsTxt[l].on}} \cup Range(EnabledTxt)

\* After a reinstall exactly the enabled mods run, each once.
ReinstallStartsEnabled ==
  [][(loop = "startAll" /\ loop' # "startAll") =>
       \A name \in Names :
         Cardinality({i \in DOMAIN instances : instances[i].name = name /\ instances[i].state = "started"})
           = IF name \in Enabled \cap Range(Directory) THEN 1 ELSE 0]_vars
=============================================================================
