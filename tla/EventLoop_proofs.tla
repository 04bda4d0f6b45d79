-------------------------- MODULE EventLoop_proofs --------------------------
(***************************************************************************)
(* What holds of EventLoop for every set of names and threads, every       *)
(* mods.txt and every bound, whatever key binds and callbacks ask for.     *)
(***************************************************************************)
EXTENDS EventLoop, Vectors_proofs, TLAPS

-----------------------------------------------------------------------------
(* The invariant.                                                          *)

Places == Jobs \cup {"top", "lock", "batch", "input", "key", "keyCall", "ended"}
Busy == loop \in Jobs
NameOf(i) == instances[i].name
StateOf(i) == instances[i].state
Listed == Range(mods)

\* Only a restart or an uninstall names its mod by id.
ProperRequests ==
  {r \in Requests : r.kind \notin {"restart", "uninstall"} => r.id = 0}

Typed ==
  /\ queue \in Seq(ProperRequests)
  /\ done \in Nat
  /\ served \in Seq(ProperRequests)
  /\ eventLock \subseteq Threads \cup {Loop}
  /\ actionsLock \subseteq Threads \cup {Loop}
  /\ loop \in Places
  /\ job \in ProperRequests
  /\ target \in Nat
  /\ keys \in Seq(Nat)
  /\ caller \in [Threads -> [pc : {"out", "in", "ask"}, req : ProperRequests]]
  /\ mods \in Seq(Nat)
  /\ instances \in Seq(Instances)
  /\ processing \in BOOLEAN
  /\ made \in Nat

\* The loop holds the queue's mutex from the beginning of a batch to its end, and the
\* event that it carries out meanwhile is the first that is not executed yet.
BatchOK ==
  /\ done <= Len(queue)
  /\ eventLock \in {{}, {Loop}}
  /\ eventLock = {} => done = 0
  /\ loop = "batch" => eventLock = {Loop}
  /\ eventLock = {Loop} =>
       loop = "batch" \/ (Busy /\ done < Len(queue) /\ job = queue[done + 1])

\* One thread at a time holds the actions mutex.  The loop does inside a key bind only, and
\* what the key bind asks for is carried out there; a batch does without.
KeysOK ==
  /\ \A t, u \in actionsLock : t = u
  /\ loop = "keyCall" => actionsLock = {Loop}
  /\ actionsLock = {Loop} => (Busy \/ loop = "keyCall") /\ keys # <<>> /\ eventLock = {}

\* Running mods are listed, listed ones are open, but for the mods being uninstalled.
ListOK ==
  /\ Listed \subseteq DOMAIN instances
  /\ NamesUnique
  /\ loop # "uninstallAll" =>
       \A i \in DOMAIN instances : StateOf(i) = "started" => i \in Listed
  /\ loop \notin {"delete", "uninstallAll"} => \A i \in Listed : StateOf(i) # "closed"

\* The name of the mod that a restart or a start is about to make.
NewName == IF job.kind = "restart" THEN NameOf(target) ELSE job.name

\* What a stage of a request has found.
StageOK ==
  /\ loop \in {"uninstall", "delete"} =>
       /\ job.kind \in {"restart", "uninstall"}
       /\ target \in Listed /\ Designates(job, target)
  /\ loop = "delete" => \A i \in Listed : StateOf(i) = "closed" <=> i = target
  /\ loop = "create" =>
       /\ job.kind \in {"restart", "start"}
       /\ job.kind = "restart" => target \in DOMAIN instances
       /\ \A i \in Listed : NameOf(i) # NewName
  /\ loop = "main" => target \in Listed /\ StateOf(target) = "created"
  /\ loop = "uninstallAll" =>
       /\ job.kind = "reinstall"
       /\ todo \in Seq(Nat) /\ Range(todo) \subseteq Listed
       /\ \A i \in DOMAIN instances : StateOf(i) = "started" => i \in Range(todo)

Candidates == Range(StartCandidates)

\* A reinstall has made one mod of each directory, and so far started the candidates
\* that it is past.
StartOK ==
  loop = "startAll" =>
    /\ job.kind = "reinstall"
    /\ todo \in Seq(Names) /\ Range(todo) \subseteq Candidates
    /\ {NameOf(i) : i \in Listed} = Range(Directory)
    /\ \A i \in Listed : StateOf(i) = "started" => NameOf(i) \in Candidates
    /\ \A i \in Listed : NameOf(i) \in Candidates =>
         StateOf(i) = "started" \/ NameOf(i) \in Range(todo)

LifeOK == ListOK /\ StageOK /\ StartOK

LoopInv == Typed /\ BatchOK /\ KeysOK /\ LifeOK

-----------------------------------------------------------------------------
(* Look-ups and changes of the list.                                       *)

\* The requests that have no name, and the names that start_mods tries.
LEMMA NamelessRequests ==
  /\ NoName \in Names
  /\ NoRequest \in ProperRequests
  /\ ReinstallAll \in ProperRequests
  /\ ReinstallAll.kind = "reinstall"
<1>1. NoName \in Names
  BY NameAssumption DEF NoName
<1> QED
  BY <1>1 DEF NoRequest, ReinstallAll, ProperRequests, Requests, Kinds

LEMMA CandidatesAreEnabled ==
  /\ StartCandidates \in Seq(Names)
  /\ Candidates = Enabled
<1> DEFINE Lines == [name : Names, on : BOOLEAN]
           on == Without(ModsTxt, [name : Names, on : {FALSE}])
           names == [n \in DOMAIN on |-> on[n].name]
<1>0. ModsTxt \in Seq(Lines) /\ EnabledTxt \in Seq(Names)
  BY NameAssumption
<1> HIDE DEF Lines
<1>1. /\ on \in Seq(Lines)
      /\ Range(on) = Range(ModsTxt) \ [name : Names, on : {FALSE}]
  BY <1>0, WithoutIsASequence
<1> HIDE DEF on
<1>2. /\ Len(on) \in Nat /\ DOMAIN on = 1 .. Len(on)
      /\ \A n \in DOMAIN on : on[n] \in Lines
  BY <1>1, LenProperties, ElementOfSeq
<1>3. \A n \in DOMAIN ModsTxt : ModsTxt[n] \in Lines
  BY <1>0, LenProperties, ElementOfSeq
<1> USE DEF Lines
<1>4. names \in [1 .. Len(on) -> Names]
  BY <1>2
<1>5. names \in Seq(Names) /\ DOMAIN names = DOMAIN on
  BY <1>2, <1>4, SeqDef
<1>6. StartCandidates = names \o EnabledTxt
  BY DEF StartCandidates, on
<1>7. Range(names) = {ModsTxt[n].name : n \in {l \in DOMAIN ModsTxt : ModsTxt[l].on}}
  <2>1. \A r \in Lines : r \notin [name : Names, on : {FALSE}] <=> r.on
    OBVIOUS
  <2>2. Range(on) = {ModsTxt[n] : n \in {l \in DOMAIN ModsTxt : ModsTxt[l].on}}
    BY <1>1, <1>3, <2>1 DEF Range
  <2>3. Range(names) = {r.name : r \in Range(on)}
    BY DEF Range
  <2> QED
    BY <2>2, <2>3
<1> HIDE DEF names
<1>8. /\ names \o EnabledTxt \in Seq(Names)
      /\ Range(names \o EnabledTxt) = Range(names) \cup Range(EnabledTxt)
  BY <1>0, <1>5, ConcatProperties, RangeConcatenation
<1> QED
  BY <1>6, <1>7, <1>8 DEF Candidates, Enabled

\* A look-up that finds something finds a listed mod that the request designates, and by
\* name there is only one.
LEMMA FirstMatchIsListed ==
  ASSUME Typed, NEW r, Matches(r) # {}
  PROVE  /\ FirstMatch(r) \in Listed
         /\ Designates(r, FirstMatch(r))
<1>1. DOMAIN mods = 1 .. Len(mods) /\ Len(mods) \in Nat
  BY LenProperties DEF Typed
<1>2. Matches(r) \in SUBSET (1 .. Len(mods))
  BY <1>1 DEF Matches
<1>3. \E n \in Matches(r) : \A o \in Matches(r) : n <= o
  BY <1>1, <1>2, LeastExists
<1>4. PICK n \in Matches(r) : FirstMatch(r) = mods[n]
  BY <1>3 DEF FirstMatch
<1> QED
  BY <1>4 DEF Matches, Listed, Range

LEMMA NoMatch ==
  ASSUME NEW r, Matches(r) = {}
  PROVE  \A i \in Listed : ~Designates(r, i)
BY DEF Matches, Listed, Range

LEMMA ListedNamesUnique ==
  ASSUME NamesUnique
  PROVE  \A i, j \in Listed : NameOf(i) = NameOf(j) => i = j
BY DEF NamesUnique, Listed, Range, NameOf

\* Erasing a mod from m_mods.
LEMMA RemoveFromList ==
  ASSUME Typed, ListOK, NEW i, mods' = Without(mods, {i}), instances' = instances
  PROVE  /\ mods' \in Seq(Nat)
         /\ Listed' = Listed \ {i}
         /\ NamesUnique'
<1>0. mods \in Seq(Nat)
  BY DEF Typed
<1>1. /\ mods' \in Seq(Nat)
      /\ Range(mods') = Range(mods) \ {i}
  BY <1>0, WithoutIsASequence
<1>2. /\ DOMAIN mods = 1 .. Len(mods) /\ Len(mods) \in Nat
      /\ DOMAIN mods' = 1 .. Len(mods') /\ Len(mods') \in Nat
  BY <1>0, <1>1, LenProperties
<1>3. ASSUME NEW m \in DOMAIN mods', NEW n \in DOMAIN mods', m < n
      PROVE  instances[mods'[m]].name # instances[mods'[n]].name
  <2>1. PICK k \in DOMAIN mods, l \in DOMAIN mods :
          k < l /\ mods'[m] = mods[k] /\ mods'[n] = mods[l]
    BY <1>0, <1>3, WithoutKeepsOrder
  <2>2. k # l
    BY <1>2, <2>1
  <2> QED
    BY <2>1, <2>2 DEF ListOK, NamesUnique
<1>4. \A m, n \in DOMAIN mods' : m < n \/ n < m \/ m = n
  BY <1>2
<1>5. NamesUnique'
  BY <1>3, <1>4 DEF NamesUnique
<1> QED
  BY <1>1, <1>5 DEF Listed

\* A change of an instance's state.
LEMMA SetState ==
  ASSUME Typed, NEW i \in DOMAIN instances, NEW s \in InstanceStates,
         instances' = [instances EXCEPT ![i].state = s]
  PROVE  /\ instances' \in Seq(Instances)
         /\ DOMAIN instances' = DOMAIN instances
         /\ \A j \in DOMAIN instances :
              /\ instances'[j].name = instances[j].name
              /\ instances'[j].state = IF j = i THEN s ELSE instances[j].state
<1>1. DOMAIN instances = 1 .. Len(instances) /\ Len(instances) \in Nat
  BY LenProperties DEF Typed
<1>2. \A j \in DOMAIN instances : instances[j] \in Instances
  BY <1>1, ElementOfSeq DEF Typed
<1>3. [instances[i] EXCEPT !.state = s] \in Instances
  BY <1>2 DEF Instances
<1>4. instances' = [instances EXCEPT ![i] = [instances[i] EXCEPT !.state = s]]
  OBVIOUS
<1>5. /\ instances' \in Seq(Instances)
      /\ Len(instances') = Len(instances)
  BY <1>1, <1>3, <1>4, ExceptSeq DEF Typed
<1>6. \A j \in DOMAIN instances :
        instances'[j] = IF j = i THEN [instances[i] EXCEPT !.state = s] ELSE instances[j]
  BY <1>4
<1> QED
  BY <1>1, <1>2, <1>5, <1>6, LenProperties DEF Instances

\* The names of the listed mods stay unique while names and list stay.
LEMMA SameNames ==
  ASSUME Typed, ListOK, mods' = mods,
         \A j \in DOMAIN instances : instances'[j].name = instances[j].name
  PROVE  NamesUnique'
<1>1. \A n \in DOMAIN mods : mods[n] \in DOMAIN instances
  BY DEF ListOK, Listed, Range
<1> QED
  BY <1>1 DEF ListOK, NamesUnique

-----------------------------------------------------------------------------
(* Where the loop is, and what it holds.                                   *)

LEMMA InitControl == Init => Typed /\ BatchOK /\ KeysOK
<1> SUFFICES ASSUME Init
             PROVE  Typed /\ BatchOK /\ KeysOK
  OBVIOUS
<1>1. /\ <<>> \in Seq(ProperRequests) /\ Len(<<>>) = 0
      /\ <<>> \in Seq(Nat)
  BY EmptySeq
<1>2. /\ DOMAIN Directory = 1 .. Len(Directory) /\ Len(Directory) \in Nat
      /\ \A n \in DOMAIN Directory : Directory[n] \in Names
  BY NameAssumption, LenProperties, ElementOfSeq
<1>3. mods \in Seq(Nat)
  <2>1. mods \in [1 .. Len(Directory) -> Nat]
    BY <1>2 DEF Init
  <2> QED
    BY <1>2, <2>1, SeqDef
<1>4. instances \in Seq(Instances)
  <2>1. instances \in [1 .. Len(Directory) -> Instances]
    BY <1>2 DEF Init, Instances, InstanceStates
  <2> QED
    BY <1>2, <2>1, SeqDef
<1>5. Typed
  BY <1>1, <1>3, <1>4, NamelessRequests DEF Init, Typed, Places
<1>6. BatchOK /\ KeysOK
  BY <1>1 DEF Init, BatchOK, KeysOK
<1> QED
  BY <1>5, <1>6

\* The end of a request counts it, if it is one of a batch, and lets the loop or the key
\* bind go on.
LEMMA FinishEffect ==
  ASSUME Typed, BatchOK, KeysOK, Busy, Finish, UNCHANGED <<job, actionsLock, keys>>
  PROVE  /\ loop' \in {"batch", "keyCall", "key"}
         /\ done' \in Nat /\ served' \in Seq(ProperRequests)
         /\ UNCHANGED <<queue, eventLock>>
         /\ BatchOK' /\ KeysOK'
<1>1. Len(queue) \in Nat
  BY LenProperties DEF Typed
<1>2. Append(served, job) \in Seq(ProperRequests)
  BY AppendProperties DEF Typed
<1>3. loop # "batch" /\ loop # "keyCall"
  BY DEF Busy, Jobs
<1>4. CASE eventLock = {Loop}
  <2>1. /\ loop' = "batch" /\ done' = done + 1 /\ served' = Append(served, job)
        /\ UNCHANGED <<queue, eventLock>>
    BY <1>4 DEF Finish
  <2>2. done < Len(queue) /\ actionsLock # {Loop}
    BY <1>3, <1>4 DEF BatchOK, KeysOK
  <2> QED
    BY <1>1, <1>2, <1>4, <2>1, <2>2 DEF Typed, BatchOK, KeysOK, Busy, Jobs
<1>5. CASE eventLock # {Loop}
  <2>1. /\ loop' = IF actionsLock = {Loop} THEN "keyCall" ELSE "key"
        /\ UNCHANGED <<queue, done, served, eventLock>>
    BY <1>5 DEF Finish, queueing
  <2> QED
    BY <1>1, <1>5, <2>1 DEF Typed, BatchOK, KeysOK, Busy, Jobs
<1> QED
  BY <1>4, <1>5

LEMMA IterateControl ==
  ASSUME Typed, BatchOK, KeysOK, Iterate
  PROVE  Typed' /\ BatchOK' /\ KeysOK'
<1> USE DEF Typed, BatchOK, KeysOK, Busy, Jobs, Places, queueing, work, calling, lifecycle
<1>0. Len(queue) \in Nat
  BY LenProperties
<1>1. CASE LoopBegins
  BY <1>1 DEF LoopBegins
<1>2. CASE LoopLocks
  BY <1>2 DEF LoopLocks
<1>3. CASE NextEvent
  <2>1. queue[done + 1] \in ProperRequests
    BY <1>0, <1>3, ElementOfSeq DEF NextEvent
  <2> QED
    BY <1>3, <2>1 DEF NextEvent
<1>4. CASE BatchEnds
  <2>1. NotExecuted \in Seq(ProperRequests)
    <3>1. \A i \in done + 1 .. Len(queue) : queue[i] \in ProperRequests
      BY <1>0, ElementOfSeq
    <3> QED
      BY <1>0, <3>1, SubSeqProperties DEF NotExecuted
  <2>2. Len(NotExecuted) \in Nat
    BY <2>1, LenProperties
  <2> QED
    BY <1>4, <2>1, <2>2 DEF BatchEnds
<1>5. CASE ReadKeys
  <2>0. PICK n \in 0 .. MaxKeys :
          keys' \in [1 .. n -> {i \in Range(mods) : instances[i].state = "started"}]
    BY <1>5 DEF ReadKeys
  <2>1. keys' \in [1 .. n -> Range(mods)]
    BY <2>0
  <2>2. Range(mods) \subseteq Nat
    BY LenProperties, ElementOfSeq DEF Range
  <2>3. keys' \in [1 .. n -> Nat] /\ n \in Nat
    BY <2>1, <2>2, BoundAssumption
  <2>4. keys' \in Seq(Nat)
    BY <2>3, SeqDef
  <2> QED
    BY <1>5, <2>4 DEF ReadKeys
<1>6. CASE KeysEnd
  BY <1>6 DEF KeysEnd
<1>7. CASE EnterKeyBind
  BY <1>7 DEF EnterKeyBind
<1>8. CASE LeaveKeyBind
  <2>1. Tail(keys) \in Seq(Nat)
    BY <1>8, HeadTailProperties DEF LeaveKeyBind
  <2> QED
    BY <1>8, <2>1 DEF LeaveKeyBind
<1> QED
  BY <1>1, <1>2, <1>3, <1>4, <1>5, <1>6, <1>7, <1>8 DEF Iterate

\* A new instance: the others stay as they are, and it is the only one of m_mods that is new.
LEMMA CreateEffect ==
  ASSUME LoopInv, CreateMod
  PROVE  LET new == Len(instances) + 1
         IN  /\ NewName \in Names
             /\ mods' \in Seq(Nat) /\ instances' \in Seq(Instances)
             /\ new \in Nat /\ new \notin DOMAIN instances /\ 0 \notin DOMAIN instances
             /\ DOMAIN instances' = DOMAIN instances \cup {new}
             /\ \A i \in DOMAIN instances : instances'[i] = instances[i]
             /\ instances'[new] = [name |-> NewName, state |-> "created"]
             /\ Listed' = Listed \cup {new}
             /\ Len(mods) \in Nat /\ DOMAIN mods = 1 .. Len(mods)
             /\ DOMAIN mods' = DOMAIN mods \cup {Len(mods) + 1}
             /\ \A n \in DOMAIN mods : mods'[n] = mods[n]
             /\ mods'[Len(mods) + 1] = new
<1> DEFINE new == Len(instances) + 1
           made1 == [name |-> NewName, state |-> "created"]
<1>1. mods \in Seq(Nat) /\ instances \in Seq(Instances)
  BY DEF LoopInv, Typed
<1>2. /\ DOMAIN instances = 1 .. Len(instances) /\ Len(instances) \in Nat
      /\ DOMAIN mods = 1 .. Len(mods) /\ Len(mods) \in Nat
  BY <1>1, LenProperties
<1>3. NewName \in Names
  <2>1. CASE job.kind = "restart"
    <3>1. target \in DOMAIN instances
      BY <2>1 DEF CreateMod, LoopInv, LifeOK, StageOK
    <3>2. instances[target] \in Instances
      BY <1>1, <1>2, <3>1, ElementOfSeq
    <3> QED
      BY <2>1, <3>2 DEF NewName, NameOf, Instances
  <2>2. CASE job.kind # "restart"
    BY <2>2 DEF NewName, LoopInv, Typed, ProperRequests, Requests
  <2> QED
    BY <2>1, <2>2
<1>4. made1 \in Instances
  BY <1>3 DEF Instances, InstanceStates
<1>5. instances' = Append(instances, made1) /\ mods' = Append(mods, new)
  BY DEF CreateMod, NewName, NameOf
<1> HIDE DEF made1
<1>6. /\ instances' \in Seq(Instances)
      /\ Len(instances') = new
      /\ \A i \in DOMAIN instances : instances'[i] = instances[i]
      /\ instances'[new] = made1
  BY <1>1, <1>2, <1>4, <1>5, AppendProperties
<1>7. /\ mods' \in Seq(Nat)
      /\ Len(mods') = Len(mods) + 1
      /\ \A n \in DOMAIN mods : mods'[n] = mods[n]
      /\ mods'[Len(mods) + 1] = new
  BY <1>1, <1>2, <1>5, AppendProperties
<1>8. /\ DOMAIN instances' = 1 .. new
      /\ DOMAIN mods' = 1 .. Len(mods) + 1
  BY <1>6, <1>7, LenProperties
<1>9. Listed' = Listed \cup {new}
  BY <1>1, <1>2, <1>5, RangeOfAppend DEF Listed
<1> QED
  BY <1>2, <1>3, <1>6, <1>7, <1>8, <1>9 DEF made1

\* setup_mods: the new list is that of the new instances, one for each directory.
LEMMA SetupEffect ==
  ASSUME LoopInv, SetupMods
  PROVE  /\ mods' \in Seq(Nat) /\ instances' \in Seq(Instances)
         /\ Len(instances) \in Nat /\ DOMAIN instances = 1 .. Len(instances)
         /\ DOMAIN mods' = DOMAIN Directory
         /\ \A n \in DOMAIN Directory : n \in Nat \ {0} /\ mods'[n] = Len(instances) + n
         /\ Listed' = {Len(instances) + n : n \in DOMAIN Directory}
         /\ DOMAIN instances' = DOMAIN instances \cup Listed'
         /\ \A i \in DOMAIN instances : instances'[i] = instances[i]
         /\ \A n \in DOMAIN Directory :
              instances'[Len(instances) + n] = [name |-> Directory[n], state |-> "created"]
<1>1. instances \in Seq(Instances)
  BY DEF LoopInv, Typed
<1>2. DOMAIN instances = 1 .. Len(instances) /\ Len(instances) \in Nat
  BY <1>1, LenProperties
<1>3. /\ DOMAIN Directory = 1 .. Len(Directory) /\ Len(Directory) \in Nat
      /\ \A n \in DOMAIN Directory : Directory[n] \in Names
  BY NameAssumption, LenProperties, ElementOfSeq
<1>4. mods' = [n \in DOMAIN Directory |-> Len(instances) + n]
  BY DEF SetupMods
<1>5. mods' \in Seq(Nat)
  <2>1. mods' \in [1 .. Len(Directory) -> Nat]
    BY <1>2, <1>3, <1>4
  <2> QED
    BY <1>3, <2>1, SeqDef
<1>6. NewInstances \in [1 .. Len(Directory) -> Instances]
  BY <1>3 DEF NewInstances, Instances, InstanceStates
<1>7. NewInstances \in Seq(Instances) /\ Len(NewInstances) = Len(Directory)
  BY <1>3, <1>6, SeqDef, LenProperties
<1>8. /\ instances' \in Seq(Instances)
      /\ Len(instances') = Len(instances) + Len(Directory)
      /\ \A i \in 1 .. Len(instances') :
           instances'[i] = IF i <= Len(instances) THEN instances[i]
                                                  ELSE NewInstances[i - Len(instances)]
  <2> DEFINE both == instances \o NewInstances
  <2>1. /\ both \in Seq(Instances)
        /\ Len(both) = Len(instances) + Len(NewInstances)
        /\ \A i \in 1 .. Len(instances) + Len(NewInstances) :
             both[i] = IF i <= Len(instances) THEN instances[i]
                                              ELSE NewInstances[i - Len(instances)]
    BY <1>1, <1>7, ConcatProperties
  <2>2. instances' = both
    BY DEF SetupMods
  <2> HIDE DEF both
  <2> QED
    BY <1>7, <2>1, <2>2
<1>9. DOMAIN instances' = 1 .. Len(instances) + Len(Directory)
  BY <1>8, LenProperties
<1>10. \A n \in DOMAIN Directory : instances'[Len(instances) + n] = NewInstances[n]
  <2> TAKE n \in DOMAIN Directory
  <2>1. Len(instances) + n \in 1 .. Len(instances') /\ ~(Len(instances) + n <= Len(instances))
    BY <1>2, <1>3, <1>8
  <2>2. Len(instances) + n - Len(instances) = n
    BY <1>2, <1>3
  <2> QED
    BY <1>8, <2>1, <2>2
<1>11. Listed' = {Len(instances) + n : n \in DOMAIN Directory}
  BY <1>4 DEF Listed, Range
<1>12. \A i \in DOMAIN instances : instances'[i] = instances[i]
  BY <1>2, <1>3, <1>8
<1>13. DOMAIN instances' = DOMAIN instances \cup Listed'
  <2>1. \A i \in 1 .. Len(instances) + Len(Directory) :
          i <= Len(instances) \/ i = Len(instances) + (i - Len(instances))
    BY <1>2, <1>3
  <2>2. \A i \in 1 .. Len(instances) + Len(Directory) :
          i \in 1 .. Len(instances) \/ i - Len(instances) \in DOMAIN Directory
    BY <1>2, <1>3
  <2>3. \A i \in DOMAIN instances' : i \in DOMAIN instances \cup Listed'
    BY <1>2, <1>9, <1>11, <2>1, <2>2
  <2>4. \A n \in DOMAIN Directory : Len(instances) + n \in DOMAIN instances'
    BY <1>2, <1>3, <1>9
  <2>5. \A i \in DOMAIN instances : i \in DOMAIN instances'
    BY <1>2, <1>3, <1>9
  <2> QED
    BY <1>11, <2>3, <2>4, <2>5
<1>14. \A n \in DOMAIN Directory : n \in Nat \ {0} /\ mods'[n] = Len(instances) + n
  BY <1>3, <1>4
<1>15. DOMAIN mods' = DOMAIN Directory
  BY <1>4
<1> QED
  BY <1>2, <1>5, <1>8, <1>10, <1>11, <1>12, <1>13, <1>14, <1>15 DEF NewInstances

\* A stage after which the request goes on changes neither the queue nor the mutexes.
LEMMA StageControl ==
  ASSUME BatchOK, KeysOK, Busy, loop' \in Jobs,
         UNCHANGED queueing, UNCHANGED <<job, actionsLock, keys>>
  PROVE  BatchOK' /\ KeysOK'
<1>1. loop' # "batch" /\ loop' # "keyCall" /\ loop # "batch"
  BY DEF Jobs, Busy
<1>2. UNCHANGED <<queue, done, eventLock, job, actionsLock, keys>>
  BY DEF queueing
<1> QED
  BY <1>1, <1>2 DEF BatchOK, KeysOK, Busy

LEMMA CarryOutControl ==
  ASSUME LoopInv, CarryOut
  PROVE  Typed' /\ BatchOK' /\ KeysOK'
<1> USE DEF calling, lifecycle, work
<1>0. Typed /\ BatchOK /\ KeysOK /\ ListOK /\ StageOK /\ Listed \subseteq DOMAIN instances
  BY DEF LoopInv, LifeOK, ListOK
<1>a. /\ DOMAIN instances = 1 .. Len(instances) /\ Len(instances) \in Nat
      /\ DOMAIN instances \subseteq Nat
  BY <1>0, LenProperties DEF Typed
<1>b. \A s \in {"batch", "keyCall", "key"} \cup Jobs : s \in Places
  BY DEF Places
<1>1. CASE FindMod
  <2>0. loop \in Jobs /\ Busy
    BY <1>1 DEF FindMod, Jobs, Busy
  <2>1. CASE Matches(job) # {}
    <3>1. target' \in Nat
      BY <1>0, <1>1, <1>a, <2>1, FirstMatchIsListed DEF FindMod
    <3>2. loop' \in Jobs /\ UNCHANGED queueing
      BY <1>1, <2>1 DEF FindMod, Jobs
    <3>3. BatchOK' /\ KeysOK'
      BY <1>0, <1>1, <2>0, <3>2, StageControl DEF FindMod
    <3> QED
      BY <1>0, <1>1, <1>b, <3>1, <3>2, <3>3 DEF FindMod, Typed, queueing
  <2>2. CASE Matches(job) = {}
    <3>1. Finish /\ target' = target /\ UNCHANGED <<job, actionsLock, keys>>
      BY <1>1, <2>2 DEF FindMod
    <3>2. /\ loop' \in Places /\ done' \in Nat /\ served' \in Seq(ProperRequests)
          /\ UNCHANGED <<queue, eventLock>> /\ BatchOK' /\ KeysOK'
      BY <1>0, <1>b, <2>0, <3>1, FinishEffect
    <3> QED
      BY <1>0, <1>1, <3>1, <3>2 DEF FindMod, Typed
  <2> QED
    BY <2>1, <2>2
<1>2. CASE FindStartable
  <2>0. loop \in Jobs /\ Busy
    BY <1>2 DEF FindStartable, Jobs, Busy
  <2>1. CASE Matches(job) # {} /\ instances[FirstMatch(job)].state = "started"
    <3>1. Finish /\ mods' = mods /\ UNCHANGED <<job, actionsLock, keys>>
      BY <1>2, <2>1 DEF FindStartable
    <3>2. /\ loop' \in Places /\ done' \in Nat /\ served' \in Seq(ProperRequests)
          /\ UNCHANGED <<queue, eventLock>> /\ BatchOK' /\ KeysOK'
      BY <1>0, <1>b, <2>0, <3>1, FinishEffect
    <3> QED
      BY <1>0, <1>2, <3>1, <3>2 DEF FindStartable, Typed
  <2>2. CASE ~(Matches(job) # {} /\ instances[FirstMatch(job)].state = "started")
    <3>1. mods' \in Seq(Nat)
      BY <1>0, <1>2, <2>2, WithoutIsASequence DEF FindStartable, Typed
    <3>2. UNCHANGED <<job, actionsLock, keys>>
      BY <1>2 DEF FindStartable
    <3>3. CASE loop' = "create" /\ UNCHANGED queueing
      <4>1. loop' \in Jobs
        BY <3>3 DEF Jobs
      <4>2. BatchOK' /\ KeysOK'
        BY <1>0, <2>0, <3>2, <3>3, <4>1, StageControl
      <4> QED
        BY <1>0, <1>2, <1>b, <3>1, <3>3, <4>1, <4>2 DEF FindStartable, Typed, queueing
    <3>4. CASE Finish
      <4>1. /\ loop' \in Places /\ done' \in Nat /\ served' \in Seq(ProperRequests)
            /\ UNCHANGED <<queue, eventLock>> /\ BatchOK' /\ KeysOK'
        BY <1>0, <1>b, <2>0, <3>2, <3>4, FinishEffect
      <4> QED
        BY <1>0, <1>2, <3>1, <3>2, <4>1 DEF FindStartable, Typed
    <3> QED
      BY <1>2, <2>2, <3>3, <3>4 DEF FindStartable
  <2> QED
    BY <2>1, <2>2
<1>3. CASE Uninstall
  <2>1. target \in DOMAIN instances
    BY <1>0, <1>3 DEF Uninstall, StageOK
  <2>2. instances' \in Seq(Instances)
    BY <1>0, <1>3, <2>1, SetState DEF Uninstall, Close, InstanceStates
  <2>3. Busy /\ loop' \in Jobs
    BY <1>3 DEF Uninstall, Jobs, Busy
  <2>4. BatchOK' /\ KeysOK'
    BY <1>0, <1>3, <2>3, StageControl DEF Uninstall
  <2> QED
    BY <1>0, <1>3, <1>b, <2>2, <2>3, <2>4 DEF Uninstall, Typed, queueing
<1>4. CASE DeleteMod
  <2>0. loop \in Jobs /\ Busy
    BY <1>4 DEF DeleteMod, Jobs, Busy
  <2>1. mods' \in Seq(Nat)
    BY <1>0, <1>4, WithoutIsASequence DEF DeleteMod, Typed
  <2>2. CASE job.kind = "restart"
    <3>1. loop' \in Jobs /\ UNCHANGED queueing /\ UNCHANGED <<job, actionsLock, keys>>
      BY <1>4, <2>2 DEF DeleteMod, Jobs
    <3>2. BatchOK' /\ KeysOK'
      BY <1>0, <2>0, <3>1, StageControl
    <3> QED
      BY <1>0, <1>4, <1>b, <2>1, <3>1, <3>2 DEF DeleteMod, Typed, queueing
  <2>3. CASE job.kind # "restart"
    <3>1. Finish /\ UNCHANGED <<job, actionsLock, keys>>
      BY <1>4, <2>3 DEF DeleteMod
    <3>2. /\ loop' \in Places /\ done' \in Nat /\ served' \in Seq(ProperRequests)
          /\ UNCHANGED <<queue, eventLock>> /\ BatchOK' /\ KeysOK'
      BY <1>0, <1>b, <2>0, <3>1, FinishEffect
    <3> QED
      BY <1>0, <1>4, <2>1, <3>1, <3>2 DEF DeleteMod, Typed
  <2> QED
    BY <2>2, <2>3
<1>5. CASE CreateMod
  <2>1. /\ mods' \in Seq(Nat) /\ instances' \in Seq(Instances) /\ target' \in Nat
    BY <1>5, <1>a, CreateEffect DEF CreateMod
  <2>2. Busy /\ loop' \in Jobs
    BY <1>5 DEF CreateMod, Jobs, Busy
  <2>3. BatchOK' /\ KeysOK'
    BY <1>0, <1>5, <2>2, StageControl DEF CreateMod
  <2> QED
    BY <1>0, <1>5, <1>b, <2>1, <2>2, <2>3 DEF CreateMod, Typed, queueing
<1>6. CASE StartMod
  <2>1. target \in DOMAIN instances
    BY <1>0, <1>6 DEF StartMod, StageOK
  <2>2. instances' \in Seq(Instances)
    BY <1>0, <1>6, <2>1, SetState DEF StartMod, InstanceStates
  <2>3. Busy
    BY <1>6 DEF StartMod, Jobs, Busy
  <2>4. /\ loop' \in Places /\ done' \in Nat /\ served' \in Seq(ProperRequests)
        /\ UNCHANGED <<queue, eventLock>> /\ BatchOK' /\ KeysOK'
    BY <1>0, <1>6, <1>b, <2>3, FinishEffect DEF StartMod
  <2> QED
    BY <1>0, <1>6, <2>2, <2>4 DEF StartMod, Typed
<1>7. CASE BeginReinstall
  <2>1. Busy /\ loop' \in Jobs
    BY <1>7 DEF BeginReinstall, Jobs, Busy
  <2>2. BatchOK' /\ KeysOK'
    BY <1>0, <1>7, <2>1, StageControl DEF BeginReinstall
  <2> QED
    BY <1>0, <1>7, <1>b, <2>1, <2>2 DEF BeginReinstall, Typed, queueing
<1>8. CASE UninstallNext
  <2>1. Head(todo) \in DOMAIN instances
    <3>1. todo \in Seq(Nat) /\ todo # <<>> /\ Range(todo) \subseteq DOMAIN instances
      BY <1>0, <1>8 DEF UninstallNext, StageOK
    <3> QED
      BY <3>1, HeadTailProperties, RangeOfTail
  <2>2. instances' \in Seq(Instances)
    BY <1>0, <1>8, <2>1, SetState DEF UninstallNext, Close, InstanceStates
  <2>3. Busy /\ loop' \in Jobs
    BY <1>8 DEF UninstallNext, Jobs, Busy
  <2>4. BatchOK' /\ KeysOK'
    BY <1>0, <1>8, <2>3, StageControl DEF UninstallNext
  <2> QED
    BY <1>0, <1>8, <2>2, <2>4 DEF UninstallNext, Typed, queueing
<1>9. CASE SetupMods
  <2>1. mods' \in Seq(Nat) /\ instances' \in Seq(Instances)
    BY <1>9, SetupEffect
  <2>2. Busy /\ loop' \in Jobs
    BY <1>9 DEF SetupMods, Jobs, Busy
  <2>3. BatchOK' /\ KeysOK'
    BY <1>0, <1>9, <2>2, StageControl DEF SetupMods
  <2> QED
    BY <1>0, <1>9, <1>b, <2>1, <2>2, <2>3 DEF SetupMods, Typed, queueing
<1>10. CASE StartNext
  <2>1. instances' \in Seq(Instances)
    <3>1. CASE NotStarted(Head(todo))
      <4>1. FirstMatch(Named(Head(todo))) \in DOMAIN instances
        BY <1>0, <3>1, FirstMatchIsListed DEF NotStarted
      <4> QED
        BY <1>0, <1>10, <3>1, <4>1, SetState DEF StartNext, InstanceStates
    <3>2. CASE ~NotStarted(Head(todo))
      BY <1>0, <1>10, <3>2 DEF StartNext, Typed
    <3> QED
      BY <3>1, <3>2
  <2>2. Busy /\ loop' \in Jobs
    BY <1>10 DEF StartNext, Jobs, Busy
  <2>3. BatchOK' /\ KeysOK'
    BY <1>0, <1>10, <2>2, StageControl DEF StartNext
  <2> QED
    BY <1>0, <1>10, <2>1, <2>3 DEF StartNext, Typed, queueing
<1>11. CASE EndReinstall
  <2>1. Busy
    BY <1>11 DEF EndReinstall, Jobs, Busy
  <2>2. /\ loop' \in Places /\ done' \in Nat /\ served' \in Seq(ProperRequests)
        /\ UNCHANGED <<queue, eventLock>> /\ BatchOK' /\ KeysOK'
    BY <1>0, <1>11, <1>b, <2>1, FinishEffect DEF EndReinstall
  <2> QED
    BY <1>0, <1>11, <2>2 DEF EndReinstall, Typed
<1> QED
  BY <1>1, <1>2, <1>3, <1>4, <1>5, <1>6, <1>7, <1>8, <1>9, <1>10, <1>11 DEF CarryOut

\* The requests that a thread can make.
LEMMA MadeRequests ==
  ASSUME NEW r \in Requests, Makes(r)
  PROVE  r \in ProperRequests
BY DEF Makes, ProperRequests

\* Key binds and the other threads.
LEMMA OthersControl ==
  ASSUME LoopInv,
         \/ HotReloadKey
         \/ \E r \in Requests : AskInKeyBind(r)
         \/ \E t \in Threads :
              \/ EnterCallback(t)
              \/ \E r \in Requests : Ask(t, r)
              \/ CallerStep(t)
         \/ Shutdown
  PROVE  Typed' /\ BatchOK' /\ KeysOK'
<1> USE DEF calling, lifecycle, work, queueing
<1>0. Typed /\ BatchOK /\ KeysOK /\ Loop \notin Threads /\ Len(queue) \in Nat
  BY ThreadAssumption, LenProperties DEF LoopInv, Typed
<1>1. CASE HotReloadKey
  BY <1>0, <1>1, NamelessRequests DEF HotReloadKey, Typed, BatchOK, KeysOK, Busy, Jobs, Places
<1>2. CASE \E r \in Requests : AskInKeyBind(r)
  <2>1. PICK r \in Requests : AskInKeyBind(r)
    BY <1>2
  <2>2. r \in ProperRequests
    BY <2>1, MadeRequests DEF AskInKeyBind
  <2> QED
    BY <1>0, <2>1, <2>2 DEF AskInKeyBind, Typed, BatchOK, KeysOK, Busy, Jobs, Places
<1>3. ASSUME NEW t \in Threads, EnterCallback(t)
      PROVE  Typed' /\ BatchOK' /\ KeysOK'
  BY <1>0, <1>3 DEF EnterCallback, Typed, BatchOK, KeysOK, Busy
<1>4. ASSUME NEW t \in Threads, NEW r \in Requests, Ask(t, r)
      PROVE  Typed' /\ BatchOK' /\ KeysOK'
  <2>1. r \in ProperRequests
    BY <1>4, MadeRequests DEF Ask
  <2>2. caller' \in [Threads -> [pc : {"out", "in", "ask"}, req : ProperRequests]]
    BY <1>0, <1>4, <2>1 DEF Ask, Typed
  <2> QED
    BY <1>0, <1>4, <2>2 DEF Ask, Typed, BatchOK, KeysOK, Busy
<1>5. ASSUME NEW t \in Threads, Enqueue(t)
      PROVE  Typed' /\ BatchOK' /\ KeysOK'
  <2>1. caller[t].req \in ProperRequests
    BY <1>0, <1>5 DEF Typed
  <2>2. queue' \in Seq(ProperRequests) /\ Len(queue') = Len(queue) + 1
    BY <1>0, <1>5, <2>1, AppendProperties DEF Enqueue, Typed
  <2>3. caller' \in [Threads -> [pc : {"out", "in", "ask"}, req : ProperRequests]]
    BY <1>0, <1>5 DEF Enqueue, Home, Typed
  <2>4. Typed'
    BY <1>0, <1>5, <2>2, <2>3 DEF Enqueue, Typed
  <2>5. BatchOK' /\ KeysOK'
    BY <1>0, <1>5, <2>2 DEF Enqueue, BatchOK, KeysOK, Busy
  <2> QED
    BY <2>4, <2>5
<1>6. ASSUME NEW t \in Threads, LeaveCallback(t)
      PROVE  Typed' /\ BatchOK' /\ KeysOK'
  <2>1. t # Loop
    BY <1>0
  <2>2. actionsLock' = {Loop} => actionsLock = {Loop}
    BY <1>0, <1>6, <2>1 DEF LeaveCallback, KeysOK
  <2>3. loop = "keyCall" => actionsLock' = {Loop}
    BY <1>0, <1>6, <2>1 DEF LeaveCallback, KeysOK
  <2>4. KeysOK'
    BY <1>0, <1>6, <2>2, <2>3 DEF LeaveCallback, KeysOK, Busy
  <2> QED
    BY <1>0, <1>6, <2>4 DEF LeaveCallback, Typed, BatchOK, Busy
<1>7. CASE Shutdown
  BY <1>0, <1>7 DEF Shutdown, Typed, BatchOK, KeysOK, Busy
<1> QED
  BY <1>1, <1>2, <1>3, <1>4, <1>5, <1>6, <1>7 DEF CallerStep

-----------------------------------------------------------------------------
(* The list and the life of the mods in it.                                *)

\* The stages of a request that have found something.
Stages == {"uninstall", "delete", "create", "main", "uninstallAll", "startAll"}

LEMMA InitLife == Init => LifeOK
<1> SUFFICES ASSUME Init
             PROVE  LifeOK
  OBVIOUS
<1>1. /\ DOMAIN mods = DOMAIN Directory /\ DOMAIN instances = DOMAIN Directory
      /\ \A n \in DOMAIN Directory : mods[n] = n /\ instances[n].name = Directory[n]
      /\ \A n \in DOMAIN Directory : instances[n].state # "closed"
  BY DEF Init
<1>2. Listed = DOMAIN Directory
  BY <1>1 DEF Listed, Range
<1>3. NamesUnique
  BY <1>1, NameAssumption DEF NamesUnique
<1>4. loop = "top"
  BY DEF Init
<1>5. ListOK
  BY <1>1, <1>2, <1>3 DEF ListOK, StateOf
<1> QED
  BY <1>4, <1>5 DEF LifeOK, StageOK, StartOK

LEMMA OutsideStages ==
  ASSUME ListOK', loop' \notin Stages
  PROVE  LifeOK'
BY DEF LifeOK, StageOK, StartOK, Stages

\* A step that changes no mod, outside a stage or within one.
LEMMA QuietStep ==
  ASSUME ListOK, UNCHANGED lifecycle,
         loop \notin {"delete", "uninstallAll"}, loop' \notin Stages
  PROVE  LifeOK'
<1>1. ListOK'
  BY DEF ListOK, NamesUnique, lifecycle, Listed, StateOf, Stages
<1> QED
  BY <1>1, OutsideStages

LEMMA OtherStep ==
  ASSUME LifeOK, UNCHANGED lifecycle, UNCHANGED work, loop' = loop
  PROVE  LifeOK'
<1> USE DEF lifecycle, work, Listed, StateOf, NameOf
<1>1. ListOK'
  BY DEF LifeOK, ListOK, NamesUnique
<1>2. StageOK'
  BY DEF LifeOK, StageOK, Designates, NewName
<1>3. StartOK'
  BY DEF LifeOK, StartOK, Candidates, StartCandidates
<1> QED
  BY <1>1, <1>2, <1>3 DEF LifeOK

LEMMA FindModLife ==
  ASSUME LoopInv, FindMod
  PROVE  LifeOK'
<1>0. Typed /\ BatchOK /\ KeysOK /\ LifeOK /\ ListOK /\ StageOK
  BY DEF LoopInv, LifeOK
<1>1. /\ loop = "job" /\ job.kind \in {"restart", "uninstall"} /\ job' = job
      /\ UNCHANGED <<mods, instances>>
  BY DEF FindMod, lifecycle
<1>2. CASE Matches(job) # {}
  <2>1. loop' = "uninstall" /\ target' = FirstMatch(job)
    BY <1>2 DEF FindMod
  <2>2. target' \in Listed /\ Designates(job, target')
    BY <1>0, <1>2, <2>1, FirstMatchIsListed
  <2>3. ListOK'
    BY <1>0, <1>1, <2>1 DEF ListOK, NamesUnique, Listed, StateOf
  <2>4. StageOK'
    BY <1>1, <2>1, <2>2 DEF StageOK, Designates, Listed
  <2> QED
    BY <2>1, <2>3, <2>4 DEF LifeOK, StartOK
<1>3. CASE Matches(job) = {}
  <2>1. Finish /\ UNCHANGED <<job, actionsLock, keys>>
    BY <1>3 DEF FindMod
  <2>2. loop' \notin Stages
    BY <1>0, <1>1, <2>1, FinishEffect DEF Busy, Jobs, Stages
  <2> QED
    BY <1>0, <1>1, <2>2, QuietStep DEF lifecycle
<1> QED
  BY <1>2, <1>3

LEMMA FindStartableLife ==
  ASSUME LoopInv, FindStartable
  PROVE  LifeOK'
<1>0. Typed /\ BatchOK /\ KeysOK /\ LifeOK /\ ListOK /\ StageOK
  BY DEF LoopInv, LifeOK
<1>1. /\ loop = "job" /\ job.kind = "start" /\ job.id = 0 /\ job' = job
      /\ instances' = instances
  BY <1>0 DEF FindStartable, work, Typed, ProperRequests
<1>2. CASE Matches(job) # {} /\ instances[FirstMatch(job)].state = "started"
  <2>1. Finish /\ mods' = mods /\ UNCHANGED <<job, actionsLock, keys>>
    BY <1>2 DEF FindStartable, work
  <2>2. loop' \notin Stages
    BY <1>0, <1>1, <2>1, FinishEffect DEF Busy, Jobs, Stages
  <2> QED
    BY <1>0, <1>1, <2>1, <2>2, QuietStep DEF lifecycle
<1>3. CASE ~(Matches(job) # {} /\ instances[FirstMatch(job)].state = "started")
  <2>1. loop' = "create" \/ Finish
    BY <1>3 DEF FindStartable
  <2>2. /\ NamesUnique' /\ Listed' \subseteq Listed
        /\ \A i \in Listed \ Listed' : StateOf(i) # "started"
        /\ \A i \in Listed' : NameOf(i) # job.name
    <3>1. CASE Matches(job) = {}
      <4>1. mods' = mods
        BY <1>3, <3>1 DEF FindStartable
      <4>2. \A i \in Listed : NameOf(i) # job.name
        BY <1>1, <3>1, NoMatch DEF Designates, NameOf
      <4> QED
        BY <1>0, <1>1, <4>1, <4>2 DEF ListOK, NamesUnique, Listed
    <3>2. CASE Matches(job) # {}
      <4>1. mods' = Without(mods, {FirstMatch(job)})
        BY <1>3, <3>2 DEF FindStartable
      <4>2. Listed' = Listed \ {FirstMatch(job)} /\ NamesUnique'
        BY <1>0, <1>1, <4>1, RemoveFromList
      <4>3. FirstMatch(job) \in Listed /\ NameOf(FirstMatch(job)) = job.name
        BY <1>0, <1>1, <3>2, FirstMatchIsListed DEF Designates, NameOf
      <4>4. \A i \in Listed' : NameOf(i) # job.name
        BY <1>0, <4>2, <4>3, ListedNamesUnique DEF ListOK
      <4>5. StateOf(FirstMatch(job)) # "started"
        BY <1>3, <3>2 DEF StateOf
      <4> QED
        BY <4>2, <4>4, <4>5
    <3> QED
      BY <3>1, <3>2
  <2>3. loop' = "create" \/ loop' \notin Stages
    <3>1. CASE Finish
      <4>1. UNCHANGED <<job, actionsLock, keys>>
        BY DEF FindStartable, work
      <4> QED
        BY <1>0, <1>1, <3>1, <4>1, FinishEffect DEF Busy, Jobs, Stages
    <3> QED
      BY <2>1, <3>1
  <2>4. ListOK'
    BY <1>0, <1>1, <2>2, <2>3 DEF ListOK, StateOf, Stages
  <2>5. CASE loop' = "create"
    <3>1. StageOK'
      BY <1>1, <2>2, <2>5 DEF StageOK, NewName, NameOf
    <3> QED
      BY <2>4, <2>5, <3>1 DEF LifeOK, StartOK
  <2>6. CASE loop' \notin Stages
    BY <2>4, <2>6, OutsideStages
  <2> QED
    BY <2>3, <2>5, <2>6
<1> QED
  BY <1>2, <1>3

LEMMA UninstallLife ==
  ASSUME LoopInv, Uninstall
  PROVE  LifeOK'
<1>0. Typed /\ LifeOK /\ ListOK /\ StageOK
  BY DEF LoopInv, LifeOK
<1>1. /\ loop = "uninstall" /\ loop' = "delete"
      /\ mods' = mods /\ UNCHANGED <<job, target>>
      /\ instances' = [instances EXCEPT ![target].state = "closed"]
  BY DEF Uninstall, Close, work
<1>2. /\ target \in Listed /\ target \in DOMAIN instances /\ Designates(job, target)
      /\ job.kind \in {"restart", "uninstall"}
  BY <1>0, <1>1 DEF StageOK, ListOK
<1>3. /\ DOMAIN instances' = DOMAIN instances
      /\ \A j \in DOMAIN instances :
              /\ instances'[j].name = instances[j].name
              /\ instances'[j].state = IF j = target THEN "closed" ELSE instances[j].state
  BY <1>0, <1>1, <1>2, SetState DEF InstanceStates
<1>4. NamesUnique' /\ Listed' = Listed
  BY <1>0, <1>1, <1>3, SameNames DEF Listed
<1>5. ListOK'
  BY <1>0, <1>1, <1>3, <1>4 DEF ListOK, StateOf
<1>6. Designates(job, target)'
  BY <1>1, <1>2, <1>3 DEF Designates
<1>7. \A i \in Listed' : StateOf(i)' = "closed" <=> i = target
  BY <1>0, <1>1, <1>3, <1>4 DEF ListOK, StateOf
<1>8. StageOK'
  BY <1>1, <1>2, <1>4, <1>6, <1>7 DEF StageOK, StateOf
<1> QED
  BY <1>1, <1>5, <1>8 DEF LifeOK, StartOK

LEMMA DeleteModLife ==
  ASSUME LoopInv, DeleteMod
  PROVE  LifeOK'
<1>0. Typed /\ BatchOK /\ KeysOK /\ LifeOK /\ ListOK /\ StageOK
  BY DEF LoopInv, LifeOK
<1>1. /\ loop = "delete" /\ UNCHANGED <<job, target, todo, actionsLock, keys, instances>>
      /\ mods' = Without(mods, {target})
  BY DEF DeleteMod, work
<1>2. /\ target \in Listed /\ target \in DOMAIN instances
      /\ \A i \in Listed : StateOf(i) = "closed" <=> i = target
      /\ job.kind \in {"restart", "uninstall"}
  BY <1>0, <1>1 DEF StageOK, ListOK
<1>3. Listed' = Listed \ {target} /\ NamesUnique'
  BY <1>0, <1>1, RemoveFromList
<1>4. /\ \A i \in DOMAIN instances : StateOf(i) = "started" => i \in Listed'
      /\ \A i \in Listed' : StateOf(i) # "closed"
      /\ Listed' \subseteq DOMAIN instances
  BY <1>0, <1>1, <1>2, <1>3 DEF ListOK
<1>5. ListOK'
  BY <1>1, <1>3, <1>4 DEF ListOK, StateOf
<1>6. CASE job.kind = "restart"
  <2>1. loop' = "create"
    BY <1>6 DEF DeleteMod
  <2>2. \A i \in Listed' : NameOf(i) # NameOf(target)
    BY <1>0, <1>2, <1>3, ListedNamesUnique DEF ListOK
  <2>3. StageOK'
    BY <1>1, <1>2, <1>6, <2>1, <2>2 DEF StageOK, NewName, NameOf
  <2> QED
    BY <1>5, <2>1, <2>3 DEF LifeOK, StartOK
<1>7. CASE job.kind # "restart"
  <2>1. Finish
    BY <1>7 DEF DeleteMod
  <2>2. loop' \notin Stages
    BY <1>0, <1>1, <2>1, FinishEffect DEF Busy, Jobs, Stages
  <2> QED
    BY <1>5, <2>2, OutsideStages
<1> QED
  BY <1>6, <1>7

LEMMA CreateModLife ==
  ASSUME LoopInv, CreateMod
  PROVE  LifeOK'
<1> DEFINE new == Len(instances) + 1
<1>0. Typed /\ LifeOK /\ ListOK /\ StageOK
  BY DEF LoopInv, LifeOK
<1>1. loop = "create" /\ loop' = "main" /\ target' = new
  BY DEF CreateMod
<1>2. /\ new \notin DOMAIN instances
      /\ DOMAIN instances' = DOMAIN instances \cup {new}
      /\ \A i \in DOMAIN instances : instances'[i] = instances[i]
      /\ instances'[new].name = NewName /\ instances'[new].state = "created"
      /\ Listed' = Listed \cup {new}
      /\ DOMAIN mods' = DOMAIN mods \cup {Len(mods) + 1}
      /\ \A n \in DOMAIN mods : mods'[n] = mods[n]
      /\ mods'[Len(mods) + 1] = new
  BY CreateEffect
<1> HIDE DEF new
<1>3. /\ Listed \subseteq DOMAIN instances
      /\ \A i \in Listed : NameOf(i) # NewName
  BY <1>0, <1>1 DEF ListOK, StageOK
<1>4. \A n \in DOMAIN mods : mods[n] \in Listed
  BY DEF Listed, Range
<1>5. \A n \in DOMAIN mods :
        /\ instances'[mods'[n]].name = instances[mods[n]].name
        /\ instances'[mods'[n]].name # NewName
  BY <1>2, <1>3, <1>4 DEF NameOf
<1>6. NamesUnique'
  BY <1>0, <1>2, <1>5 DEF ListOK, NamesUnique
<1>7. ListOK'
  BY <1>0, <1>1, <1>2, <1>3, <1>6 DEF ListOK, StateOf
<1>8. StageOK'
  BY <1>1, <1>2 DEF StageOK, StateOf
<1> QED
  BY <1>1, <1>7, <1>8 DEF LifeOK, StartOK

LEMMA StartModLife ==
  ASSUME LoopInv, StartMod
  PROVE  LifeOK'
<1>0. Typed /\ BatchOK /\ KeysOK /\ LifeOK /\ ListOK /\ StageOK
  BY DEF LoopInv, LifeOK
<1>1. /\ loop = "main" /\ mods' = mods /\ Finish /\ UNCHANGED <<job, actionsLock, keys>>
      /\ instances' = [instances EXCEPT ![target].state = "started"]
  BY DEF StartMod, work
<1>2. target \in Listed /\ target \in DOMAIN instances
  BY <1>0, <1>1 DEF StageOK, ListOK
<1>3. /\ DOMAIN instances' = DOMAIN instances
      /\ \A j \in DOMAIN instances :
              /\ instances'[j].name = instances[j].name
              /\ instances'[j].state = IF j = target THEN "started" ELSE instances[j].state
  BY <1>0, <1>1, <1>2, SetState DEF InstanceStates
<1>4. NamesUnique' /\ Listed' = Listed
  BY <1>0, <1>1, <1>3, SameNames DEF Listed
<1>5. loop' \notin Stages
  BY <1>0, <1>1, FinishEffect DEF Busy, Jobs, Stages
<1>6. ListOK'
  BY <1>0, <1>1, <1>2, <1>3, <1>4 DEF ListOK, StateOf
<1> QED
  BY <1>5, <1>6, OutsideStages

LEMMA BeginReinstallLife ==
  ASSUME LoopInv, BeginReinstall
  PROVE  LifeOK'
<1>0. Typed /\ LifeOK /\ ListOK
  BY DEF LoopInv, LifeOK
<1>1. /\ loop = "job" /\ loop' = "uninstallAll" /\ job.kind = "reinstall" /\ job' = job
      /\ todo' = mods /\ UNCHANGED <<mods, instances>>
  BY DEF BeginReinstall, lifecycle
<1>2. ListOK'
  BY <1>0, <1>1 DEF ListOK, NamesUnique, Listed, StateOf
<1>3. StageOK'
  BY <1>0, <1>1 DEF StageOK, ListOK, Listed, StateOf, Typed
<1> QED
  BY <1>1, <1>2, <1>3 DEF LifeOK, StartOK

LEMMA UninstallNextLife ==
  ASSUME LoopInv, UninstallNext
  PROVE  LifeOK'
<1>0. Typed /\ LifeOK /\ ListOK /\ StageOK
  BY DEF LoopInv, LifeOK
<1>1. /\ loop = "uninstallAll" /\ todo # <<>> /\ todo' = Tail(todo)
      /\ UNCHANGED <<mods, loop, job>>
      /\ instances' = [instances EXCEPT ![Head(todo)].state = "closed"]
  BY DEF UninstallNext, Close
<1>2. /\ job.kind = "reinstall"
      /\ todo \in Seq(Nat) /\ Range(todo) \subseteq Listed
      /\ \A i \in DOMAIN instances : StateOf(i) = "started" => i \in Range(todo)
  BY <1>0, <1>1 DEF StageOK
<1>3. /\ Range(todo) = {Head(todo)} \cup Range(Tail(todo))
      /\ Tail(todo) \in Seq(Nat)
  BY <1>1, <1>2, RangeOfTail, HeadTailProperties
<1>4. Head(todo) \in DOMAIN instances
  BY <1>0, <1>2, <1>3 DEF ListOK
<1>5. /\ DOMAIN instances' = DOMAIN instances
      /\ \A j \in DOMAIN instances :
              /\ instances'[j].name = instances[j].name
              /\ instances'[j].state = IF j = Head(todo) THEN "closed" ELSE instances[j].state
  BY <1>0, <1>1, <1>4, SetState DEF InstanceStates
<1>6. NamesUnique' /\ Listed' = Listed
  BY <1>0, <1>1, <1>5, SameNames DEF Listed
<1>7. ListOK'
  BY <1>0, <1>1, <1>5, <1>6 DEF ListOK
<1>8. \A i \in DOMAIN instances' : StateOf(i)' = "started" => i \in Range(todo')
  BY <1>1, <1>2, <1>3, <1>5 DEF StateOf
<1>9. StageOK'
  BY <1>1, <1>2, <1>3, <1>6, <1>8 DEF StageOK
<1> QED
  BY <1>1, <1>7, <1>9 DEF LifeOK, StartOK

LEMMA SetupModsLife ==
  ASSUME LoopInv, SetupMods
  PROVE  LifeOK'
<1> DEFINE len == Len(instances)
<1>0. Typed /\ LifeOK /\ ListOK /\ StageOK
  BY DEF LoopInv, LifeOK
<1>1. /\ loop = "uninstallAll" /\ loop' = "startAll" /\ job' = job
      /\ todo = <<>> /\ todo' = StartCandidates
  BY DEF SetupMods
<1>2. /\ len \in Nat /\ DOMAIN instances = 1 .. len
      /\ DOMAIN mods' = DOMAIN Directory
      /\ \A n \in DOMAIN Directory : n \in Nat \ {0} /\ mods'[n] = len + n
      /\ Listed' = {len + n : n \in DOMAIN Directory}
      /\ DOMAIN instances' = DOMAIN instances \cup Listed'
      /\ \A i \in DOMAIN instances : instances'[i] = instances[i]
      /\ \A n \in DOMAIN Directory :
           instances'[len + n] = [name |-> Directory[n], state |-> "created"]
  BY SetupEffect
<1> HIDE DEF len
<1>3. /\ job.kind = "reinstall"
      /\ \A i \in DOMAIN instances : StateOf(i) # "started"
  BY <1>0, <1>1, RangeOfEmpty DEF StageOK
<1>4. \A n \in DOMAIN Directory :
        instances'[len + n].name = Directory[n] /\ instances'[len + n].state = "created"
  <2> TAKE n \in DOMAIN Directory
  <2>1. instances'[len + n] = [name |-> Directory[n], state |-> "created"]
    BY <1>2
  <2> QED
    BY <2>1
<1>5. NamesUnique'
  <2>1. \A n \in DOMAIN mods' : instances'[mods'[n]].name = Directory[n]
    BY <1>2, <1>4
  <2> QED
    BY <1>2, <2>1, NameAssumption DEF NamesUnique
<1>6. \A i \in Listed' : StateOf(i)' = "created"
  BY <1>2, <1>4 DEF StateOf
<1>7. \A i \in DOMAIN instances' : StateOf(i)' # "started"
  BY <1>2, <1>3, <1>6 DEF StateOf
<1>8. ListOK'
  BY <1>1, <1>2, <1>5, <1>6, <1>7 DEF ListOK
<1>9. {NameOf(i)' : i \in Listed'} = Range(Directory)
  BY <1>2, <1>4 DEF NameOf, Range
<1>10. /\ Candidates' = Candidates /\ StartCandidates \in Seq(Names)
       /\ Range(todo') = Candidates
  BY <1>1, CandidatesAreEnabled DEF Candidates, StartCandidates
<1>11. StartOK'
  BY <1>1, <1>3, <1>6, <1>9, <1>10 DEF StartOK
<1> QED
  BY <1>1, <1>8, <1>11 DEF LifeOK, StageOK

LEMMA StartNextLife ==
  ASSUME LoopInv, StartNext
  PROVE  LifeOK'
<1> DEFINE name == Head(todo)
           found == FirstMatch(Named(name))
<1>0. Typed /\ LifeOK /\ ListOK /\ StartOK /\ Candidates' = Candidates
  BY DEF LoopInv, LifeOK, Candidates, StartCandidates
<1>1. /\ loop = "startAll" /\ todo # <<>> /\ todo' = Tail(todo)
      /\ UNCHANGED <<mods, loop, job>>
      /\ instances' = IF NotStarted(name)
                      THEN [instances EXCEPT ![found].state = "started"]
                      ELSE instances
  BY DEF StartNext
<1>2. /\ job.kind = "reinstall"
      /\ todo \in Seq(Names) /\ Range(todo) \subseteq Candidates
      /\ {NameOf(i) : i \in Listed} = Range(Directory)
      /\ \A i \in Listed : StateOf(i) = "started" => NameOf(i) \in Candidates
      /\ \A i \in Listed : NameOf(i) \in Candidates =>
           StateOf(i) = "started" \/ NameOf(i) \in Range(todo)
  BY <1>0, <1>1 DEF StartOK
<1>3. /\ Range(todo) = {name} \cup Range(Tail(todo))
      /\ Tail(todo) \in Seq(Names)
  BY <1>1, <1>2, RangeOfTail, HeadTailProperties
<1>4. /\ Named(name).id = 0 /\ Named(name).name = name
      /\ \A i, j \in Listed : NameOf(i) = NameOf(j) => i = j
  BY <1>0, ListedNamesUnique DEF Named, ListOK
<1>5. Matches(Named(name)) # {} => found \in Listed /\ NameOf(found) = name
  BY <1>0, <1>4, FirstMatchIsListed DEF Designates, NameOf
<1>6. Matches(Named(name)) = {} => \A i \in Listed : NameOf(i) # name
  BY <1>4, NoMatch DEF Designates, NameOf
<1> HIDE DEF name, found
<1>7. /\ DOMAIN instances' = DOMAIN instances
      /\ \A j \in DOMAIN instances :
           /\ instances'[j].name = instances[j].name
           /\ instances'[j].state = IF NotStarted(name) /\ j = found THEN "started"
                                    ELSE instances[j].state
  <2>1. CASE NotStarted(name)
    <3>1. found \in DOMAIN instances
      BY <1>0, <1>5, <2>1 DEF NotStarted, ListOK
    <3> QED
      BY <1>0, <1>1, <2>1, <3>1, SetState DEF InstanceStates
  <2>2. CASE ~NotStarted(name)
    BY <1>1, <2>2
  <2> QED
    BY <2>1, <2>2
<1>8. NamesUnique' /\ Listed' = Listed
  BY <1>0, <1>1, <1>7, SameNames DEF Listed
<1>9. NotStarted(name) =>
        found \in Listed /\ NameOf(found) = name
  BY <1>5 DEF NotStarted
<1>10. Listed \subseteq DOMAIN instances
  BY <1>0 DEF ListOK
<1>11. ListOK'
  BY <1>0, <1>1, <1>7, <1>8, <1>9 DEF ListOK, StateOf
<1>12. \A i \in Listed : NameOf(i)' = NameOf(i)
  BY <1>7, <1>10 DEF NameOf
<1>13. \A i \in Listed : NameOf(i) = name => StateOf(i)' = "started"
  <2> TAKE i \in Listed
  <2> HAVE NameOf(i) = name
  <2>1. found = i
    BY <1>4, <1>5, <1>6
  <2>2. CASE NotStarted(name)
    BY <1>7, <1>10, <2>1, <2>2 DEF StateOf
  <2>3. CASE ~NotStarted(name)
    <3>1. StateOf(i) # "created"
      BY <1>6, <2>1, <2>3 DEF NotStarted, StateOf, found, name
    <3>2. StateOf(i) # "closed"
      BY <1>0, <1>1 DEF ListOK
    <3>3. StateOf(i) \in InstanceStates
      <4>1. instances[i] \in Instances
        BY <1>0, <1>10, LenProperties, ElementOfSeq DEF Typed
      <4> QED
        BY <4>1 DEF Instances, StateOf
    <3> QED
      BY <1>7, <1>10, <2>3, <3>1, <3>2, <3>3 DEF StateOf, InstanceStates
  <2> QED
    BY <2>2, <2>3
<1>14. {NameOf(i)' : i \in Listed'} = Range(Directory)
  BY <1>2, <1>8, <1>12
<1>15. \A i \in Listed' : StateOf(i)' = "started" => NameOf(i)' \in Candidates
  BY <1>2, <1>3, <1>7, <1>8, <1>9, <1>10, <1>12 DEF StateOf
<1>16. \A i \in Listed' : NameOf(i)' \in Candidates =>
         StateOf(i)' = "started" \/ NameOf(i)' \in Range(todo')
  BY <1>1, <1>2, <1>3, <1>7, <1>8, <1>10, <1>12, <1>13 DEF StateOf
<1>17. StartOK'
  BY <1>0, <1>1, <1>2, <1>3, <1>14, <1>15, <1>16 DEF StartOK
<1> QED
  BY <1>1, <1>11, <1>17 DEF LifeOK, StageOK

LEMMA EndReinstallLife ==
  ASSUME LoopInv, EndReinstall
  PROVE  LifeOK'
<1>0. Typed /\ BatchOK /\ KeysOK /\ ListOK
  BY DEF LoopInv, LifeOK
<1>1. /\ loop = "startAll" /\ Finish
      /\ UNCHANGED lifecycle /\ UNCHANGED <<job, actionsLock, keys>>
  BY DEF EndReinstall, work
<1>2. loop' \notin Stages
  BY <1>0, <1>1, FinishEffect DEF Busy, Jobs, Stages
<1> QED
  BY <1>0, <1>1, <1>2, QuietStep

-----------------------------------------------------------------------------
(* The invariant holds.                                                    *)

LEMMA NextKeeps == LoopInv /\ [Next]_vars => LoopInv'
<1> SUFFICES ASSUME LoopInv, [Next]_vars
             PROVE  LoopInv'
  OBVIOUS
<1> USE DEF queueing, calling, lifecycle, work
<1>0. Typed /\ BatchOK /\ KeysOK /\ LifeOK /\ ListOK
  BY DEF LoopInv, LifeOK
<1>1. CASE Iterate
  <2>1. Typed' /\ BatchOK' /\ KeysOK'
    BY <1>0, <1>1, IterateControl
  <2>2. /\ UNCHANGED lifecycle
        /\ loop \notin {"delete", "uninstallAll"} /\ loop' \notin Stages
    BY <1>1 DEF Iterate, LoopBegins, LoopLocks, NextEvent, BatchEnds, ReadKeys, KeysEnd,
                EnterKeyBind, LeaveKeyBind, Stages
  <2>3. LifeOK'
    BY <1>0, <2>2, QuietStep
  <2> QED
    BY <2>1, <2>3 DEF LoopInv
<1>2. CASE CarryOut
  <2>1. Typed' /\ BatchOK' /\ KeysOK'
    BY <1>2, CarryOutControl
  <2>2. LifeOK'
    BY <1>2, FindModLife, FindStartableLife, UninstallLife, DeleteModLife, CreateModLife,
       StartModLife, BeginReinstallLife, UninstallNextLife, SetupModsLife, StartNextLife,
       EndReinstallLife DEF CarryOut
  <2> QED
    BY <2>1, <2>2 DEF LoopInv
<1>3. CASE HotReloadKey \/ \E r \in Requests : AskInKeyBind(r)
  <2>1. Typed' /\ BatchOK' /\ KeysOK'
    BY <1>3, OthersControl
  <2>2. /\ UNCHANGED lifecycle
        /\ loop \notin {"delete", "uninstallAll"} /\ loop' \notin Stages
    BY <1>3 DEF HotReloadKey, AskInKeyBind, Stages
  <2>3. LifeOK'
    BY <1>0, <2>2, QuietStep
  <2> QED
    BY <2>1, <2>3 DEF LoopInv
<1>4. ASSUME NEW t \in Threads,
             EnterCallback(t) \/ (\E r \in Requests : Ask(t, r)) \/ CallerStep(t)
      PROVE  LoopInv'
  <2>1. Typed' /\ BatchOK' /\ KeysOK'
    BY <1>4, OthersControl
  <2>2. UNCHANGED lifecycle /\ UNCHANGED work /\ loop' = loop
    BY <1>4 DEF EnterCallback, Ask, CallerStep, Enqueue, LeaveCallback
  <2>3. LifeOK'
    BY <1>0, <2>2, OtherStep
  <2> QED
    BY <2>1, <2>3 DEF LoopInv
<1>5. CASE Shutdown
  <2>1. Typed' /\ BatchOK' /\ KeysOK'
    BY <1>5, OthersControl
  <2>2. UNCHANGED lifecycle /\ UNCHANGED work /\ loop' = loop
    BY <1>5 DEF Shutdown
  <2>3. LifeOK'
    BY <1>0, <2>2, OtherStep
  <2> QED
    BY <2>1, <2>3 DEF LoopInv
<1>6. CASE UNCHANGED vars
  <2>1. LifeOK'
    BY <1>0, <1>6, OtherStep DEF vars
  <2>2. Typed' /\ BatchOK' /\ KeysOK'
    BY <1>0, <1>6 DEF vars, Typed, BatchOK, KeysOK, Busy
  <2> QED
    BY <2>1, <2>2 DEF LoopInv
<1> QED
  BY <1>1, <1>2, <1>3, <1>4, <1>5, <1>6 DEF Next

\* The invariant of the event loop: where it is, which mutexes it holds, what the stage of a
\* request has found, and how m_mods and the instances belong together.
THEOREM LoopInvariant == Spec => []LoopInv
<1>1. Init => LoopInv
  BY InitControl, InitLife DEF LoopInv
<1>2. LoopInv /\ [Next]_vars => LoopInv'
  BY NextKeeps
<1> QED
  BY <1>1, <1>2, PTL DEF Spec

\* Every variable of the event loop keeps its type.
THEOREM LoopTypeCorrect == Spec => []TypeOK
<1>1. LoopInv => TypeOK
  <2> SUFFICES ASSUME LoopInv
               PROVE  TypeOK
    OBVIOUS
  <2>0. Typed
    BY DEF LoopInv
  <2>1. ProperRequests \subseteq Requests
    BY DEF ProperRequests
  <2>2. queue \in Seq(Requests) /\ served \in Seq(Requests)
    BY <2>0, <2>1, SeqMonotonic DEF Typed
  <2>3. caller \in [Threads -> [pc : {"out", "in", "ask"}, req : Requests]]
    BY <2>0, <2>1 DEF Typed
  <2> QED
    BY <2>0, <2>1, <2>2, <2>3 DEF Typed, TypeOK, Places
<1> QED
  BY <1>1, LoopInvariant, PTL

\* m_mods never holds two mods of one name, whatever mix of requests is carried out, so that
\* the look-ups by name are unambiguous.
THEOREM OneModPerName == Spec => []NamesUnique
<1>1. LoopInv => NamesUnique
  BY DEF LoopInv, LifeOK, ListOK
<1> QED
  BY <1>1, LoopInvariant, PTL

\* A mod that runs can be found in m_mods at every moment, and between requests no mod in it
\* is closed.
THEOREM RunningModsAreListed == Spec => []ListedMatchesRunning
<1>1. LoopInv => ListedMatchesRunning
  <2> SUFFICES ASSUME LoopInv
               PROVE  ListedMatchesRunning
    OBVIOUS
  <2>0. ListOK /\ StageOK
    BY DEF LoopInv, LifeOK
  <2>1. \A i \in DOMAIN instances : StateOf(i) = "started" => i \in Listed
    BY <2>0 DEF ListOK, StageOK
  <2>2. loop \notin Jobs => \A i \in Listed : StateOf(i) # "closed"
    BY <2>0 DEF ListOK, Jobs
  <2> QED
    BY <2>1, <2>2 DEF ListedMatchesRunning, StateOf, Listed
<1> QED
  BY <1>1, LoopInvariant, PTL

\* The mod that a step closes is the one that the request being carried out designates, or
\* the request is to reinstall all of them.
LEMMA ClosedIsDesignated ==
  ASSUME LoopInv, [Next]_vars, NEW i \in DOMAIN instances,
         instances[i].state # "closed", instances'[i].state = "closed"
  PROVE  job.kind = "reinstall" \/ Designates(job, i)
<1>0. Typed /\ ListOK /\ StageOK
  BY DEF LoopInv, LifeOK
<1>1. instances' # instances
  OBVIOUS
<1>2. ~Iterate /\ ~HotReloadKey /\ ~Shutdown /\ ~UNCHANGED vars
      /\ ~(\E r \in Requests : AskInKeyBind(r))
  BY <1>1 DEF Iterate, LoopBegins, LoopLocks, NextEvent, BatchEnds, ReadKeys, KeysEnd,
              EnterKeyBind, LeaveKeyBind, HotReloadKey, Shutdown, vars, AskInKeyBind, lifecycle
<1>3. ASSUME NEW t \in Threads
      PROVE  ~EnterCallback(t) /\ ~(\E r \in Requests : Ask(t, r)) /\ ~CallerStep(t)
  BY <1>1 DEF EnterCallback, Ask, CallerStep, Enqueue, LeaveCallback, lifecycle
<1>4. ~FindMod /\ ~FindStartable /\ ~DeleteMod /\ ~BeginReinstall /\ ~EndReinstall
  BY <1>1 DEF FindMod, FindStartable, DeleteMod, BeginReinstall, EndReinstall, lifecycle
<1>5. CASE Uninstall
  <2>1. target \in DOMAIN instances /\ Designates(job, target)
    BY <1>0, <1>5 DEF Uninstall, StageOK, ListOK
  <2>2. i = target
    BY <1>0, <1>5, <2>1, SetState DEF Uninstall, Close, InstanceStates
  <2> QED
    BY <2>1, <2>2
<1>6. ~CreateMod
  BY CreateEffect
<1>7. ~SetupMods
  BY SetupEffect
<1>8. ~StartMod
  <2> SUFFICES ASSUME StartMod PROVE FALSE
    OBVIOUS
  <2>1. target \in DOMAIN instances
    BY <1>0 DEF StartMod, StageOK, ListOK
  <2> QED
    BY <1>0, <2>1, SetState DEF StartMod, InstanceStates
<1>9. ~StartNext
  <2> SUFFICES ASSUME StartNext PROVE FALSE
    OBVIOUS
  <2> DEFINE found == FirstMatch(Named(Head(todo)))
  <2>1. instances' = [instances EXCEPT ![found].state = "started"] /\ NotStarted(Head(todo))
    BY <1>1 DEF StartNext
  <2>2. found \in DOMAIN instances
    BY <1>0, <2>1, FirstMatchIsListed DEF NotStarted, ListOK
  <2> QED
    BY <1>0, <2>1, <2>2, SetState DEF InstanceStates
<1>10. CASE UninstallNext
  BY <1>0, <1>10 DEF UninstallNext, StageOK
<1> QED
  BY <1>2, <1>3, <1>4, <1>5, <1>6, <1>7, <1>8, <1>9, <1>10 DEF Next, CarryOut

\* A request by id, served late, closes the mod that made it or none; a request by name closes
\* a mod of that name.
THEOREM IdsAreNotReused == Spec => IdHitsItsMod
<1>1. LoopInv /\ [Next]_vars =>
        [\A i \in DOMAIN instances :
           (instances[i].state # "closed" /\ instances'[i].state = "closed") =>
             job.kind = "reinstall"
             \/ IF job.id # 0 THEN i = job.id ELSE instances[i].name = job.name]_vars
  BY ClosedIsDesignated DEF Designates
<1> QED
  BY <1>1, LoopInvariant, PTL DEF Spec, IdHitsItsMod

\* When a reinstall has started the last of its candidates, one mod of each name runs that is
\* enabled and has a directory, and no other.
LEMMA ReinstallStarted ==
  ASSUME LoopInv, loop = "startAll", todo = <<>>, NEW name \in Names
  PROVE  Cardinality({i \in DOMAIN instances :
                        instances[i].name = name /\ instances[i].state = "started"})
           = IF name \in Enabled \cap Range(Directory) THEN 1 ELSE 0
<1> DEFINE Running == {i \in DOMAIN instances :
                         instances[i].name = name /\ instances[i].state = "started"}
<1>0. ListOK /\ StartOK
  BY DEF LoopInv, LifeOK
<1>1. /\ Range(todo) = {} /\ Candidates = Enabled
      /\ {NameOf(i) : i \in Listed} = Range(Directory)
      /\ \A i \in Listed : StateOf(i) = "started" => NameOf(i) \in Candidates
      /\ \A i \in Listed : NameOf(i) \in Candidates =>
           StateOf(i) = "started" \/ NameOf(i) \in Range(todo)
  BY <1>0, RangeOfEmpty, CandidatesAreEnabled DEF StartOK
<1>2. /\ Listed \subseteq DOMAIN instances
      /\ \A i \in DOMAIN instances : StateOf(i) = "started" => i \in Listed
      /\ \A i, j \in Listed : NameOf(i) = NameOf(j) => i = j
  BY <1>0, ListedNamesUnique DEF ListOK
<1>3. Running = {i \in Listed : NameOf(i) = name /\ StateOf(i) = "started"}
  BY <1>2 DEF NameOf, StateOf
<1>4. CASE name \in Enabled \cap Range(Directory)
  <2>1. PICK i \in Listed : NameOf(i) = name
    BY <1>1, <1>4
  <2>2. StateOf(i) = "started"
    BY <1>1, <1>4, <2>1
  <2>3. Running = {i}
    BY <1>2, <1>3, <2>1, <2>2
  <2> QED
    BY <1>4, <2>3, FS_Singleton
<1>5. CASE name \notin Enabled \cap Range(Directory)
  <2>1. Running = {}
    BY <1>1, <1>3, <1>5
  <2> QED
    BY <1>5, <2>1, FS_EmptySet
<1> QED
  BY <1>4, <1>5

\* After a reinstall exactly the enabled mods run, each once, whatever ran before it.
THEOREM ReinstallRunsTheEnabled == Spec => ReinstallStartsEnabled
<1>1. LoopInv /\ [Next]_vars =>
        [(loop = "startAll" /\ loop' # "startAll") =>
           \A name \in Names :
             Cardinality({i \in DOMAIN instances :
                            instances[i].name = name /\ instances[i].state = "started"})
               = IF name \in Enabled \cap Range(Directory) THEN 1 ELSE 0]_vars
  <2> SUFFICES ASSUME LoopInv, [Next]_vars, loop = "startAll", loop' # "startAll"
               PROVE  todo = <<>>
    BY ReinstallStarted
  <2>1. ~Iterate /\ ~HotReloadKey /\ ~Shutdown /\ ~UNCHANGED vars
        /\ ~(\E r \in Requests : AskInKeyBind(r))
    BY DEF Iterate, LoopBegins, LoopLocks, NextEvent, BatchEnds, ReadKeys, KeysEnd,
           EnterKeyBind, LeaveKeyBind, HotReloadKey, Shutdown, vars, AskInKeyBind
  <2>2. ASSUME NEW t \in Threads
        PROVE  ~EnterCallback(t) /\ ~(\E r \in Requests : Ask(t, r)) /\ ~CallerStep(t)
    BY DEF EnterCallback, Ask, CallerStep, Enqueue, LeaveCallback
  <2>3. CarryOut
    BY <2>1, <2>2 DEF Next
  <2> QED
    BY <2>3 DEF CarryOut, FindMod, FindStartable, Uninstall, DeleteMod, CreateMod, StartMod,
                BeginReinstall, UninstallNext, SetupMods, StartNext, EndReinstall
<1> QED
  BY <1>1, LoopInvariant, PTL DEF Spec, ReinstallStartsEnabled

-----------------------------------------------------------------------------
(* The queue that is promised.                                             *)

\* What has not been executed is what waits: a step of the loop or of a caller adds one request
\* at its end, serves the one at its head, or leaves it alone.
LEMMA NothingExecuted ==
  ASSUME NEW q \in Seq(ProperRequests)
  PROVE  SubSeq(q, 0 + 1, Len(q)) = q
<1>1. 0 + 1 = 1
  OBVIOUS
<1> QED
  BY <1>1, SubSeqFull

LEMMA NotExecutedIsASequence ==
  ASSUME Typed, BatchOK
  PROVE  NotExecuted \in Seq(ProperRequests)
<1>1. Len(queue) \in Nat /\ done \in Nat /\ queue \in Seq(ProperRequests)
  BY LenProperties DEF Typed
<1>2. \A i \in done + 1 .. Len(queue) : queue[i] \in ProperRequests
  BY <1>1, ElementOfSeq
<1> QED
  BY <1>1, <1>2, SubSeqProperties DEF NotExecuted

LEMMA FinishServes ==
  ASSUME Typed, BatchOK, KeysOK, Busy, Finish, UNCHANGED processing,
         UNCHANGED <<job, actionsLock, keys>>
  PROVE  [Promise!Next]_(Promise!vars)
<1>1. CASE eventLock = {Loop}
  <2>1. /\ done' = done + 1 /\ served' = Append(served, job) /\ queue' = queue
    BY <1>1 DEF Finish
  <2>2. /\ Len(queue) \in Nat /\ done \in Nat /\ done < Len(queue)
        /\ queue \in Seq(ProperRequests) /\ job = queue[done + 1]
    BY <1>1, LenProperties DEF Typed, BatchOK, Busy, Jobs
  <2>3. /\ Head(NotExecuted) = job
        /\ Tail(NotExecuted) = NotExecuted'
    BY <2>1, <2>2, HeadTailOfSubSeq DEF NotExecuted
  <2>4. NotExecuted # <<>>
    <3>1. \A i \in done + 1 .. Len(queue) : queue[i] \in ProperRequests
      BY <2>2, ElementOfSeq
    <3>2. Len(NotExecuted) = Len(queue) - (done + 1) + 1
      BY <2>2, <3>1, SubSeqProperties DEF NotExecuted
    <3> QED
      BY <2>2, <3>2, EmptySeq
  <2>5. Promise!Serve
    BY <2>1, <2>3, <2>4 DEF Promise!Serve
  <2> QED
    BY <2>5 DEF Promise!Next
<1>2. CASE eventLock # {Loop}
  BY <1>2 DEF Finish, queueing, Promise!vars, NotExecuted
<1> QED
  BY <1>1, <1>2

LEMMA QueueStep ==
  ASSUME LoopInv, [Next]_vars
  PROVE  [Promise!Next]_(Promise!vars)
<1> USE DEF queueing
<1>0. Typed /\ BatchOK /\ KeysOK /\ queue \in Seq(ProperRequests)
  BY DEF LoopInv, Typed
<1>1. ASSUME UNCHANGED <<queue, done, served, processing>>
      PROVE  UNCHANGED Promise!vars
  BY <1>1 DEF Promise!vars, NotExecuted
<1>2. CASE Iterate
  <2>1. CASE BatchEnds
    <3>1. queue' = NotExecuted /\ done' = 0 /\ UNCHANGED <<served, processing>>
      BY <2>1 DEF BatchEnds
    <3>2. NotExecuted' = SubSeq(NotExecuted, 0 + 1, Len(NotExecuted))
      BY <3>1 DEF NotExecuted
    <3>3. NotExecuted' = NotExecuted
      BY <1>0, <3>2, NotExecutedIsASequence, NothingExecuted
    <3> QED
      BY <3>1, <3>3 DEF Promise!vars
  <2>2. CASE ~BatchEnds
    BY <1>1, <1>2, <2>2 DEF Iterate, LoopBegins, LoopLocks, NextEvent, ReadKeys, KeysEnd,
                            EnterKeyBind, LeaveKeyBind
  <2> QED
    BY <2>1, <2>2
<1>3. CASE CarryOut
  <2>1. /\ Busy
        /\ Finish \/ UNCHANGED queueing
        /\ UNCHANGED processing
        /\ UNCHANGED <<job, actionsLock, keys>>
    BY <1>3 DEF CarryOut, FindMod, FindStartable, Uninstall, DeleteMod, CreateMod, StartMod,
                BeginReinstall, UninstallNext, SetupMods, StartNext, EndReinstall, work,
                Busy, Jobs
  <2> QED
    BY <1>0, <1>1, <2>1, FinishServes
<1>4. CASE HotReloadKey \/ \E r \in Requests : AskInKeyBind(r)
  BY <1>1, <1>4 DEF HotReloadKey, AskInKeyBind
<1>5. ASSUME NEW t \in Threads,
             EnterCallback(t) \/ (\E r \in Requests : Ask(t, r)) \/ LeaveCallback(t)
      PROVE  UNCHANGED Promise!vars
  BY <1>1, <1>5 DEF EnterCallback, Ask, LeaveCallback
<1>6. ASSUME NEW t \in Threads, Enqueue(t)
      PROVE  Promise!Next
  <2> DEFINE r == caller[t].req
  <2>1. r \in ProperRequests
    BY <1>0 DEF Typed
  <2>2. done = 0 /\ done' = 0 /\ queue' = Append(queue, r) /\ UNCHANGED <<served, processing>>
    BY <1>0, <1>6 DEF Enqueue, BatchOK
  <2>3. NotExecuted = SubSeq(queue, 0 + 1, Len(queue))
    BY <2>2 DEF NotExecuted
  <2>4. NotExecuted = queue
    BY <1>0, <2>3, NothingExecuted
  <2>5. NotExecuted' = SubSeq(queue', 0 + 1, Len(queue'))
    BY <2>2 DEF NotExecuted
  <2>6. queue' \in Seq(ProperRequests)
    BY <1>0, <2>1, <2>2, AppendProperties
  <2>7. NotExecuted' = queue'
    BY <2>5, <2>6, NothingExecuted
  <2>8. r \in Requests
    BY <2>1 DEF ProperRequests
  <2> HIDE DEF r
  <2>9. Promise!Queue(r)
    BY <2>2, <2>4, <2>7 DEF Promise!Queue
  <2> QED
    BY <2>8, <2>9 DEF Promise!Next
<1>7. CASE Shutdown
  <2>1. processing /\ processing' = FALSE /\ UNCHANGED <<queue, done, served>>
    BY <1>7 DEF Shutdown
  <2>2. Promise!Close
    BY <2>1 DEF Promise!Close, NotExecuted
  <2> QED
    BY <2>2 DEF Promise!Next
<1>8. CASE UNCHANGED vars
  BY <1>1, <1>8 DEF vars
<1> QED
  BY <1>2, <1>3, <1>4, <1>5, <1>6, <1>7, <1>8 DEF Next, CallerStep

\* The event loop keeps what EventQueue promises: requests are served once each, in the order
\* in which they were queued, whatever the batches' limit and the order of the mutexes.
THEOREM QueueKeepsItsPromise == Spec => KeepsPromise
<1>1. Init => Promise!Init
  <2> SUFFICES ASSUME Init
               PROVE  Promise!Init
    OBVIOUS
  <2>1. queue = <<>> /\ done = 0 /\ served = <<>> /\ processing = TRUE
    BY DEF Init
  <2>2. NotExecuted = <<>>
    BY <2>1, EmptySeq, SubSeqEmpty DEF NotExecuted
  <2> QED
    BY <2>1, <2>2 DEF Promise!Init
<1>2. LoopInv /\ [Next]_vars => [Promise!Next]_(Promise!vars)
  BY QueueStep
<1> QED
  BY <1>1, <1>2, LoopInvariant, PTL DEF Spec, KeepsPromise, Promise!Spec
=============================================================================
