--------------------------- MODULE HotReload_proofs ---------------------------
(***************************************************************************)
(* What an uninstall takes away stays away, for every set of mods and      *)
(* threads, every method and every bound.                                  *)
(***************************************************************************)
EXTENDS HotReload, GameThreadActions_proofs

-----------------------------------------------------------------------------
(* What a step does to the listed actions.                                 *)

\* Whatever a step lists it listed before, with the same owner, or it has just
\* been registered by a mod whose state is open.
ListedKept ==
  \A a \in Listed' : \/ a \in Listed /\ act'[a].owner = act[a].owner
                     \/ act'[a].owner \notin closed

LEMMA ActionsKeptIsEnough ==
  ASSUME TypeInv, ActionsKept
  PROVE  ListedKept
BY ListedAreActions DEF ActionsKept, SameAction, ListedKept

\* Only a mod whose state is open registers.
LEMMA NewListedIsEnough ==
  ASSUME TypeInv, Fresh, NEW m \in Mods \ closed, NewListed(m)
  PROVE  ListedKept
<1>1. PICK a \in Attributes : Insert(a) /\ a.owner = m
  BY DEF NewListed
<1>2. /\ nextAction \in Actions
      /\ act' = [act EXCEPT ![nextAction] = a]
      /\ Listed' = Listed \cup {nextAction}
  BY <1>1, InsertLists
<1>3. act'[nextAction].owner \notin closed /\ \A b \in Actions \ {nextAction} : act'[b] = act[b]
  BY <1>1, <1>2 DEF TypeInv, RegistryOK
<1> QED
  BY <1>2, <1>3, ListedAreActions DEF ListedKept

LEMMA SchedulerKeepsListed ==
  ASSUME TypeInv, Fresh, SchedulerStep
  PROVE  ListedKept
<1>1. ASSUME NEW t \in Threads, NEW m \in Mods \ closed, Registration(t, m)
      PROVE  ListedKept
  BY <1>1, RegistrationLists, ActionsKeptIsEnough, NewListedIsEnough
<1>2. ASSUME NEW t \in Threads, NEW m \in Mods \ closed, Controlling(t, m)
      PROVE  ListedKept
  BY <1>2, ControllingLists, ActionsKeptIsEnough
<1>3. CASE EngineTickHook \/ \E t \in Threads : ProcessEventHook(t)
  BY <1>3, RegistryUnchanged, ActionsKeptIsEnough DEF EngineTickHook, ProcessEventHook, Begin
<1> QED
  BY <1>1, <1>2, <1>3, PassStepLists, TickLists, ActionsKeptIsEnough DEF SchedulerStep

-----------------------------------------------------------------------------
(* The invariant.                                                          *)

\* No action of a mod that is open is lost, and none is twice.
OpenAreHeld ==
  /\ PlacesOK
  /\ \A s \in 1 .. nextSimple - 1 : simpleOwner[s] \notin closed => s \in Members(HeldIn)

HotInv == TypeInv /\ Fresh /\ UninstalledIsErased /\ OpenAreHeld

LEMMA SchedulerIsNext ==
  ASSUME SchedulerStep
  PROVE  [Next]_vars /\ UNCHANGED closed
BY DEF SchedulerStep, Next

LEMMA UninstallKeepsTypes ==
  ASSUME TypeInv, Fresh, NEW m \in Mods, Uninstall(m)
  PROVE  /\ TypeInv' /\ Fresh'
         /\ Listed' = Listed \ ActionsOf(m)
         /\ act' = act
<1>1. /\ act' = act /\ nextAction' = nextAction
      /\ queue' = Without(queue, ActionsOf(m))
      /\ pendingQueue' = Without(pendingQueue, ActionsOf(m))
      /\ UNCHANGED <<simpleOwner, nextSimple, processing, executing, hooked, nextHandle, making,
                     stack, freed, fired, ran>>
  BY DEF Uninstall, history
<1>2. /\ queue \in Seq(Actions) /\ pendingQueue \in Seq(Actions)
      /\ Len(queue) \in Nat /\ Len(pendingQueue) \in Nat
  BY LenProperties DEF TypeInv, RegistryOK
<1>3. /\ queue' \in Seq(Actions) /\ pendingQueue' \in Seq(Actions)
      /\ Len(queue') <= Len(queue) /\ Len(pendingQueue') <= Len(pendingQueue)
      /\ Range(queue') = Range(queue) \ ActionsOf(m)
      /\ Range(pendingQueue') = Range(pendingQueue) \ ActionsOf(m)
  BY <1>1, <1>2, WithoutIsASequence
<1>4. Len(queue') \in Nat /\ Len(pendingQueue') \in Nat
  BY <1>3, LenProperties
<1>5. RegistryOK'
  BY <1>1, <1>2, <1>3, <1>4 DEF TypeInv, RegistryOK
<1>6. SimplesOK'
  <2>1. \A e \in Methods : /\ Without(simple[e], SimpleOf(m)) \in Seq(SimpleActions)
                           /\ Without(pendingSimple[e], SimpleOf(m)) \in Seq(SimpleActions)
    BY WithoutIsASequence DEF TypeInv, SimplesOK
  <2>2. /\ simple' = [e \in Methods |-> Without(simple[e], SimpleOf(m))]
        /\ pendingSimple' = [e \in Methods |-> Without(pendingSimple[e], SimpleOf(m))]
    BY DEF Uninstall
  <2> QED
    BY <1>1, <2>1, <2>2 DEF TypeInv, SimplesOK
<1>7. TypeInv'
  BY <1>1, <1>5, <1>6 DEF TypeInv, FlagsOK, HandlesOK, StackOK, HistoryOK
<1>8. Fresh'
  BY <1>1, <1>3 DEF Fresh
<1> QED
  BY <1>1, <1>3, <1>7, <1>8 DEF Listed

\* A step of the scheduler holds all it held, and what an open mod registers.
LEMMA SchedulerKeepsHeld ==
  ASSUME TypeInv, TypeInv', OpenAreHeld, SchedulerStep
  PROVE  OpenAreHeld'
<1>1. closed' = closed /\ PlacesOK
  BY DEF SchedulerStep, OpenAreHeld
<1>2. ASSUME NoneMoved
      PROVE  OpenAreHeld'
  BY <1>1, <1>2 DEF NoneMoved, OpenAreHeld
<1>3. ASSUME NEW m \in Mods, OneMore(m)
      PROVE  OpenAreHeld'
  <2>1. /\ nextSimple \in Nat \ {0} /\ nextSimple' \in 1 .. MaxSimple + 1
        /\ simpleOwner \in [SimpleActions -> Mods]
        /\ nextSimple' = nextSimple + 1
        /\ simpleOwner' = [simpleOwner EXCEPT ![nextSimple] = m]
    BY <1>3, BoundAssumption DEF OneMore, TypeInv, SimplesOK
  <2>2. \A s \in 1 .. nextSimple' - 1 : s \in 1 .. nextSimple - 1 \/ s = nextSimple
    BY <2>1
  <2>3. \A s \in 1 .. nextSimple - 1 : simpleOwner'[s] = simpleOwner[s]
    BY <2>1, BoundAssumption DEF SimpleActions
  <2> QED
    BY <1>1, <1>3, <2>2, <2>3 DEF OneMore, OpenAreHeld
<1>4. ASSUME NEW t \in Threads, PassStep(t)
      PROVE  OpenAreHeld'
  BY <1>1, <1>2, <1>4, PassStepMovesNone
<1>5. ASSUME NEW t \in Threads, NEW m \in Mods, Registration(t, m) \/ Controlling(t, m)
      PROVE  OpenAreHeld'
  BY <1>1, <1>2, <1>3, <1>5, RegistrationPlacesOne, ControllingMovesNone
<1>6. CASE EngineTickHook \/ Tick \/ \E t \in Threads : ProcessEventHook(t)
  BY <1>1, <1>2, <1>6, TheRestMovesNone
<1> QED
  BY <1>4, <1>5, <1>6 DEF SchedulerStep

\* An uninstall takes the actions of its own mod only.
LEMMA UninstallKeepsHeld ==
  ASSUME TypeInv, TypeInv', OpenAreHeld, NEW m \in Mods, Uninstall(m)
  PROVE  OpenAreHeld'
<1> DEFINE D == SimpleOf(m)
<1>1. /\ simple' = [e \in Methods |-> Without(simple[e], D)]
      /\ pendingSimple' = [e \in Methods |-> Without(pendingSimple[e], D)]
      /\ closed' = closed \cup {m}
      /\ UNCHANGED <<stack, ran, simpleOwner, nextSimple>>
  BY DEF Uninstall, history
<1>2. nextSimple - 1 \in Nat /\ \A s \in 1 .. nextSimple - 1 : s \in SimpleActions
  BY BoundAssumption DEF TypeInv, SimplesOK, SimpleActions
<1>3. \A s \in SimpleActions : simpleOwner[s] # m => s \notin D
  BY DEF SimpleOf
<1> HIDE DEF D
<1>4. /\ HeldIn \in [Places -> Seq(SimpleActions)] /\ HeldIn' \in [Places -> Seq(SimpleActions)]
      /\ Apart(HeldIn) /\ PassesHoldNone
      /\ \A s \in Members(HeldIn) : s < nextSimple
  BY HeldInIsTyped, HeldInIsTypedNext DEF HeldInTyped, OpenAreHeld, PlacesOK
<1>5. ASSUME NEW k \in Places
      PROVE  HeldIn'[k] = HeldIn[k] \/ HeldIn'[k] = Without(HeldIn[k], D)
  <2>1. CASE \E e \in Methods : k = <<"queue", e, 0>> \/ k = <<"pending", e, 0>>
    BY <1>1, <2>1, HeldInPlaces, HeldInPlacesNext
  <2>2. CASE \E t \in Threads, d \in 1 .. MaxDepth : k = <<"todo", t, d>> \/ k = <<"deferred", t, d>>
    <3>1. \A t \in Threads, d \in 1 .. MaxDepth :
            TodoAt(t, d)' = TodoAt(t, d) /\ DeferredAt(t, d)' = DeferredAt(t, d)
      BY <1>1 DEF TodoAt, DeferredAt, PassAt
    <3> QED
      BY <2>2, <3>1, HeldInPlaces, HeldInPlacesNext
  <2>3. CASE k = <<"ran", GameThread, 0>>
    BY <1>1, <2>3, HeldInPlaces, HeldInPlacesNext
  <2> QED
    BY <2>1, <2>2, <2>3, PlacesAreThese
<1>6. Apart(HeldIn') /\ Members(HeldIn') \subseteq Members(HeldIn)
      /\ Members(HeldIn) \ D \subseteq Members(HeldIn')
  <2>1. DOMAIN HeldIn = Places /\ DOMAIN HeldIn' = Places
    BY <1>4
  <2>2. ASSUME NEW k \in Places
        PROVE  /\ IsInjective(HeldIn'[k])
               /\ Range(HeldIn'[k]) \subseteq Range(HeldIn[k])
               /\ Range(HeldIn[k]) \ D \subseteq Range(HeldIn'[k])
    <3>1. PICK q \in Seq(SimpleActions) : q = HeldIn[k]
      BY <1>4
    <3>2. IsInjective(q)
      BY <1>4, <2>1, <3>1 DEF Apart
    <3>3. IsInjective(Without(q, D)) /\ Range(Without(q, D)) = Range(q) \ D
      BY <3>2, WithoutIsInjective, WithoutIsASequence
    <3> QED
      BY <1>5, <3>1, <3>2, <3>3
  <2> QED
    BY <1>4, <2>1, <2>2, SomeErased
<1>7. PassesHoldNone'
  BY <1>1, <1>4 DEF PassesHoldNone
<1>8. PlacesOK'
  BY <1>1, <1>4, <1>6, <1>7 DEF PlacesOK
<1>9. \A s \in 1 .. nextSimple - 1 : simpleOwner[s] \notin closed' => s \in Members(HeldIn')
  BY <1>1, <1>2, <1>3, <1>6 DEF OpenAreHeld
<1> QED
  BY <1>1, <1>8, <1>9 DEF OpenAreHeld

LEMMA HotInvInductive ==
  /\ HotInit => HotInv
  /\ HotInv /\ [HotNext]_hotVars => HotInv'
<1>1. HotInit => HotInv
  <2>1. HotInit => TypeInv /\ Fresh
    BY TypeInvInductive, FreshInductive DEF HotInit
  <2>2. HotInit => UninstalledIsErased
    BY DEF HotInit, UninstalledIsErased
  <2>3. HotInit => OpenAreHeld
    <3> SUFFICES ASSUME HotInit
                 PROVE  OpenAreHeld
      OBVIOUS
    <3>1. PlacesOK /\ nextSimple = 1
      BY PlacesOKInitially DEF HotInit
    <3> QED
      BY <3>1 DEF OpenAreHeld
  <2> QED
    BY <2>1, <2>2, <2>3 DEF HotInv
<1>2. ASSUME HotInv, [HotNext]_hotVars
      PROVE  HotInv'
  <2>1. CASE SchedulerStep
    <3>1. TypeInv' /\ Fresh' /\ closed' = closed
      BY <1>2, <2>1, SchedulerIsNext, TypeInvInductive, FreshInductive DEF HotInv
    <3>2. ListedKept
      BY <1>2, <2>1, SchedulerKeepsListed DEF HotInv
    <3>3. UninstalledIsErased'
      BY <1>2, <3>1, <3>2 DEF HotInv, UninstalledIsErased, ListedKept, Listed
    <3>4. OpenAreHeld'
      BY <1>2, <2>1, <3>1, SchedulerKeepsHeld DEF HotInv
    <3> QED
      BY <3>1, <3>3, <3>4 DEF HotInv
  <2>2. ASSUME NEW m \in Mods, Uninstall(m)
        PROVE  HotInv'
    <3>1. /\ TypeInv' /\ Fresh'
          /\ Listed' = Listed \ ActionsOf(m)
          /\ act' = act
      BY <1>2, <2>2, UninstallKeepsTypes DEF HotInv
    <3>2. closed' = closed \cup {m}
      BY <2>2 DEF Uninstall
    <3>3. \A a \in Listed : a \in Actions /\ act[a].owner \notin closed
      BY <1>2, ListedAreActions DEF HotInv, UninstalledIsErased, Listed
    <3>4. \A a \in Listed' : act'[a].owner \notin closed'
      BY <3>1, <3>2, <3>3 DEF ActionsOf
    <3>5. OpenAreHeld'
      BY <1>2, <2>2, <3>1, UninstallKeepsHeld DEF HotInv
    <3> QED
      BY <3>1, <3>4, <3>5 DEF HotInv, UninstalledIsErased, Listed
  <2>3. CASE UNCHANGED hotVars
    <3>1. UNCHANGED vars /\ closed' = closed
      BY <2>3 DEF hotVars
    <3>2. TypeInv' /\ Fresh'
      BY <1>2, <3>1, TypeInvInductive, FreshInductive DEF HotInv
    <3>3. NoneMoved
      BY <1>2, <3>1, <3>2, TheRestMovesNone DEF HotInv, OpenAreHeld
    <3>4. OpenAreHeld'
      BY <1>2, <3>1, <3>3 DEF HotInv, OpenAreHeld, NoneMoved
    <3> QED
      BY <1>2, <3>1, <3>2, <3>4 DEF HotInv, UninstalledIsErased, vars
  <2> QED
    BY <1>2, <2>1, <2>2, <2>3 DEF HotNext
<1> QED
  BY <1>1, <1>2

THEOREM HotInvariant == HotSpec => []HotInv
<1> QED
  BY HotInvInductive, PTL DEF HotSpec

\* No delayed action of an uninstalled mod is listed again, whatever the passes
\* under way on other threads collected, settle or merge.
THEOREM UninstalledStaysErased == HotSpec => []UninstalledIsErased
<1>1. HotInv => UninstalledIsErased
  BY DEF HotInv
<1> QED
  BY <1>1, HotInvariant, PTL

\* An uninstall takes only its own mod's simple actions away, whenever it comes: every
\* other registered one is still in one place, and in one only.
THEOREM OthersKeepTheirs == HotSpec => []OthersKeepTheirActions
<1>1. HotInv => OthersKeepTheirActions
  <2> SUFFICES ASSUME HotInv, NEW s \in 1 .. nextSimple - 1
               PROVE  IF simpleOwner[s] \in closed THEN Cardinality(SimplePlaces(s)) <= 1
                                                   ELSE Cardinality(SimplePlaces(s)) = 1
    BY DEF OthersKeepTheirActions
  <2>1. Cardinality(SimplePlaces(s)) <= 1
    BY OnePlaceEach DEF HotInv, OpenAreHeld
  <2>2. simpleOwner[s] \notin closed => Cardinality(SimplePlaces(s)) = 1
    BY OnePlaceEach DEF HotInv, OpenAreHeld
  <2> QED
    BY <2>1, <2>2
<1> QED
  BY <1>1, HotInvariant, PTL
=============================================================================
