--------------------- MODULE GameThreadActions_proofs ---------------------
(***************************************************************************)
(* What holds of GameThreadActions for every set of mods and threads and   *)
(* every bound.                                                            *)
(***************************************************************************)
EXTENDS GameThreadActions, Vectors_proofs, TLAPS

-----------------------------------------------------------------------------
(* Types.                                                                  *)

\* Frames that a running hook can have.
ProperFrames ==
  {f \in Frames : /\ f.pc \in {"enterSimple", "callSimple"} => f.todo # <<>>
                  /\ f.pc \in {"enterDelayed", "callDelayed"} => f.unrun # {}
                  /\ f.unrun \subseteq f.ready
                  /\ f.pc \notin {"delayed", "enterDelayed", "callDelayed", "thrown"} =>
                       f.ready = {}}

\* The two vectors hold no more actions than were registered: the indices of
\* stage 1 stay within the bound.
RegistryOK ==
  /\ queue \in Seq(Actions)
  /\ pendingQueue \in Seq(Actions)
  /\ act \in [Actions -> Attributes]
  /\ nextAction \in 1 .. MaxDelayed + 1
  /\ Len(queue) + Len(pendingQueue) < nextAction

SimplesOK ==
  /\ simple \in [Methods -> Seq(SimpleActions)]
  /\ pendingSimple \in [Methods -> Seq(SimpleActions)]
  /\ simpleOwner \in [SimpleActions -> Mods]
  /\ nextSimple \in 1 .. MaxSimple + 1

FlagsOK ==
  /\ processing \in BOOLEAN
  /\ executing \in BOOLEAN
  /\ hooked \subseteq Methods

HandlesOK ==
  /\ nextHandle \in 1 .. MaxHandle + 1
  /\ making \in [Threads -> 0 .. MaxHandle]

StackOK ==
  /\ stack \in [Threads -> Seq(ProperFrames)]
  /\ \A t \in Threads : Len(stack[t]) <= MaxDepth

HistoryOK ==
  /\ freed \subseteq Actions
  /\ fired \subseteq Actions
  /\ ran \in Seq(SimpleActions)

\* TypeOK, made inductive.
TypeInv ==
  RegistryOK /\ SimplesOK /\ FlagsOK /\ HandlesOK /\ StackOK /\ HistoryOK

LEMMA TypeInvImpliesTypeOK == TypeInv => TypeOK
<1> SUFFICES ASSUME TypeInv
             PROVE  TypeOK
  OBVIOUS
<1>1. \A t \in Threads : stack[t] \in Seq(Frames)
  <2>1. ProperFrames \subseteq Frames
    BY DEF ProperFrames
  <2> QED
    BY <2>1, SeqMonotonic DEF TypeInv, StackOK
<1>2. stack \in [Threads -> Seq(Frames)]
  BY <1>1 DEF TypeInv, StackOK
<1> QED
  BY <1>2 DEF TypeInv, TypeOK, RegistryOK, SimplesOK, FlagsOK, HandlesOK, HistoryOK

\* The entry that stage 2 is at is one of those it has left.
LEMMA CurrentIsUnrun ==
  ASSUME NEW f \in Frames, f.unrun # {}
  PROVE  /\ Current(f) \in f.unrun
         /\ \A o \in f.unrun : Current(f).index <= o.index
<1>1. f.unrun \subseteq Entries
  BY DEF Frames
<1> DEFINE K == {e.index : e \in f.unrun}
<1>2. K \in SUBSET (1 .. MaxDelayed) /\ K # {}
  BY <1>1 DEF Entries, Actions
<1>3. PICK i \in K : \A j \in K : i <= j
  BY <1>2, LeastExists, BoundAssumption
<1>4. PICK e \in f.unrun : e.index = i
  OBVIOUS
<1>5. \A o \in f.unrun : e.index <= o.index
  BY <1>3, <1>4
<1> QED
  BY <1>5 DEF Current

\* The innermost pass of a thread, and what replacing it leaves alone.
LEMMA TopIsProper ==
  ASSUME StackOK, NEW t \in Threads, stack[t] # <<>>
  PROVE  /\ Top(t) \in ProperFrames
         /\ Len(stack[t]) \in Nat \ {0}
<1>1. stack[t] \in Seq(ProperFrames)
  BY DEF StackOK
<1>2. Len(stack[t]) \in Nat \ {0}
  BY <1>1, EmptySeq
<1> QED
  BY <1>1, <1>2, ElementOfSeq DEF Top

LEMMA SetTopIsProper ==
  ASSUME StackOK, NEW t \in Threads, stack[t] # <<>>,
         NEW f \in ProperFrames, SetTop(t, f)
  PROVE  /\ StackOK'
         /\ \A u \in Threads : Len(stack'[u]) = Len(stack[u])
         /\ \A u \in Threads : \A i \in 1 .. Len(stack[u]) :
              stack'[u][i] = IF u = t /\ i = 1 THEN f ELSE stack[u][i]
<1>1. \A u \in Threads : stack[u] \in Seq(ProperFrames) /\ Len(stack[u]) \in Nat
  BY LenProperties DEF StackOK
<1>2. 1 \in 1 .. Len(stack[t])
  BY TopIsProper
<1>3. /\ stack'[t] = [stack[t] EXCEPT ![1] = f]
      /\ \A u \in Threads \ {t} : stack'[u] = stack[u]
      /\ stack' = [u \in Threads |-> stack'[u]]
  BY DEF SetTop, StackOK
<1>4. /\ stack'[t] \in Seq(ProperFrames)
      /\ Len(stack'[t]) = Len(stack[t])
      /\ \A i \in 1 .. Len(stack[t]) : stack'[t][i] = IF i = 1 THEN f ELSE stack[t][i]
  BY <1>1, <1>2, <1>3, ExceptSeq
<1>5. \A u \in Threads : stack'[u] \in Seq(ProperFrames) /\ Len(stack'[u]) = Len(stack[u])
  BY <1>1, <1>3, <1>4
<1> QED
  BY <1>3, <1>4, <1>5 DEF StackOK

LEMMA InsertKeepsTypes ==
  ASSUME RegistryOK, NEW a \in Attributes, Insert(a)
  PROVE  RegistryOK'
<1>1. nextAction \in Actions /\ nextAction' \in 1 .. MaxDelayed + 1
  BY BoundAssumption DEF Insert, Actions
<1>2. act' \in [Actions -> Attributes]
  BY <1>1 DEF RegistryOK, Insert
<1>3. /\ Append(queue, nextAction) \in Seq(Actions)
      /\ Len(Append(queue, nextAction)) = Len(queue) + 1
      /\ Append(pendingQueue, nextAction) \in Seq(Actions)
      /\ Len(Append(pendingQueue, nextAction)) = Len(pendingQueue) + 1
  BY <1>1, AppendProperties DEF RegistryOK
<1>4. Len(queue) \in Nat /\ Len(pendingQueue) \in Nat
  BY LenProperties DEF RegistryOK
<1>5. nextAction' = nextAction + 1 /\ nextAction \in Nat
  BY <1>1 DEF Insert, RegistryOK, Actions
<1>6. CASE processing
  <2>1. pendingQueue' = Append(pendingQueue, nextAction) /\ queue' = queue
    BY <1>6 DEF Insert
  <2> QED
    BY <1>1, <1>2, <1>3, <1>4, <1>5, <2>1 DEF RegistryOK
<1>7. CASE ~processing
  <2>1. queue' = Append(queue, nextAction) /\ pendingQueue' = pendingQueue
    BY <1>7 DEF Insert
  <2> QED
    BY <1>1, <1>2, <1>3, <1>4, <1>5, <2>1 DEF RegistryOK
<1> QED
  BY <1>6, <1>7

\* A call that registers keeps the types.
LEMMA RegistrationKeepsTypes ==
  ASSUME TypeInv, NEW t \in Threads, NEW m \in Mods, Registration(t, m)
  PROVE  TypeInv'
<1> USE DEF TypeInv
<1>1. CASE \E method \in Methods : ExecuteInGameThread(t, m, method)
  <2>1. PICK method \in Methods : ExecuteInGameThread(t, m, method)
    BY <1>1
  <2>2. SimplesOK'
    <3>1. nextSimple \in SimpleActions /\ nextSimple' \in 1 .. MaxSimple + 1
      BY <2>1, BoundAssumption DEF ExecuteInGameThread, SimpleActions
    <3>2. /\ Append(simple[method], nextSimple) \in Seq(SimpleActions)
          /\ Append(pendingSimple[method], nextSimple) \in Seq(SimpleActions)
      BY <3>1, AppendProperties DEF SimplesOK
    <3> QED
      BY <2>1, <3>1, <3>2 DEF ExecuteInGameThread, SimplesOK
  <2>3. FlagsOK'
    BY <2>1 DEF ExecuteInGameThread, FlagsOK
  <2> QED
    BY <2>1, <2>2, <2>3
       DEF ExecuteInGameThread, registry, history, RegistryOK, HandlesOK, StackOK, HistoryOK
<1>2. CASE \E method \in Methods, frames, looping \in BOOLEAN, d \in Delays :
             RegisterDelayed(t, m, method, frames, d, looping)
  <2>1. PICK method \in Methods, frames \in BOOLEAN, looping \in BOOLEAN, d \in Delays :
          RegisterDelayed(t, m, method, frames, d, looping)
    BY <1>2
  <2>2. nextHandle \in Handles /\ nextHandle' \in 1 .. MaxHandle + 1 /\ d \in Nat
    BY <2>1, BoundAssumption DEF RegisterDelayed, Handles
  <2>3. RegistryOK'
    <3>1. NewAction(m, nextHandle, method, frames /\ d > 0, d, looping) \in Attributes
      <4>1. (frames /\ d > 0) \in BOOLEAN
        OBVIOUS
      <4> QED
        BY <2>2, <4>1 DEF NewAction, Attributes, Statuses, Handles
    <3> QED
      BY <2>1, <3>1, InsertKeepsTypes DEF RegisterDelayed
  <2>4. FlagsOK'
    BY <2>1, MethodAssumption DEF RegisterDelayed, FlagsOK
  <2> QED
    BY <2>1, <2>2, <2>3, <2>4
       DEF RegisterDelayed, simples, history, SimplesOK, HandlesOK, StackOK, HistoryOK
<1>3. CASE \E h \in Handles, method \in Methods, d \in Delays :
             ExecuteWithHandle(t, m, h, method, d)
  <2>1. PICK h \in Handles, method \in Methods, d \in Delays :
          ExecuteWithHandle(t, m, h, method, d)
    BY <1>3
  <2>2. NewAction(m, h, method, FALSE, d, FALSE) \in Attributes
    BY BoundAssumption DEF NewAction, Attributes, Statuses, Handles
  <2>3. RegistryOK'
    BY <2>1, <2>2, InsertKeepsTypes DEF ExecuteWithHandle
  <2>4. FlagsOK'
    BY <2>1, MethodAssumption DEF ExecuteWithHandle, FlagsOK
  <2> QED
    BY <2>1, <2>3, <2>4
       DEF ExecuteWithHandle, simples, history, SimplesOK, HandlesOK, StackOK, HistoryOK
<1>4. CASE \E h \in Handles, method \in Methods, d \in Delays :
             Retrigger(t, m, h, method, d)
  <2>1. PICK h \in Handles, method \in Methods, d \in Delays :
          Retrigger(t, m, h, method, d)
    BY <1>4
  <2>2. d \in Nat
    BY BoundAssumption
  <2>3. RegistryOK' /\ HistoryOK'
    <3>1. CASE LiveWith(h) = {}
      <4>1. NewAction(m, h, method, FALSE, d, FALSE) \in Attributes
        BY BoundAssumption DEF NewAction, Attributes, Statuses, Handles
      <4> QED
        BY <2>1, <3>1, <4>1, InsertKeepsTypes DEF Retrigger, HistoryOK
    <3>2. CASE LiveWith(h) # {}
      <4> DEFINE a == Selected(LiveWith(h))
      <4>1. /\ act' = [act EXCEPT ![a].status = "Active",
                                  ![a].delay = IF act[a].frames THEN @ ELSE d,
                                  ![a].left = IF act[a].frames THEN @ ELSE d]
            /\ fired' = fired \ {a}
            /\ UNCHANGED <<queue, pendingQueue, nextAction, freed, ran>>
        BY <2>1, <3>2 DEF Retrigger
      <4> HIDE DEF a
      <4>2. ASSUME a \in Actions
            PROVE  [act[a] EXCEPT !.status = "Active",
                                  !.delay = IF act[a].frames THEN @ ELSE d,
                                  !.left = IF act[a].frames THEN @ ELSE d] \in Attributes
        BY <2>2, <4>2 DEF RegistryOK, Attributes, Statuses
      <4>3. act' \in [Actions -> Attributes]
        BY <4>1, <4>2 DEF RegistryOK
      <4> QED
        BY <4>1, <4>3 DEF RegistryOK, HistoryOK
    <3> QED
      BY <3>1, <3>2
  <2>4. FlagsOK'
    BY <2>1, MethodAssumption DEF Retrigger, FlagsOK
  <2> QED
    BY <2>1, <2>3, <2>4 DEF Retrigger, simples, SimplesOK, HandlesOK, StackOK
<1> QED
  BY <1>1, <1>2, <1>3, <1>4 DEF Registration

\* So does a call that controls a delayed action.
LEMMA ControllingKeepsTypes ==
  ASSUME TypeInv, NEW t \in Threads, NEW m \in Mods, Controlling(t, m)
  PROVE  TypeInv'
<1> USE DEF TypeInv
<1>1. ASSUME NEW h \in Handles, NEW S, Control(t, m, h, S),
             act' \in [Actions -> Attributes], fired' \subseteq fired
      PROVE  TypeInv'
  BY <1>1 DEF Control, simples, RegistryOK, SimplesOK, FlagsOK, HandlesOK, StackOK, HistoryOK
<1>2. CASE \E h \in Handles : ResetDelayedActionTimer(t, m, h)
  <2>1. PICK h \in Handles : ResetDelayedActionTimer(t, m, h)
    BY <1>2
  <2> DEFINE a == Selected(Owned(m, h, NotCancelled))
  <2>2. /\ act' = [act EXCEPT ![a].left = act[a].delay, ![a].status = "Active"]
        /\ fired' \subseteq fired
    BY <2>1 DEF ResetDelayedActionTimer
  <2> HIDE DEF a
  <2>3. act' \in [Actions -> Attributes]
    BY <2>2 DEF RegistryOK, Attributes, Statuses
  <2> QED
    BY <1>1, <2>1, <2>2, <2>3 DEF ResetDelayedActionTimer
<1>3. CASE \E h \in Handles : \E d \in Delays : SetDelayedActionTimer(t, m, h, d)
  <2>1. PICK h \in Handles, d \in Delays : SetDelayedActionTimer(t, m, h, d)
    BY <1>3
  <2> DEFINE a == Selected(Owned(m, h, NotCancelled))
  <2>2. /\ act' = [act EXCEPT ![a].frames = @ /\ SecondArgument(d) > 0,
                              ![a].delay = SecondArgument(d),
                              ![a].left = SecondArgument(d),
                              ![a].status = "Active"]
        /\ fired' \subseteq fired
    BY <2>1 DEF SetDelayedActionTimer
  <2> HIDE DEF a
  <2>3. act' \in [Actions -> Attributes]
    <3>1. ASSUME a \in Actions
          PROVE  [act[a] EXCEPT !.frames = @ /\ SecondArgument(d) > 0,
                                !.delay = SecondArgument(d),
                                !.left = SecondArgument(d),
                                !.status = "Active"] \in Attributes
      BY <3>1 DEF RegistryOK, Attributes, Statuses, SecondArgument
    <3> QED
      BY <2>2, <3>1 DEF RegistryOK
  <2> QED
    BY <1>1, <2>1, <2>2, <2>3 DEF SetDelayedActionTimer
<1>4. CASE \E h \in Handles : PauseDelayedAction(t, m, h)
  <2>1. PICK h \in Handles : PauseDelayedAction(t, m, h)
    BY <1>4
  <2>2. PICK a : \/ act' = [act EXCEPT ![a].status = "Paused"]
                 \/ act' = [act EXCEPT ![a].pauseAfter = TRUE]
    BY <2>1 DEF PauseDelayedAction
  <2>3. act' \in [Actions -> Attributes]
    <3>1. ASSUME a \in Actions
          PROVE  /\ [act[a] EXCEPT !.status = "Paused"] \in Attributes
                 /\ [act[a] EXCEPT !.pauseAfter = TRUE] \in Attributes
      BY <3>1 DEF RegistryOK, Attributes, Statuses
    <3> QED
      BY <2>2, <3>1 DEF RegistryOK
  <2> QED
    BY <1>1, <2>1, <2>3 DEF PauseDelayedAction
<1>5. CASE \E h \in Handles : UnpauseDelayedAction(t, m, h)
  <2>1. PICK h \in Handles : UnpauseDelayedAction(t, m, h)
    BY <1>5
  <2>2. PICK a : act' = [act EXCEPT ![a].status = "Active"]
    BY <2>1 DEF UnpauseDelayedAction
  <2>3. act' \in [Actions -> Attributes]
    BY <2>2 DEF RegistryOK, Attributes, Statuses
  <2> QED
    BY <1>1, <2>1, <2>3 DEF UnpauseDelayedAction
<1>6. CASE \E h \in Handles : CancelDelayedAction(t, m, h)
  <2>1. PICK h \in Handles : CancelDelayedAction(t, m, h)
    BY <1>6
  <2>2. PICK a : act' = [act EXCEPT ![a].status = "PendingRemoval"]
    BY <2>1 DEF CancelDelayedAction
  <2>3. act' \in [Actions -> Attributes]
    BY <2>2 DEF RegistryOK, Attributes, Statuses
  <2> QED
    BY <1>1, <2>1, <2>3 DEF CancelDelayedAction
<1>7. CASE ClearAllDelayedActions(t, m)
  <2>1. act' \in [Actions -> Attributes]
    BY <1>7 DEF ClearAllDelayedActions, RegistryOK, Attributes, Statuses
  <2> QED
    BY <1>7, <2>1 DEF ClearAllDelayedActions, simples, history, RegistryOK, SimplesOK,
                      FlagsOK, HandlesOK, StackOK, HistoryOK
<1> QED
  BY <1>2, <1>3, <1>4, <1>5, <1>6, <1>7 DEF Controlling

\* So does the beginning of a pass.
LEMMA BeginKeepsTypes ==
  ASSUME TypeInv, NEW t \in Threads, NEW e \in Methods, Begin(t, e)
  PROVE  TypeInv'
<1> DEFINE f == [exec |-> e, pc |-> "drain", todo |-> <<>>, deferred |-> <<>>,
                 ready |-> {}, unrun |-> {}]
<1>1. f \in ProperFrames
  <2>1. <<>> \in Seq(SimpleActions)
    BY EmptySeq
  <2> QED
    BY <2>1 DEF ProperFrames, Frames, Stages
<1>2. stack' = [stack EXCEPT ![t] = <<f>> \o @]
  BY DEF Begin
<1> HIDE DEF f
<1>3. <<f>> \in Seq(ProperFrames) /\ Len(<<f>>) = 1
  BY <1>1
<1>4. stack[t] \in Seq(ProperFrames)
  BY DEF TypeInv, StackOK
<1>5. /\ <<f>> \o stack[t] \in Seq(ProperFrames)
      /\ Len(<<f>> \o stack[t]) = 1 + Len(stack[t])
  BY <1>3, <1>4, ConcatProperties
<1>6. Len(stack[t]) < MaxDepth /\ Len(stack[t]) \in Nat
  BY <1>4, LenProperties DEF Begin
<1>7. StackOK'
  BY <1>2, <1>5, <1>6, BoundAssumption DEF TypeInv, StackOK
<1> QED
  BY <1>7 DEF Begin, TypeInv, registry, simples, history, RegistryOK, SimplesOK, FlagsOK,
              HandlesOK, HistoryOK

\* So does each step of a pass.
LEMMA PassStepKeepsTypes ==
  ASSUME TypeInv, NEW t \in Threads, PassStep(t)
  PROVE  TypeInv'
<1> DEFINE f == Top(t)
<1> USE DEF TypeInv
<1>1. /\ stack[t] # <<>>
      /\ f \in ProperFrames
      /\ Len(stack[t]) \in Nat \ {0}
  <2>1. stack[t] # <<>>
    BY DEF PassStep, TakeSimple, DeferSimple, CheckSimple, EnterSimple, LeaveSimple,
           RequeueDeferred, CollectReady, CheckDelayed, EnterDelayed,
           LeaveDelayed, SettleReady, MergePending, At
  <2> QED
    BY <2>1, TopIsProper, Zenon
<1>2. /\ f \in Frames
      /\ f.exec \in Methods
      /\ f.todo \in Seq(SimpleActions)
      /\ f.deferred \in Seq(SimpleActions)
      /\ f.todo # <<>> => /\ Head(f.todo) \in SimpleActions
                          /\ Tail(f.todo) \in Seq(SimpleActions)
  <2>1. f \in Frames
    BY <1>1 DEF ProperFrames
  <2>2. f.exec \in Methods /\ f.todo \in Seq(SimpleActions) /\ f.deferred \in Seq(SimpleActions)
    BY <2>1 DEF Frames
  <2> QED
    BY <2>1, <2>2, HeadTailProperties
<1>3. \A g \in ProperFrames : SetTop(t, g) => StackOK'
  BY <1>1, SetTopIsProper
<1>4. CASE TakeSimple(t)
  <2>1. f.pc = "drain" /\ simple[f.exec] \in Seq(SimpleActions)
    BY <1>2, <1>4 DEF TakeSimple, At, SimplesOK
  <2>2. [f EXCEPT !.pc = "simple", !.todo = simple[f.exec]] \in ProperFrames
    BY <1>1, <2>1 DEF ProperFrames, Frames, Stages
  <2>3. StackOK'
    BY <1>3, <1>4, <2>2 DEF TakeSimple
  <2>4. SimplesOK'
    <3>1. <<>> \in Seq(SimpleActions)
      BY EmptySeq
    <3> QED
      BY <1>4, <3>1 DEF TakeSimple, SimplesOK
  <2> QED
    BY <1>4, <2>3, <2>4 DEF TakeSimple, registry, history, RegistryOK, FlagsOK, HandlesOK,
                            HistoryOK
<1>5. CASE DeferSimple(t)
  <2>1. f.pc = "simple" /\ f.todo # <<>>
    BY <1>5 DEF DeferSimple, At
  <2>2. Append(f.deferred, Head(f.todo)) \in Seq(SimpleActions)
    BY <1>2, <2>1, AppendProperties
  <2>3. [f EXCEPT !.deferred = Append(@, Head(f.todo)), !.todo = Tail(@)] \in ProperFrames
    BY <1>1, <1>2, <2>1, <2>2 DEF ProperFrames, Frames
  <2>4. StackOK'
    BY <1>3, <1>5, <2>3 DEF DeferSimple
  <2> QED
    BY <1>5, <2>4 DEF DeferSimple, registry, simples, history, RegistryOK, SimplesOK,
                      FlagsOK, HandlesOK, HistoryOK
<1>6. CASE CheckSimple(t)
  <2>1. f.pc = "simple" /\ f.todo # <<>>
    BY <1>6 DEF CheckSimple, At
  <2>2. [f EXCEPT !.pc = "enterSimple"] \in ProperFrames
    BY <1>1, <2>1 DEF ProperFrames, Frames, Stages
  <2>3. StackOK'
    BY <1>3, <1>6, <2>2 DEF CheckSimple, Goto
  <2> QED
    BY <1>6, <2>3 DEF CheckSimple, registry, simples, history, RegistryOK, SimplesOK,
                      FlagsOK, HandlesOK, HistoryOK
<1>7. CASE EnterSimple(t)
  <2>1. f.pc = "enterSimple"
    BY <1>7 DEF EnterSimple, At
  <2>2. [f EXCEPT !.pc = "callSimple"] \in ProperFrames
    BY <1>1, <2>1 DEF ProperFrames, Frames, Stages
  <2>3. StackOK'
    BY <1>3, <1>7, <2>2 DEF EnterSimple, Goto
  <2> QED
    BY <1>7, <2>3 DEF EnterSimple, registry, simples, history, RegistryOK, SimplesOK,
                      FlagsOK, HandlesOK, HistoryOK
<1>8. CASE LeaveSimple(t)
  <2>1. f.pc = "callSimple" /\ f.todo # <<>>
    BY <1>1, <1>8 DEF LeaveSimple, At, ProperFrames
  <2>2. [f EXCEPT !.pc = "simple", !.todo = Tail(@)] \in ProperFrames
    BY <1>1, <1>2, <2>1 DEF ProperFrames, Frames, Stages
  <2>3. StackOK'
    BY <1>3, <1>8, <2>2 DEF LeaveSimple
  <2>4. Append(ran, Head(f.todo)) \in Seq(SimpleActions)
    BY <1>2, <2>1, AppendProperties DEF HistoryOK
  <2> QED
    BY <1>8, <2>3, <2>4 DEF LeaveSimple, registry, simples, RegistryOK, SimplesOK, FlagsOK,
                            HandlesOK, HistoryOK
<1>9. CASE RequeueDeferred(t)
  <2>1. f.pc = "simple" /\ <<>> \in Seq(SimpleActions)
    BY <1>9, EmptySeq DEF RequeueDeferred, At
  <2>2. [f EXCEPT !.pc = "collect", !.deferred = <<>>] \in ProperFrames
    BY <1>1, <2>1 DEF ProperFrames, Frames, Stages
  <2>3. StackOK'
    BY <1>3, <1>9, <2>2 DEF RequeueDeferred
  <2>4. simple[f.exec] \o f.deferred \in Seq(SimpleActions)
    BY <1>2, ConcatProperties DEF SimplesOK
  <2>5. SimplesOK'
    BY <1>9, <2>4 DEF RequeueDeferred, SimplesOK
  <2> QED
    BY <1>9, <2>3, <2>5 DEF RequeueDeferred, registry, history, RegistryOK, FlagsOK,
                            HandlesOK, HistoryOK
<1>10. CASE CollectReady(t)
  <2> DEFINE due == {[index |-> i, id |-> queue[i]] :
                       i \in {j \in DOMAIN queue : queue[j] \in Due(f.exec)}}
  <2>1. SetTop(t, [f EXCEPT !.pc = "delayed", !.ready = due, !.unrun = due])
    BY <1>10 DEF CollectReady
  <2>2. due \subseteq Entries
    <3>1. DOMAIN queue = 1 .. Len(queue) /\ Len(queue) \in Nat /\ Len(pendingQueue) \in Nat
      BY LenProperties DEF RegistryOK
    <3>2. DOMAIN queue \subseteq Actions
      BY <3>1, BoundAssumption DEF RegistryOK, Actions
    <3>3. \A i \in DOMAIN queue : queue[i] \in Actions
      BY <3>1, ElementOfSeq DEF RegistryOK
    <3> QED
      BY <3>2, <3>3 DEF Entries
  <2> HIDE DEF due
  <2>3. [f EXCEPT !.pc = "delayed", !.ready = due, !.unrun = due] \in ProperFrames
    BY <1>1, <2>2 DEF ProperFrames, Frames, Stages
  <2>4. StackOK'
    BY <1>3, <2>1, <2>3
  <2>5. act' \in [Actions -> Attributes]
    <3>1. \A a \in Actions : /\ act[a] \in Attributes
                             /\ CountedDown(a) \in Nat
      BY DEF RegistryOK, Attributes, CountedDown
    <3>2. \A a \in Actions :
            [act[a] EXCEPT !.left = CountedDown(a),
                           !.status = IF a \in Due(f.exec) THEN "Executing" ELSE @]
              \in Attributes
      BY <3>1 DEF Attributes, Statuses
    <3> QED
      BY <1>10, <3>1, <3>2 DEF CollectReady
  <2> QED
    BY <1>10, <2>4, <2>5 DEF CollectReady, simples, history, RegistryOK, SimplesOK, FlagsOK,
                             HandlesOK, HistoryOK
<1>11. CASE CheckDelayed(t)
  <2>1. f.pc = "delayed" /\ f.unrun # {}
    BY <1>11 DEF CheckDelayed, At
  <2>2. /\ [f EXCEPT !.pc = "enterDelayed"] \in ProperFrames
        /\ [f EXCEPT !.unrun = @ \ {Current(f)}] \in ProperFrames
    BY <1>1, <2>1 DEF ProperFrames, Frames, Stages
  <2>3. StackOK'
    <3>1. CASE executing
      BY <1>3, <1>11, <2>2, <3>1 DEF CheckDelayed
    <3>2. CASE ~executing
      BY <1>3, <1>11, <2>2, <3>2 DEF CheckDelayed, Goto
    <3> QED
      BY <3>1, <3>2
  <2> QED
    BY <1>11, <2>3 DEF CheckDelayed, registry, simples, history, RegistryOK, SimplesOK,
                       FlagsOK, HandlesOK, HistoryOK
<1>12. CASE EnterDelayed(t)
  <2>1. f.pc = "enterDelayed" /\ f.unrun # {}
    BY <1>1, <1>12 DEF EnterDelayed, At, ProperFrames
  <2>2. \A pc \in {"callDelayed", "thrown"} : [f EXCEPT !.pc = pc] \in ProperFrames
    BY <1>1, <2>1 DEF ProperFrames, Frames, Stages
  <2>3. StackOK'
    BY <1>3, <1>12, <2>2 DEF EnterDelayed, Goto
  <2>4. Current(f).id \in Actions
    <3>1. f.unrun \subseteq Entries
      BY <1>2 DEF Frames
    <3> QED
      BY <1>2, <2>1, <3>1, CurrentIsUnrun DEF Entries
  <2> QED
    BY <1>12, <2>3, <2>4 DEF EnterDelayed, registry, simples, RegistryOK, SimplesOK, FlagsOK,
                             HandlesOK, HistoryOK
<1>13. CASE LeaveDelayed(t)
  <2>1. [f EXCEPT !.pc = "delayed", !.unrun = @ \ {Current(f)}] \in ProperFrames
    BY <1>1 DEF ProperFrames, Frames, Stages
  <2>2. StackOK'
    BY <1>3, <1>13, <2>1 DEF LeaveDelayed
  <2> QED
    BY <1>13, <2>2 DEF LeaveDelayed, registry, simples, history, RegistryOK, SimplesOK,
                       FlagsOK, HandlesOK, HistoryOK
<1>14. CASE SettleReady(t)
  <2>1. f.pc = "delayed" /\ f.unrun = {}
    BY <1>14 DEF SettleReady, At
  <2>2. [f EXCEPT !.pc = "merge", !.ready = {}] \in ProperFrames
    BY <1>1, <2>1 DEF ProperFrames, Frames, Stages
  <2>3. StackOK'
    BY <1>3, <1>14, <2>2 DEF SettleReady
  <2>4. PICK D \in SUBSET Range(queue) :
          queue' = Without(queue, D) /\ freed' = freed \cup D
    BY <1>14 DEF SettleReady
  <2>5. Range(queue) \subseteq Actions
    BY ElementOfSeq, LenProperties DEF RegistryOK, Range
  <2>6. queue' \in Seq(Actions) /\ Len(queue') <= Len(queue)
    BY <2>4, WithoutIsASequence DEF RegistryOK
  <2>7. Len(queue') \in Nat /\ Len(queue) \in Nat /\ Len(pendingQueue) \in Nat
    BY <2>6, LenProperties DEF RegistryOK
  <2>8. act' \in [Actions -> Attributes]
    <3>1. \A a \in Actions : act[a] \in Attributes /\ Settled(act[a]) \in Attributes
      BY DEF RegistryOK, Attributes, Statuses, Settled
    <3> QED
      BY <1>14, <3>1 DEF SettleReady
  <2>9. RegistryOK'
    BY <1>14, <2>6, <2>7, <2>8, BoundAssumption DEF SettleReady, RegistryOK
  <2> QED
    BY <1>14, <2>3, <2>4, <2>5, <2>9 DEF SettleReady, simples, SimplesOK, FlagsOK, HandlesOK,
                                         HistoryOK
<1>15. CASE MergePending(t)
  <2>1. StackOK'
    <3>1. stack[t] \in Seq(ProperFrames)
      BY DEF StackOK
    <3>2. Tail(stack[t]) \in Seq(ProperFrames) /\ Len(Tail(stack[t])) = Len(stack[t]) - 1
      BY <1>1, <3>1, HeadTailProperties
    <3>3. stack' = [stack EXCEPT ![t] = Tail(@)]
      BY <1>15 DEF MergePending
    <3> QED
      BY <1>1, <3>2, <3>3, BoundAssumption DEF StackOK
  <2>2. SimplesOK'
    <3>1. /\ <<>> \in Seq(SimpleActions)
          /\ simple[f.exec] \o pendingSimple[f.exec] \in Seq(SimpleActions)
      BY <1>2, EmptySeq, ConcatProperties DEF SimplesOK
    <3> QED
      BY <1>15, <3>1 DEF MergePending, SimplesOK
  <2>3. RegistryOK'
    <3>1. /\ queue \o pendingQueue \in Seq(Actions)
          /\ Len(queue \o pendingQueue) = Len(queue) + Len(pendingQueue)
      BY ConcatProperties DEF RegistryOK
    <3>2. <<>> \in Seq(Actions) /\ Len(<<>>) = 0
      BY EmptySeq
    <3> QED
      BY <1>15, <3>1, <3>2 DEF MergePending, RegistryOK
  <2> QED
    BY <1>15, <2>1, <2>2, <2>3 DEF MergePending, history, FlagsOK, HandlesOK, HistoryOK
<1> QED
  BY <1>4, <1>5, <1>6, <1>7, <1>8, <1>9, <1>10, <1>11, <1>12, <1>13, <1>14, <1>15
     DEF PassStep

\* Every variable keeps its type, and no pass nests deeper than the bound.
LEMMA TypeInvInductive ==
  /\ Init => TypeInv
  /\ TypeInv /\ [Next]_vars => TypeInv'
<1>1. Init => TypeInv
  <2> SUFFICES ASSUME Init
               PROVE  TypeInv
    OBVIOUS
  <2>1. \A S : <<>> \in Seq(S) /\ Len(<<>>) = 0
    BY EmptySeq
  <2>2. Unregistered \in Attributes
    BY ModAssumption DEF Unregistered, NewAction, Attributes, Statuses, Methods
  <2>3. RegistryOK
    BY <2>1, <2>2, BoundAssumption DEF Init, RegistryOK
  <2>4. SimplesOK
    BY <2>1, ModAssumption, BoundAssumption DEF Init, SimplesOK
  <2>5. StackOK
    BY <2>1, BoundAssumption DEF Init, StackOK
  <2>6. FlagsOK
    BY DEF Init, FlagsOK
  <2>8. HandlesOK
    BY BoundAssumption DEF Init, HandlesOK
  <2>7. HistoryOK
    BY <2>1 DEF Init, HistoryOK
  <2> QED
    BY <2>3, <2>4, <2>5, <2>6, <2>7, <2>8 DEF TypeInv
<1>2. ASSUME TypeInv, [Next]_vars
      PROVE  TypeInv'
  <2>1. CASE EngineTickHook
    BY <1>2, <2>1, BeginKeepsTypes, ThreadAssumption DEF EngineTickHook, Methods
  <2>2. CASE Tick
    <3>1. act' \in [Actions -> Attributes]
      <4>1. \A a \in Actions : act[a] \in Attributes
        BY <1>2 DEF TypeInv, RegistryOK
      <4>2. \A a \in Actions : act[a].left > 0 => [act[a] EXCEPT !.left = @ - 1] \in Attributes
        BY <4>1 DEF Attributes
      <4> QED
        BY <2>2, <4>1, <4>2 DEF Tick
    <3> QED
      BY <1>2, <2>2, <3>1 DEF Tick, simples, history, TypeInv, RegistryOK, SimplesOK, FlagsOK,
                              HandlesOK, StackOK, HistoryOK
  <2>3. ASSUME NEW t \in Threads, ProcessEventHook(t)
        PROVE  TypeInv'
    BY <1>2, <2>3, BeginKeepsTypes DEF ProcessEventHook, Methods
  <2>4. ASSUME NEW t \in Threads, PassStep(t)
        PROVE  TypeInv'
    BY <1>2, <2>4, PassStepKeepsTypes
  <2>5. ASSUME NEW t \in Threads, MakeActionHandleRead(t)
        PROVE  TypeInv'
    BY <1>2, <2>5, BoundAssumption
       DEF MakeActionHandleRead, registry, simples, history, TypeInv, RegistryOK, SimplesOK,
           FlagsOK, HandlesOK, StackOK, HistoryOK, Handles
  <2>6. ASSUME NEW t \in Threads, MakeActionHandleWrite(t)
        PROVE  TypeInv'
    BY <1>2, <2>6, BoundAssumption
       DEF MakeActionHandleWrite, registry, simples, history, TypeInv, RegistryOK, SimplesOK,
           FlagsOK, HandlesOK, StackOK, HistoryOK
  <2>7. ASSUME NEW t \in Threads, NEW m \in Mods, Registration(t, m) \/ Controlling(t, m)
        PROVE  TypeInv'
    BY <1>2, <2>7, RegistrationKeepsTypes, ControllingKeepsTypes
  <2>8. CASE UNCHANGED vars
    BY <1>2, <2>8 DEF vars, TypeInv, RegistryOK, SimplesOK, FlagsOK, HandlesOK, StackOK,
                      HistoryOK
  <2> QED
    BY <1>2, <2>1, <2>2, <2>3, <2>4, <2>5, <2>6, <2>7, <2>8 DEF Next
<1> QED
  BY <1>1, <1>2

THEOREM TypeInvariant == Spec => []TypeInv
<1> QED
  BY TypeInvInductive, PTL DEF Spec

\* Every variable keeps its type, whatever the bounds (TypeOK of EngineTickOnly).
THEOREM TypeCorrect == Spec => []TypeOK
<1> QED
  BY TypeInvariant, TypeInvImpliesTypeOK, PTL

-----------------------------------------------------------------------------
(* What a call does to the actions.                                        *)

\* Only registered actions are listed, and the others are still as they were made.
Fresh ==
  /\ \A a \in Range(queue) \cup Range(pendingQueue) : a < nextAction
  /\ \A a \in Actions : a >= nextAction => act[a].status = "Active"

\* No cancelled action is revived.
CancelStep ==
  \A a \in Actions : act[a].status = "PendingRemoval" => act'[a].status = "PendingRemoval"

\* The actions keep their indices.
IndicesKept ==
  /\ Len(queue) <= Len(queue')
  /\ \A i \in 1 .. Len(queue) : queue'[i] = queue[i]

\* No action begins to execute, which only stage 1 makes one do.
NoneCollected ==
  \A a \in Actions : act'[a].status = "Executing" => act[a].status = "Executing"

CallEffect ==
  CancelStep /\ IndicesKept /\ NoneCollected /\ Fresh' /\ UNCHANGED <<stack, freed>>

LEMMA FirstIsMember ==
  ASSUME NEW T, NEW q \in Seq(T), NEW S, Range(q) \cap S # {}
  PROVE  First(q, S) \in S /\ First(q, S) \in Range(q)
<1> DEFINE K == {i \in DOMAIN q : q[i] \in S}
<1>1. DOMAIN q = 1 .. Len(q) /\ Len(q) \in Nat
  BY LenProperties
<1>2. K \in SUBSET (1 .. Len(q)) /\ K # {}
  BY <1>1 DEF Range
<1>3. PICK i \in K : \A j \in K : i <= j
  BY <1>1, <1>2, LeastExists
<1>4. \A j \in 1 .. i - 1 : q[j] \notin S
  BY <1>1, <1>2, <1>3
<1> QED
  BY <1>3, <1>4 DEF First, Range

\* A call designates an action that is listed, with what it asked for.
LEMMA SelectedIsMember ==
  ASSUME TypeInv, NEW S, S # {}, S \subseteq Range(queue) \cup Range(pendingQueue)
  PROVE  Selected(S) \in S /\ Selected(S) \in Actions
<1>1. queue \in Seq(Actions) /\ pendingQueue \in Seq(Actions)
  BY DEF TypeInv, RegistryOK
<1>2. Range(queue) \subseteq Actions /\ Range(pendingQueue) \subseteq Actions
  BY <1>1, ElementOfSeq, LenProperties DEF Range
<1>3. Range(queue) \cap S # {} \/ Range(pendingQueue) \cap S # {}
  OBVIOUS
<1>4. Selected(S) \in S
  BY <1>1, <1>3, FirstIsMember DEF Selected
<1> QED
  BY <1>2, <1>4

LEMMA InsertEffect ==
  ASSUME TypeInv, Fresh, NEW a \in Attributes, a.status = "Active", Insert(a)
  PROVE  CancelStep /\ IndicesKept /\ NoneCollected /\ Fresh'
<1>1. /\ nextAction \in Actions
      /\ nextAction' = nextAction + 1
      /\ act' = [act EXCEPT ![nextAction] = a]
      /\ act \in [Actions -> Attributes]
      /\ act[nextAction].status = "Active"
  BY DEF Insert, TypeInv, RegistryOK, Fresh, Actions
<1>2. CancelStep /\ NoneCollected
  BY <1>1 DEF CancelStep, NoneCollected
<1>3. queue \in Seq(Actions) /\ pendingQueue \in Seq(Actions)
  BY DEF TypeInv, RegistryOK
<1>4. \A q \in Seq(Actions) :
        /\ Len(q) \in Nat
        /\ Len(q) <= Len(Append(q, nextAction))
        /\ \A i \in 1 .. Len(q) : Append(q, nextAction)[i] = q[i]
        /\ Range(Append(q, nextAction)) = Range(q) \cup {nextAction}
  <2> SUFFICES ASSUME NEW q \in Seq(Actions)
               PROVE  /\ Len(q) \in Nat
                      /\ Len(q) <= Len(Append(q, nextAction))
                      /\ \A i \in 1 .. Len(q) : Append(q, nextAction)[i] = q[i]
                      /\ Range(Append(q, nextAction)) = Range(q) \cup {nextAction}
    OBVIOUS
  <2>1. /\ Len(q) \in Nat
        /\ DOMAIN q = 1 .. Len(q)
        /\ Append(q, nextAction) \in Seq(Actions)
        /\ Len(Append(q, nextAction)) = Len(q) + 1
        /\ \A i \in 1 .. Len(q) : Append(q, nextAction)[i] = q[i]
        /\ Append(q, nextAction)[Len(q) + 1] = nextAction
    BY <1>1, AppendProperties, LenProperties
  <2>2. DOMAIN Append(q, nextAction) = 1 .. Len(q) + 1
    BY <2>1, LenProperties
  <2> QED
    BY <2>1, <2>2 DEF Range
<1>5. /\ IndicesKept
      /\ Range(queue') \cup Range(pendingQueue')
           \subseteq Range(queue) \cup Range(pendingQueue) \cup {nextAction}
  <2>1. CASE processing
    <3>1. queue' = queue /\ pendingQueue' = Append(pendingQueue, nextAction)
      BY <2>1 DEF Insert
    <3> QED
      BY <1>3, <1>4, <3>1 DEF IndicesKept
  <2>2. CASE ~processing
    <3>1. queue' = Append(queue, nextAction) /\ pendingQueue' = pendingQueue
      BY <2>2 DEF Insert
    <3> QED
      BY <1>3, <1>4, <3>1 DEF IndicesKept
  <2> QED
    BY <2>1, <2>2
<1>6. Range(queue) \subseteq Actions /\ Range(pendingQueue) \subseteq Actions
  BY <1>3, ElementOfSeq, LenProperties DEF Range
<1>7. Fresh'
  BY <1>1, <1>5, <1>6 DEF Fresh, Actions
<1> QED
  BY <1>2, <1>5, <1>7

\* What holds when no vector changes and only listed actions do.
LEMMA ListedOnly ==
  ASSUME TypeInv, Fresh, UNCHANGED <<queue, pendingQueue, nextAction, stack, freed>>,
         \A a \in Actions :
           /\ a \notin Range(queue) \cup Range(pendingQueue) => act'[a].status = act[a].status
           /\ act[a].status = "PendingRemoval" => act'[a].status = "PendingRemoval"
           /\ act'[a].status = "Executing" => act[a].status = "Executing"
  PROVE  CallEffect
<1>1. queue \in Seq(Actions) /\ pendingQueue \in Seq(Actions)
  BY DEF TypeInv, RegistryOK
<1>2. Len(queue) \in Nat
  BY <1>1, LenProperties
<1>3. \A a \in Actions : a >= nextAction => a \notin Range(queue) \cup Range(pendingQueue)
  BY DEF Fresh, Actions, TypeInv, RegistryOK
<1>4. Fresh'
  BY <1>3 DEF Fresh
<1> QED
  BY <1>2, <1>4 DEF CallEffect, CancelStep, IndicesKept, NoneCollected

LEMMA RegistrationEffect ==
  ASSUME TypeInv, Fresh, NEW t \in Threads, NEW m \in Mods, Registration(t, m)
  PROVE  CallEffect
<1>1. \A a \in Actions : act[a] \in Attributes
  BY DEF TypeInv, RegistryOK
<1>2. ASSUME NEW method \in Methods, ExecuteInGameThread(t, m, method)
      PROVE  CallEffect
  BY <1>2, ListedOnly DEF ExecuteInGameThread, registry, history
<1>3. ASSUME NEW method \in Methods, NEW frames \in BOOLEAN, NEW looping \in BOOLEAN,
             NEW d \in Delays, RegisterDelayed(t, m, method, frames, d, looping)
      PROVE  CallEffect
  <2> DEFINE a == NewAction(m, nextHandle, method, frames /\ d > 0, d, looping)
  <2>1. (frames /\ d > 0) \in BOOLEAN
    OBVIOUS
  <2>2. a \in Attributes /\ a.status = "Active"
    BY <1>3, <2>1, BoundAssumption
       DEF RegisterDelayed, NewAction, Attributes, Statuses, Handles
  <2>3. Insert(a) /\ UNCHANGED <<stack, freed>>
    BY <1>3 DEF RegisterDelayed, history
  <2> QED
    BY <2>2, <2>3, InsertEffect DEF CallEffect
<1>4. ASSUME NEW h \in Handles, NEW method \in Methods, NEW d \in Delays,
             Insert(NewAction(m, h, method, FALSE, d, FALSE)), UNCHANGED <<stack, freed>>
      PROVE  CallEffect
  <2> DEFINE a == NewAction(m, h, method, FALSE, d, FALSE)
  <2>1. a \in Attributes /\ a.status = "Active"
    BY BoundAssumption DEF NewAction, Attributes, Statuses, Handles
  <2>2. Insert(a)
    BY <1>4
  <2> QED
    BY <1>4, <2>1, <2>2, InsertEffect DEF CallEffect
<1>5. ASSUME NEW h \in Handles, NEW method \in Methods, NEW d \in Delays,
             ExecuteWithHandle(t, m, h, method, d)
      PROVE  CallEffect
  BY <1>4, <1>5 DEF ExecuteWithHandle, history
<1>6. ASSUME NEW h \in Handles, NEW method \in Methods, NEW d \in Delays,
             Retrigger(t, m, h, method, d)
      PROVE  CallEffect
  <2>1. CASE LiveWith(h) = {}
    BY <1>4, <1>6, <2>1 DEF Retrigger
  <2>2. CASE LiveWith(h) # {}
    <3> DEFINE a == Selected(LiveWith(h))
    <3>1. /\ a \in LiveWith(h)
          /\ a \in Actions
      BY <2>2, SelectedIsMember DEF LiveWith
    <3>2. /\ a \in Range(queue) \cup Range(pendingQueue)
          /\ act[a].status # "PendingRemoval"
      BY <3>1 DEF LiveWith
    <3>3. /\ act' = [act EXCEPT ![a].status = "Active",
                                ![a].delay = IF act[a].frames THEN @ ELSE d,
                                ![a].left = IF act[a].frames THEN @ ELSE d]
          /\ UNCHANGED <<queue, pendingQueue, nextAction, stack, freed>>
      BY <1>6, <2>2 DEF Retrigger
    <3> HIDE DEF a
    <3>4. /\ \A b \in Actions \ {a} : act'[b] = act[b]
          /\ act'[a].status = "Active"
      BY <1>1, <3>1, <3>3 DEF TypeInv, RegistryOK, Attributes
    <3> QED
      BY <3>1, <3>2, <3>3, <3>4, ListedOnly
  <2> QED
    BY <2>1, <2>2
<1> QED
  BY <1>2, <1>3, <1>5, <1>6 DEF Registration

LEMMA ControllingEffect ==
  ASSUME TypeInv, Fresh, NEW t \in Threads, NEW m \in Mods, Controlling(t, m)
  PROVE  CallEffect
<1>1. act \in [Actions -> Attributes]
  BY DEF TypeInv, RegistryOK
<1>2. ASSUME NEW h \in Handles, NEW S, S \subseteq NotCancelled, Control(t, m, h, S),
             NEW a \in Owned(m, h, S), a \in Actions,
             \A b \in Actions \ {a} : act'[b] = act[b],
             act'[a].status \in {act[a].status, "Active", "Paused", "PendingRemoval"}
      PROVE  CallEffect
  <2>1. /\ a \in Range(queue) \cup Range(pendingQueue)
        /\ act[a].status # "PendingRemoval"
    BY <1>2 DEF Owned, NotCancelled
  <2>2. UNCHANGED <<queue, pendingQueue, nextAction, stack, freed>>
    BY <1>2 DEF Control
  <2> QED
    BY <1>2, <2>1, <2>2, ListedOnly
<1>3. ASSUME NEW h \in Handles, NEW S, Owned(m, h, S) # {}
      PROVE  Selected(Owned(m, h, S)) \in Owned(m, h, S) \cap Actions
  BY <1>3, SelectedIsMember DEF Owned
<1>4. ASSUME NEW h \in Handles, ResetDelayedActionTimer(t, m, h)
      PROVE  CallEffect
  <2> DEFINE a == Selected(Owned(m, h, NotCancelled))
  <2>1. Control(t, m, h, NotCancelled) /\ a \in Owned(m, h, NotCancelled) \cap Actions
    BY <1>3, <1>4 DEF ResetDelayedActionTimer, Control
  <2>2. act' = [act EXCEPT ![a].left = act[a].delay, ![a].status = "Active"]
    BY <1>4 DEF ResetDelayedActionTimer
  <2> HIDE DEF a
  <2>3. /\ \A b \in Actions \ {a} : act'[b] = act[b]
        /\ act'[a].status = "Active"
    BY <1>1, <2>1, <2>2 DEF Attributes
  <2> QED
    BY <1>2, <2>1, <2>3
<1>5. ASSUME NEW h \in Handles, NEW d \in Delays, SetDelayedActionTimer(t, m, h, d)
      PROVE  CallEffect
  <2> DEFINE a == Selected(Owned(m, h, NotCancelled))
  <2>1. Control(t, m, h, NotCancelled) /\ a \in Owned(m, h, NotCancelled) \cap Actions
    BY <1>3, <1>5 DEF SetDelayedActionTimer, Control
  <2>2. act' = [act EXCEPT ![a].frames = @ /\ SecondArgument(d) > 0,
                           ![a].delay = SecondArgument(d),
                           ![a].left = SecondArgument(d),
                           ![a].status = "Active"]
    BY <1>5 DEF SetDelayedActionTimer
  <2> HIDE DEF a
  <2>3. /\ \A b \in Actions \ {a} : act'[b] = act[b]
        /\ act'[a].status = "Active"
    BY <1>1, <2>1, <2>2 DEF Attributes
  <2> QED
    BY <1>2, <2>1, <2>3
<1>6. ASSUME NEW h \in Handles, PauseDelayedAction(t, m, h)
      PROVE  CallEffect
  <2> DEFINE S == {a \in Owned(m, h, {"Active", "Executing"}) :
                     act[a].status = "Active" \/ act[a].looping}
             a == Selected(S)
  <2>1. Control(t, m, h, {"Active", "Executing"}) /\ S # {}
    BY <1>6 DEF PauseDelayedAction
  <2>2. a \in S /\ a \in Actions
    BY <2>1, SelectedIsMember DEF Owned
  <2>3. \/ act' = [act EXCEPT ![a].status = "Paused"]
        \/ act' = [act EXCEPT ![a].pauseAfter = TRUE]
    BY <1>6 DEF PauseDelayedAction
  <2>4. a \in Owned(m, h, {"Active", "Executing"})
    BY <2>2
  <2> HIDE DEF a
  <2>5. /\ \A b \in Actions \ {a} : act'[b] = act[b]
        /\ act'[a].status \in {act[a].status, "Paused"}
    BY <1>1, <2>2, <2>3 DEF Attributes
  <2> QED
    BY <1>2, <2>1, <2>2, <2>4, <2>5 DEF NotCancelled, Statuses
<1>7. ASSUME NEW h \in Handles, UnpauseDelayedAction(t, m, h)
      PROVE  CallEffect
  <2> DEFINE a == Selected(Owned(m, h, {"Paused"}))
  <2>1. Control(t, m, h, {"Paused"}) /\ a \in Owned(m, h, {"Paused"}) \cap Actions
    BY <1>3, <1>7 DEF UnpauseDelayedAction, Control
  <2>2. act' = [act EXCEPT ![a].status = "Active"]
    BY <1>7 DEF UnpauseDelayedAction
  <2> HIDE DEF a
  <2>3. /\ \A b \in Actions \ {a} : act'[b] = act[b]
        /\ act'[a].status = "Active"
    BY <1>1, <2>1, <2>2 DEF Attributes
  <2> QED
    BY <1>2, <2>1, <2>3 DEF NotCancelled, Statuses
<1>8. ASSUME NEW h \in Handles, CancelDelayedAction(t, m, h)
      PROVE  CallEffect
  <2> DEFINE a == Selected(Owned(m, h, NotCancelled))
  <2>1. Control(t, m, h, NotCancelled) /\ a \in Owned(m, h, NotCancelled) \cap Actions
    BY <1>3, <1>8 DEF CancelDelayedAction, Control
  <2>2. act' = [act EXCEPT ![a].status = "PendingRemoval"]
    BY <1>8 DEF CancelDelayedAction
  <2> HIDE DEF a
  <2>3. /\ \A b \in Actions \ {a} : act'[b] = act[b]
        /\ act'[a].status = "PendingRemoval"
    BY <1>1, <2>1, <2>2 DEF Attributes
  <2> QED
    BY <1>2, <2>1, <2>3
<1>9. ASSUME ClearAllDelayedActions(t, m)
      PROVE  CallEffect
  <2>1. /\ UNCHANGED <<queue, pendingQueue, nextAction, stack, freed>>
        /\ \A a \in Actions :
             act'[a] = IF /\ a \in Range(queue) \cup Range(pendingQueue)
                          /\ act[a].owner = m
                       THEN [act[a] EXCEPT !.status = "PendingRemoval"] ELSE act[a]
    BY <1>9 DEF ClearAllDelayedActions, history
  <2>2. \A a \in Actions : [act[a] EXCEPT !.status = "PendingRemoval"].status = "PendingRemoval"
    BY <1>1 DEF Attributes
  <2> QED
    BY <2>1, <2>2, ListedOnly
<1> QED
  BY <1>4, <1>5, <1>6, <1>7, <1>8, <1>9 DEF Controlling

LEMMA TickEffect ==
  ASSUME TypeInv, Fresh, Tick
  PROVE  CallEffect
<1>1. \A a \in Actions : act'[a].status = act[a].status
  BY DEF Tick, TypeInv, RegistryOK, Attributes
<1>2. UNCHANGED <<queue, pendingQueue, nextAction, stack, freed>>
  BY DEF Tick, history
<1> QED
  BY <1>1, <1>2, ListedOnly

-----------------------------------------------------------------------------
(* A cancelled action stays cancelled.                                     *)

LEMMA SettledKeepsCancelled ==
  ASSUME NEW a \in Attributes
  PROVE  /\ a.status = "PendingRemoval" => Settled(a).status = "PendingRemoval"
         /\ Settled(a).status # "Executing"
BY DEF Attributes, Statuses, Settled

LEMMA PassStepEffect ==
  ASSUME TypeInv, Fresh, NEW t \in Threads, PassStep(t)
  PROVE  CancelStep /\ Fresh'
<1>1. /\ act \in [Actions -> Attributes]
      /\ queue \in Seq(Actions)
      /\ pendingQueue \in Seq(Actions)
      /\ nextAction \in Nat
  BY DEF TypeInv, RegistryOK
<1>2. \A a \in Actions : a >= nextAction => a \notin Range(queue) \cup Range(pendingQueue)
  BY <1>1 DEF Fresh, Actions
<1>3. ASSUME UNCHANGED registry
      PROVE  CancelStep /\ Fresh'
  BY <1>3 DEF registry, CancelStep, Fresh
<1>4. CASE CollectReady(t)
  <2>1. \A a \in Actions :
          /\ a \in Eligible(Top(t).exec) => act[a].status = "Active"
          /\ a \notin Eligible(Top(t).exec) => act'[a] = act[a]
          /\ a >= nextAction => a \notin Eligible(Top(t).exec)
    BY <1>1, <1>2, <1>4 DEF CollectReady, Eligible
  <2>2. CancelStep
    BY <2>1 DEF CancelStep
  <2>3. Fresh'
    BY <1>4, <2>1 DEF CollectReady, Fresh
  <2> QED
    BY <2>2, <2>3
<1>5. CASE SettleReady(t)
  <2> DEFINE touched == {queue[e.index] : e \in {r \in Top(t).ready : InRange(r)}}
  <2>1. /\ act' = [a \in Actions |-> IF a \in touched THEN Settled(act[a]) ELSE act[a]]
        /\ UNCHANGED <<pendingQueue, nextAction>>
    BY <1>5 DEF SettleReady
  <2>2. PICK D : queue' = Without(queue, D)
    BY <1>5 DEF SettleReady
  <2>3. touched \subseteq Range(queue)
    <3>1. stack[t] # <<>>
      BY <1>5 DEF SettleReady, At
    <3>2. Top(t).ready \subseteq Entries
      BY <3>1, TopIsProper DEF TypeInv, ProperFrames, Frames
    <3>3. \A e \in Top(t).ready : InRange(e) => e.index \in DOMAIN queue
      BY <1>1, <3>2, LenProperties DEF InRange, Entries, Actions
    <3> QED
      BY <3>3 DEF Range
  <2> HIDE DEF touched
  <2>4. CancelStep
    BY <1>1, <2>1, SettledKeepsCancelled DEF CancelStep
  <2>5. Range(queue') \subseteq Range(queue)
    BY <1>1, <2>2, WithoutIsASequence
  <2>6. Fresh'
    BY <1>2, <2>1, <2>3, <2>5 DEF Fresh
  <2> QED
    BY <2>4, <2>6
<1>6. CASE MergePending(t)
  <2>1. /\ queue' = queue \o pendingQueue
        /\ pendingQueue' = <<>>
        /\ UNCHANGED <<act, nextAction>>
    BY <1>6 DEF MergePending
  <2>2. Range(queue \o pendingQueue) \subseteq Range(queue) \cup Range(pendingQueue)
    <3>1. /\ Len(queue) \in Nat /\ DOMAIN queue = 1 .. Len(queue)
          /\ Len(pendingQueue) \in Nat /\ DOMAIN pendingQueue = 1 .. Len(pendingQueue)
      BY <1>1, LenProperties
    <3>2. /\ queue \o pendingQueue \in Seq(Actions)
          /\ Len(queue \o pendingQueue) = Len(queue) + Len(pendingQueue)
          /\ \A i \in 1 .. Len(queue) + Len(pendingQueue) :
               (queue \o pendingQueue)[i] = IF i <= Len(queue) THEN queue[i]
                                            ELSE pendingQueue[i - Len(queue)]
      BY <1>1, ConcatProperties
    <3>3. DOMAIN (queue \o pendingQueue) = 1 .. Len(queue) + Len(pendingQueue)
      BY <3>2, LenProperties
    <3>4. ASSUME NEW i \in 1 .. Len(queue) + Len(pendingQueue)
          PROVE  (queue \o pendingQueue)[i] \in Range(queue) \cup Range(pendingQueue)
      <4>1. CASE i <= Len(queue)
        BY <3>1, <3>2, <4>1 DEF Range
      <4>2. CASE i > Len(queue)
        <5>1. i - Len(queue) \in DOMAIN pendingQueue
          BY <3>1, <4>2
        <5> QED
          BY <3>1, <3>2, <4>2, <5>1 DEF Range
      <4> QED
        BY <3>1, <4>1, <4>2
    <3> QED
      BY <3>3, <3>4 DEF Range
  <2>3. Range(<<>>) = {}
    BY DEF Range
  <2> QED
    BY <2>1, <2>2, <2>3 DEF CancelStep, Fresh
<1> QED
  BY <1>3, <1>4, <1>5, <1>6
     DEF PassStep, TakeSimple, DeferSimple, CheckSimple, EnterSimple, LeaveSimple,
         RequeueDeferred, CheckDelayed, EnterDelayed, LeaveDelayed

LEMMA FreshInductive ==
  /\ Init => Fresh
  /\ TypeInv /\ Fresh /\ [Next]_vars => CancelStep /\ Fresh'
<1>1. Init => Fresh
  <2>1. Range(<<>>) = {}
    BY DEF Range
  <2> QED
    BY <2>1 DEF Init, Fresh, Unregistered, NewAction
<1>2. ASSUME TypeInv, Fresh, [Next]_vars
      PROVE  CancelStep /\ Fresh'
  <2>1. ASSUME UNCHANGED registry
        PROVE  CancelStep /\ Fresh'
    BY <1>2, <2>1 DEF registry, CancelStep, Fresh
  <2>2. ASSUME NEW t \in Threads, PassStep(t)
        PROVE  CancelStep /\ Fresh'
    BY <1>2, <2>2, PassStepEffect
  <2>3. ASSUME NEW t \in Threads, NEW m \in Mods, Registration(t, m) \/ Controlling(t, m)
        PROVE  CancelStep /\ Fresh'
    BY <1>2, <2>3, RegistrationEffect, ControllingEffect DEF CallEffect
  <2>4. CASE Tick
    BY <1>2, <2>4, TickEffect DEF CallEffect
  <2>5. CASE UNCHANGED vars
    BY <2>1, <2>5 DEF vars, registry
  <2> QED
    BY <1>2, <2>1, <2>2, <2>3, <2>4, <2>5
       DEF Next, EngineTickHook, ProcessEventHook, Begin, MakeActionHandleRead,
           MakeActionHandleWrite
<1> QED
  BY <1>1, <1>2

\* No call and no settling revives a cancelled action, whatever the threads, the
\* methods, the nesting and the bounds.
THEOREM CancelFinal == Spec => CancelIsFinal
<1>1. TypeInv /\ Fresh /\ [Next]_vars => [CancelStep]_vars
  BY FreshInductive
<1>2. CancelStep <=>
        \A a \in Actions : act[a].status = "PendingRemoval" => act'[a].status = "PendingRemoval"
  BY DEF CancelStep
<1> QED
  BY <1>1, <1>2, TypeInvInductive, FreshInductive, PTL DEF Spec, CancelIsFinal

-----------------------------------------------------------------------------
(* Which actions are listed, and what of an action never changes.          *)

Listed == Range(queue) \cup Range(pendingQueue)

\* Each listed action once.
Distinct ==
  /\ IsInjective(queue) /\ IsInjective(pendingQueue)
  /\ Range(queue) \cap Range(pendingQueue) = {}

\* Mod, handle and kind are for good; only a loop is told to pause after its callback.
SameAction(a, b) ==
  /\ b.owner = a.owner /\ b.handle = a.handle /\ b.looping = a.looping
  /\ b.pauseAfter => a.pauseAfter \/ a.looping

\* A step that registers nothing lists nothing that was not listed.
ActionsKept ==
  /\ nextAction' = nextAction
  /\ Listed' \subseteq Listed
  /\ \A a \in Actions : SameAction(act[a], act'[a])
  /\ Distinct => Distinct'

\* A call of mod m that registers lists one new action, whose handle is fresh or
\* designates no other live one.
NewListed(m) ==
  \E a \in Attributes :
    /\ Insert(a)
    /\ a.owner = m /\ ~a.pauseAfter
    /\ \/ a.handle = nextHandle /\ nextHandle' = nextHandle + 1
       \/ a.handle < nextHandle /\ nextHandle' = nextHandle /\ LiveWith(a.handle) = {}
    /\ UNCHANGED fired

LEMMA ListedAreActions ==
  ASSUME TypeInv
  PROVE  /\ Range(queue) \subseteq Actions
         /\ Range(pendingQueue) \subseteq Actions
         /\ Listed \subseteq Actions
BY RangeOfSeq DEF TypeInv, RegistryOK, Listed

LEMMA VectorsUnchanged ==
  ASSUME UNCHANGED <<queue, pendingQueue, nextAction>>,
         \A a \in Actions : SameAction(act[a], act'[a])
  PROVE  ActionsKept
<1>1. Listed' = Listed /\ (Distinct => Distinct')
  BY DEF Listed, Distinct
<1> QED
  BY <1>1 DEF ActionsKept

LEMMA RegistryUnchanged ==
  ASSUME UNCHANGED registry
  PROVE  ActionsKept
<1>1. \A a \in Actions : SameAction(act[a], act'[a])
  BY DEF registry, SameAction
<1> QED
  BY <1>1, VectorsUnchanged DEF registry

\* What Insert lists.
LEMMA InsertLists ==
  ASSUME TypeInv, Fresh, NEW a \in Attributes, Insert(a)
  PROVE  /\ nextAction \in Actions /\ nextAction' = nextAction + 1
         /\ act' = [act EXCEPT ![nextAction] = a]
         /\ nextAction \notin Listed
         /\ Listed' = Listed \cup {nextAction}
         /\ Distinct => Distinct'
<1>1. queue \in Seq(Actions) /\ pendingQueue \in Seq(Actions) /\ nextAction \in Nat
  BY DEF TypeInv, RegistryOK
<1>2. nextAction \in Actions
  BY DEF Insert
<1>3. nextAction \notin Range(queue) /\ nextAction \notin Range(pendingQueue)
  BY <1>1 DEF Fresh
<1>4. /\ Range(Append(queue, nextAction)) = Range(queue) \cup {nextAction}
      /\ Range(Append(pendingQueue, nextAction)) = Range(pendingQueue) \cup {nextAction}
  BY <1>1, <1>2, RangeOfAppend
<1>5. /\ IsInjective(queue) => IsInjective(Append(queue, nextAction))
      /\ IsInjective(pendingQueue) => IsInjective(Append(pendingQueue, nextAction))
  BY <1>1, <1>2, <1>3, AppendIsInjective
<1>6. CASE processing
  <2>1. pendingQueue' = Append(pendingQueue, nextAction) /\ queue' = queue
    BY <1>6 DEF Insert
  <2> QED
    BY <1>2, <1>3, <1>4, <1>5, <2>1 DEF Insert, Listed, Distinct
<1>7. CASE ~processing
  <2>1. queue' = Append(queue, nextAction) /\ pendingQueue' = pendingQueue
    BY <1>7 DEF Insert
  <2> QED
    BY <1>2, <1>3, <1>4, <1>5, <2>1 DEF Insert, Listed, Distinct
<1> QED
  BY <1>6, <1>7

LEMMA RegistrationLists ==
  ASSUME TypeInv, NEW t \in Threads, NEW m \in Mods, Registration(t, m)
  PROVE  \/ ActionsKept /\ fired' \subseteq fired /\ nextHandle' = nextHandle
         \/ NewListed(m)
<1>1. CASE \E method \in Methods : ExecuteInGameThread(t, m, method)
  BY <1>1, RegistryUnchanged DEF ExecuteInGameThread, history
<1>2. CASE \E method \in Methods, frames, looping \in BOOLEAN, d \in Delays :
             RegisterDelayed(t, m, method, frames, d, looping)
  <2>1. PICK method \in Methods, frames \in BOOLEAN, looping \in BOOLEAN, d \in Delays :
          RegisterDelayed(t, m, method, frames, d, looping)
    BY <1>2
  <2> DEFINE a == NewAction(m, nextHandle, method, frames /\ d > 0, d, looping)
  <2>2. (frames /\ d > 0) \in BOOLEAN
    OBVIOUS
  <2>3. a \in Attributes /\ a.owner = m /\ a.handle = nextHandle /\ ~a.pauseAfter
    BY <2>1, <2>2, BoundAssumption DEF RegisterDelayed, NewAction, Attributes, Statuses, Handles
  <2>4. Insert(a) /\ nextHandle' = nextHandle + 1 /\ UNCHANGED fired
    BY <2>1 DEF RegisterDelayed, history
  <2> HIDE DEF a
  <2> QED
    BY <2>3, <2>4 DEF NewListed
<1>3. ASSUME NEW h \in Handles, NEW method \in Methods, NEW d \in Delays,
             h < nextHandle, LiveWith(h) = {},
             Insert(NewAction(m, h, method, FALSE, d, FALSE)), UNCHANGED <<nextHandle, fired>>
      PROVE  NewListed(m)
  <2> DEFINE a == NewAction(m, h, method, FALSE, d, FALSE)
  <2>1. a \in Attributes /\ a.owner = m /\ a.handle = h /\ ~a.pauseAfter
    BY BoundAssumption DEF NewAction, Attributes, Statuses, Handles
  <2>2. Insert(a)
    BY <1>3
  <2> HIDE DEF a
  <2> QED
    BY <1>3, <2>1, <2>2 DEF NewListed
<1>4. CASE \E h \in Handles, method \in Methods, d \in Delays :
             ExecuteWithHandle(t, m, h, method, d)
  BY <1>3, <1>4 DEF ExecuteWithHandle, history
<1>5. CASE \E h \in Handles, method \in Methods, d \in Delays :
             Retrigger(t, m, h, method, d)
  <2>1. PICK h \in Handles, method \in Methods, d \in Delays : Retrigger(t, m, h, method, d)
    BY <1>5
  <2>2. CASE LiveWith(h) = {}
    BY <1>3, <2>1, <2>2 DEF Retrigger
  <2>3. CASE LiveWith(h) # {}
    <3> DEFINE a == Selected(LiveWith(h))
    <3>1. /\ act' = [act EXCEPT ![a].status = "Active",
                                ![a].delay = IF act[a].frames THEN @ ELSE d,
                                ![a].left = IF act[a].frames THEN @ ELSE d]
          /\ fired' = fired \ {a}
          /\ UNCHANGED <<queue, pendingQueue, nextAction, nextHandle>>
      BY <2>1, <2>3 DEF Retrigger
    <3> HIDE DEF a
    <3>2. \A b \in Actions : SameAction(act[b], act'[b])
      BY <3>1 DEF SameAction, TypeInv, RegistryOK, Attributes
    <3> QED
      BY <3>1, <3>2, VectorsUnchanged
  <2> QED
    BY <2>2, <2>3
<1> QED
  BY <1>1, <1>2, <1>4, <1>5 DEF Registration

LEMMA ControllingLists ==
  ASSUME TypeInv, NEW t \in Threads, NEW m \in Mods, Controlling(t, m)
  PROVE  ActionsKept /\ fired' \subseteq fired /\ UNCHANGED nextHandle
<1>1. act \in [Actions -> Attributes]
  BY DEF TypeInv, RegistryOK
<1>2. UNCHANGED <<queue, pendingQueue, nextAction, nextHandle>> /\ fired' \subseteq fired
  BY DEF Controlling, ResetDelayedActionTimer, SetDelayedActionTimer, PauseDelayedAction,
         UnpauseDelayedAction, CancelDelayedAction, ClearAllDelayedActions, Control, history
<1>3. ASSUME \A b \in Actions : SameAction(act[b], act'[b])
      PROVE  ActionsKept
  BY <1>2, <1>3, VectorsUnchanged
<1>4. CASE \E h \in Handles : ResetDelayedActionTimer(t, m, h)
  <2>1. PICK a : act' = [act EXCEPT ![a].left = act[a].delay, ![a].status = "Active"]
    BY <1>4 DEF ResetDelayedActionTimer
  <2>2. \A b \in Actions : SameAction(act[b], act'[b])
    BY <1>1, <2>1 DEF SameAction, Attributes
  <2> QED
    BY <1>2, <1>3, <2>2
<1>5. CASE \E h \in Handles : \E d \in Delays : SetDelayedActionTimer(t, m, h, d)
  <2>1. PICK a, d : act' = [act EXCEPT ![a].frames = @ /\ SecondArgument(d) > 0,
                                       ![a].delay = SecondArgument(d),
                                       ![a].left = SecondArgument(d),
                                       ![a].status = "Active"]
    BY <1>5 DEF SetDelayedActionTimer
  <2>2. \A b \in Actions : SameAction(act[b], act'[b])
    BY <1>1, <2>1 DEF SameAction, Attributes
  <2> QED
    BY <1>2, <1>3, <2>2
<1>6. CASE \E h \in Handles : PauseDelayedAction(t, m, h)
  <2>1. PICK h \in Handles : PauseDelayedAction(t, m, h)
    BY <1>6
  <2> DEFINE S == {a \in Owned(m, h, {"Active", "Executing"}) :
                     act[a].status = "Active" \/ act[a].looping}
             a == Selected(S)
  <2>2. S # {}
    BY <2>1 DEF PauseDelayedAction
  <2>3. a \in S /\ a \in Actions
    BY <2>2, SelectedIsMember DEF Owned
  <2>4. \/ act' = [act EXCEPT ![a].status = "Paused"]
        \/ act' = [act EXCEPT ![a].pauseAfter = TRUE] /\ act[a].status # "Active"
    BY <2>1 DEF PauseDelayedAction
  <2>5. act[a].status = "Active" \/ act[a].looping
    BY <2>3
  <2> HIDE DEF a
  <2>6. \A b \in Actions : SameAction(act[b], act'[b])
    BY <1>1, <2>3, <2>4, <2>5 DEF SameAction, Attributes
  <2> QED
    BY <1>2, <1>3, <2>6
<1>7. CASE \E h \in Handles : UnpauseDelayedAction(t, m, h)
  <2>1. PICK a : act' = [act EXCEPT ![a].status = "Active"]
    BY <1>7 DEF UnpauseDelayedAction
  <2>2. \A b \in Actions : SameAction(act[b], act'[b])
    BY <1>1, <2>1 DEF SameAction, Attributes
  <2> QED
    BY <1>2, <1>3, <2>2
<1>8. CASE \E h \in Handles : CancelDelayedAction(t, m, h)
  <2>1. PICK a : act' = [act EXCEPT ![a].status = "PendingRemoval"]
    BY <1>8 DEF CancelDelayedAction
  <2>2. \A b \in Actions : SameAction(act[b], act'[b])
    BY <1>1, <2>1 DEF SameAction, Attributes
  <2> QED
    BY <1>2, <1>3, <2>2
<1>9. CASE ClearAllDelayedActions(t, m)
  <2>1. \A b \in Actions : SameAction(act[b], act'[b])
    BY <1>1, <1>9 DEF ClearAllDelayedActions, SameAction, Attributes
  <2> QED
    BY <1>2, <1>3, <2>1
<1> QED
  BY <1>4, <1>5, <1>6, <1>7, <1>8, <1>9 DEF Controlling

\* A pass collects, settles and merges what is listed.
LEMMA PassStepLists ==
  ASSUME TypeInv, NEW t \in Threads, PassStep(t)
  PROVE  ActionsKept
<1>1. /\ act \in [Actions -> Attributes]
      /\ queue \in Seq(Actions) /\ pendingQueue \in Seq(Actions)
  BY DEF TypeInv, RegistryOK
<1>2. CASE UNCHANGED registry
  BY <1>2, RegistryUnchanged
<1>3. CASE CollectReady(t)
  <2>1. UNCHANGED <<queue, pendingQueue, nextAction>>
    BY <1>3 DEF CollectReady
  <2>2. \A a \in Actions : SameAction(act[a], act'[a])
    BY <1>1, <1>3 DEF CollectReady, SameAction, Attributes
  <2> QED
    BY <2>1, <2>2, VectorsUnchanged
<1>4. CASE SettleReady(t)
  <2>1. \A a \in Actions : SameAction(act[a], act'[a])
    <3>1. \A a \in Attributes : SameAction(a, Settled(a)) /\ SameAction(a, a)
      BY DEF Settled, SameAction, Attributes
    <3> QED
      BY <1>1, <1>4, <3>1 DEF SettleReady
  <2>2. PICK D : queue' = Without(queue, D)
    BY <1>4 DEF SettleReady
  <2>3. pendingQueue' = pendingQueue /\ nextAction' = nextAction
    BY <1>4 DEF SettleReady
  <2>4. Range(queue') \subseteq Range(queue)
    BY <1>1, <2>2, WithoutIsASequence
  <2>5. IsInjective(queue) => IsInjective(queue')
    BY <1>1, <2>2, WithoutIsInjective
  <2> QED
    BY <2>1, <2>3, <2>4, <2>5 DEF ActionsKept, Listed, Distinct
<1>5. CASE MergePending(t)
  <2>1. queue' = queue \o pendingQueue /\ pendingQueue' = <<>> /\ UNCHANGED <<act, nextAction>>
    BY <1>5 DEF MergePending
  <2>2. Listed' = Listed
    BY <1>1, <2>1, RangeConcatenation, RangeOfEmpty DEF Listed
  <2>3. Distinct => Distinct'
    <3>1. Distinct => IsInjective(queue')
      BY <1>1, <2>1, ConcatIsInjective DEF Distinct
    <3>2. IsInjective(pendingQueue')
      BY <2>1 DEF IsInjective
    <3>3. Range(pendingQueue') = {}
      BY <2>1, RangeOfEmpty
    <3> QED
      BY <3>1, <3>2, <3>3 DEF Distinct
  <2> QED
    BY <2>1, <2>2, <2>3 DEF ActionsKept, SameAction
<1> QED
  BY <1>2, <1>3, <1>4, <1>5
     DEF PassStep, TakeSimple, DeferSimple, CheckSimple, EnterSimple, LeaveSimple,
         RequeueDeferred, CheckDelayed, EnterDelayed, LeaveDelayed

LEMMA TickLists ==
  ASSUME TypeInv, Tick
  PROVE  ActionsKept
<1>1. UNCHANGED <<queue, pendingQueue, nextAction>>
  BY DEF Tick
<1>2. \A a \in Actions : SameAction(act[a], act'[a])
  BY DEF Tick, TypeInv, RegistryOK, Attributes, SameAction
<1> QED
  BY <1>1, <1>2, VectorsUnchanged

\* Every step keeps what is listed, but for what a call registers.
LEMMA StepLists ==
  ASSUME TypeInv, [Next]_vars
  PROVE  ActionsKept \/ \E m \in Mods : NewListed(m)
<1>1. CASE EngineTickHook \/ \E t \in Threads : ProcessEventHook(t)
  BY <1>1, RegistryUnchanged DEF EngineTickHook, ProcessEventHook, Begin
<1>2. CASE \E t \in Threads : MakeActionHandleRead(t) \/ MakeActionHandleWrite(t)
  BY <1>2, RegistryUnchanged DEF MakeActionHandleRead, MakeActionHandleWrite
<1>3. CASE UNCHANGED vars
  BY <1>3, RegistryUnchanged DEF vars, registry
<1> QED
  BY <1>1, <1>2, <1>3, PassStepLists, TickLists, RegistrationLists, ControllingLists DEF Next

\* The invariant: what is registered is listed once at most, and a one-shot action is
\* never told to pause after its callback.
ListInv ==
  /\ Distinct
  /\ \A a \in Actions : act[a].pauseAfter => act[a].looping

LEMMA ListInvInductive ==
  /\ Init => ListInv
  /\ TypeInv /\ Fresh /\ ListInv /\ [Next]_vars => ListInv'
<1>1. Init => ListInv
  BY RangeOfEmpty DEF Init, ListInv, Distinct, IsInjective, Unregistered, NewAction
<1>2. ASSUME TypeInv, Fresh, ListInv, [Next]_vars
      PROVE  ListInv'
  <2>1. CASE ActionsKept
    BY <1>2, <2>1 DEF ListInv, ActionsKept, SameAction
  <2>2. CASE \E m \in Mods : NewListed(m)
    <3>1. PICK a \in Attributes : Insert(a) /\ ~a.pauseAfter
      BY <2>2 DEF NewListed
    <3>2. Distinct' /\ act' = [act EXCEPT ![nextAction] = a]
      BY <1>2, <3>1, InsertLists DEF ListInv
    <3> QED
      BY <1>2, <3>1, <3>2 DEF ListInv, TypeInv, RegistryOK
  <2> QED
    BY <1>2, <2>1, <2>2, StepLists
<1> QED
  BY <1>1, <1>2

\* No delayed action is listed twice, in one vector or in both, whatever the threads, the
\* hooks and the nesting: no merge and no settling duplicates one.
THEOREM NoActionTwice == Spec => []Distinct
<1>1. ListInv => Distinct
  BY DEF ListInv
<1> QED
  BY <1>1, TypeInvInductive, FreshInductive, ListInvInductive, PTL DEF Spec

-----------------------------------------------------------------------------
(* With the engine tick as the only hook, passes do not overlap, and what   *)
(* stage 1 recorded still holds in stage 3.                                *)

\* The entries of the only pass.
Ready == IF stack[GameThread] = <<>> THEN {} ELSE Top(GameThread).ready

OnePass ==
  \A t \in Threads : stack[t] # <<>> => t = GameThread /\ Len(stack[t]) = 1

\* Each entry designates its action, whose reference is not released ...
EntriesHold ==
  \A e \in Ready : e.index <= Len(queue) /\ queue[e.index] = e.id /\ e.id \notin freed

\* ... every executing action has an entry ...
ExecutingHasEntry ==
  \A a \in Actions : act[a].status = "Executing" => \E e \in Ready : e.id = a

\* ... and only cancelled actions are released.
FreedIsCancelled == \A a \in freed : act[a].status = "PendingRemoval"

TickInv ==
  TypeInv /\ Fresh /\ OnePass /\ EntriesHold /\ ExecutingHasEntry /\ FreedIsCancelled

LEMMA ReadyAreEntries ==
  ASSUME TypeInv
  PROVE  Ready \subseteq Entries
<1>1. stack[GameThread] # <<>> => Top(GameThread) \in ProperFrames
  BY TopIsProper, ThreadAssumption DEF TypeInv
<1> QED
  BY <1>1 DEF Ready, ProperFrames, Frames

LEMMA TickInvImplies ==
  ASSUME TickInv
  PROVE  IndicesStable /\ ExecutingIsInAPass /\ ReadyReferencesLive
<1>1. \A t \in Threads : stack[t] \in Seq(ProperFrames) /\ Len(stack[t]) \in Nat
                       /\ Len(stack[t]) <= MaxDepth
  BY LenProperties DEF TickInv, TypeInv, StackOK
<1>2. ASSUME NEW p \in Passes
      PROVE  PassOf(p).ready = Ready
  <2>1. p[1] \in Threads /\ p[2] \in 1 .. Len(stack[p[1]])
    BY <1>1, <1>2 DEF Passes
  <2>2. stack[p[1]] # <<>>
    BY <2>1, EmptySeq
  <2>3. p[1] = GameThread /\ p[2] = 1
    <3>1. p[1] = GameThread /\ Len(stack[p[1]]) = 1
      BY <2>1, <2>2 DEF TickInv, OnePass
    <3> QED
      BY <2>1, <3>1
  <2> QED
    BY <2>2, <2>3 DEF PassOf, Ready, Top
<1>3. IndicesStable /\ ReadyReferencesLive
  BY <1>2 DEF IndicesStable, ReadyReferencesLive, TickInv, EntriesHold
<1>4. ExecutingIsInAPass
  <2> SUFFICES ASSUME NEW a \in Actions, act[a].status = "Executing"
               PROVE  \E p \in Passes : \E e \in PassOf(p).ready : e.id = a
    BY DEF ExecutingIsInAPass
  <2>1. PICK e \in Ready : e.id = a
    BY DEF TickInv, ExecutingHasEntry
  <2>2. stack[GameThread] # <<>>
    BY <2>1 DEF Ready
  <2>3. Len(stack[GameThread]) = 1
    BY <2>2, ThreadAssumption DEF TickInv, OnePass
  <2>4. <<GameThread, 1>> \in Passes
    <3>1. Len(stack[GameThread]) <= MaxDepth
      BY <1>1, ThreadAssumption
    <3>2. 1 \in 1 .. MaxDepth
      BY <2>3, <3>1, BoundAssumption
    <3>3. <<GameThread, 1>> \in Threads \X (1 .. MaxDepth)
      BY <3>2, ThreadAssumption
    <3>4. 1 <= Len(stack[GameThread])
      BY <2>3
    <3> QED
      BY <3>3, <3>4 DEF Passes
  <2>5. PassOf(<<GameThread, 1>>).ready = Ready
    BY <1>2, <2>4
  <2> QED
    BY <2>1, <2>4, <2>5
<1> QED
  BY <1>3, <1>4

\* A call leaves the entries, and what they designate, alone.
LEMMA CallKeepsTickInv ==
  ASSUME TickInv, TypeInv', CallEffect
  PROVE  TickInv'
<1>1. Ready' = Ready /\ Ready \subseteq Entries
  BY ReadyAreEntries DEF TickInv, Ready, Top, CallEffect
<1>2. OnePass' /\ Fresh'
  BY DEF TickInv, OnePass, CallEffect
<1>3. EntriesHold'
  <2>1. Len(queue) \in Nat /\ Len(queue') \in Nat
    BY LenProperties DEF TickInv, TypeInv, RegistryOK
  <2>2. ASSUME NEW e \in Ready
        PROVE  e.index \in 1 .. Len(queue)
    BY <1>1, <2>1 DEF TickInv, EntriesHold, Entries, Actions
  <2> QED
    BY <1>1, <2>1, <2>2 DEF TickInv, EntriesHold, CallEffect, IndicesKept
<1>4. ExecutingHasEntry'
  BY <1>1 DEF TickInv, ExecutingHasEntry, CallEffect, NoneCollected
<1>5. FreedIsCancelled'
  BY DEF TickInv, FreedIsCancelled, CallEffect, CancelStep, TypeInv, HistoryOK
<1> QED
  BY <1>2, <1>3, <1>4, <1>5 DEF TickInv

\* Replacing the innermost pass of a thread replaces the only one.
LEMMA OnlyPassReplaced ==
  ASSUME TickInv, TypeInv', NEW t \in Threads, stack[t] # <<>>, NEW g, SetTop(t, g)
  PROVE  /\ OnePass' /\ Ready' = g.ready
         /\ t = GameThread /\ stack'[t] # <<>> /\ stack'[t][1] = g
<1>1. /\ stack \in [Threads -> Seq(ProperFrames)]
      /\ \A u \in Threads : stack[u] \in Seq(ProperFrames) /\ stack'[u] \in Seq(ProperFrames)
  BY DEF TickInv, TypeInv, StackOK
<1>2. t = GameThread /\ Len(stack[t]) = 1
  BY DEF TickInv, OnePass
<1>3. g \in ProperFrames
  <2>1. DOMAIN stack[t] = 1 .. Len(stack[t])
    BY <1>1, LenProperties
  <2>2. stack'[t] = [stack[t] EXCEPT ![1] = g]
    BY <1>1 DEF SetTop
  <2>3. 1 \in DOMAIN stack'[t] /\ stack'[t][1] = g
    BY <1>2, <2>1, <2>2
  <2>4. DOMAIN stack'[t] = 1 .. Len(stack'[t])
    BY <1>1, LenProperties
  <2> QED
    BY <1>1, <2>3, <2>4, ElementOfSeq
<1>4. /\ \A u \in Threads : Len(stack'[u]) = Len(stack[u])
      /\ \A u \in Threads : \A i \in 1 .. Len(stack[u]) :
           stack'[u][i] = IF u = t /\ i = 1 THEN g ELSE stack[u][i]
  BY <1>3, SetTopIsProper DEF TickInv, TypeInv
<1>5. \A u \in Threads : stack'[u] # <<>> <=> stack[u] # <<>>
  BY <1>1, <1>4, EmptySeq
<1>6. Ready' = g.ready
  BY <1>2, <1>4, <1>5 DEF Ready, Top
<1>7. OnePass'
  BY <1>4, <1>5 DEF TickInv, OnePass
<1>8. stack'[t] # <<>> /\ stack'[t][1] = g
  BY <1>2, <1>4, <1>5
<1> QED
  BY <1>2, <1>6, <1>7, <1>8

LEMMA PassStepKeepsTickInv ==
  ASSUME TickInv, NEW t \in Threads, PassStep(t)
  PROVE  TickInv'
<1> DEFINE f == Top(t)
<1>1. TypeInv' /\ Fresh' /\ CancelStep
  BY PassStepKeepsTypes, PassStepEffect, Zenon DEF TickInv
<1>2. stack[t] # <<>>
  BY DEF PassStep, TakeSimple, DeferSimple, CheckSimple, EnterSimple, LeaveSimple,
         RequeueDeferred, CollectReady, CheckDelayed, EnterDelayed,
         LeaveDelayed, SettleReady, MergePending, At
<1>3. /\ t = GameThread /\ Len(stack[t]) = 1
      /\ f \in ProperFrames
      /\ Ready = f.ready
  BY <1>2, TopIsProper DEF TickInv, OnePass, TypeInv, Ready
<1>4. f \in Frames
  BY <1>3 DEF ProperFrames
<1>5. /\ act \in [Actions -> Attributes]
      /\ queue \in Seq(Actions)
      /\ Len(queue) \in Nat
      /\ DOMAIN queue = 1 .. Len(queue)
  BY LenProperties DEF TickInv, TypeInv, RegistryOK
<1>6. CASE /\ UNCHANGED <<registry, freed>>
           /\ \E g : SetTop(t, g) /\ g.ready = f.ready
  <2>1. PICK g : SetTop(t, g) /\ g.ready = f.ready
    BY <1>6
  <2>2. OnePass' /\ Ready' = Ready
    BY <1>1, <1>2, <1>3, <2>1, OnlyPassReplaced
  <2> QED
    BY <1>1, <1>6, <2>2
       DEF TickInv, EntriesHold, ExecutingHasEntry, FreedIsCancelled, registry
<1>7. CASE CollectReady(t)
  <2> DEFINE due == {[index |-> i, id |-> queue[i]] :
                       i \in {j \in DOMAIN queue : queue[j] \in Due(f.exec)}}
             g == [f EXCEPT !.pc = "delayed", !.ready = due, !.unrun = due]
  <2>1. SetTop(t, g) /\ f.pc = "collect"
    BY <1>7 DEF CollectReady, At
  <2>2. Ready = {}
    BY <1>3, <2>1 DEF ProperFrames
  <2>4. g.ready = due
    BY <1>4 DEF Frames
  <2>5. OnePass' /\ Ready' = due
    BY <1>1, <1>2, <2>1, <2>4, OnlyPassReplaced
  <2>6. /\ UNCHANGED <<queue, freed>>
        /\ act' = [a \in Actions |->
                      IF a \in Eligible(f.exec)
                      THEN [act[a] EXCEPT !.left = CountedDown(a),
                                          !.status = IF a \in Due(f.exec) THEN "Executing" ELSE @]
                      ELSE act[a]]
    BY <1>7 DEF CollectReady, history
  <2>7. EntriesHold'
    <3>1. \A a \in Due(f.exec) : act[a].status = "Active"
      BY DEF Due, Eligible
    <3>2. \A a \in Due(f.exec) : a \notin freed
      BY <3>1 DEF TickInv, FreedIsCancelled
    <3>3. \A e \in due : e.index \in DOMAIN queue /\ e.id = queue[e.index] /\ e.id \in Due(f.exec)
      OBVIOUS
    <3>4. UNCHANGED queue /\ UNCHANGED freed
      BY <2>6
    <3> HIDE DEF due, g
    <3>5. \A e \in Ready' : /\ e.index <= Len(queue')
                            /\ queue'[e.index] = e.id
                            /\ e.id \notin freed'
      BY <1>5, <2>5, <3>2, <3>3, <3>4
    <3> QED
      BY <3>5 DEF EntriesHold
  <2>8. ExecutingHasEntry'
    <3> SUFFICES ASSUME NEW a \in Actions, act'[a].status = "Executing"
                 PROVE  \E e \in due : e.id = a
      BY <2>5 DEF ExecutingHasEntry
    <3>1. act[a].status # "Executing"
      BY <2>2 DEF TickInv, ExecutingHasEntry
    <3>2. a \in Due(f.exec)
      <4>1. act[a] \in Attributes
        BY <1>5
      <4> QED
        BY <2>6, <3>1, <4>1 DEF Attributes
    <3>3. PICK i \in DOMAIN queue : queue[i] = a
      BY <3>2 DEF Due, Eligible, Range
    <3>4. [index |-> i, id |-> queue[i]] \in due
      BY <3>2, <3>3
    <3>5. [index |-> i, id |-> queue[i]].id = a
      BY <3>3
    <3> HIDE DEF due
    <3> QED
      BY <3>4, <3>5
  <2>9. FreedIsCancelled'
    BY <1>1, <2>6 DEF TickInv, FreedIsCancelled, CancelStep, TypeInv, HistoryOK
  <2> QED
    BY <1>1, <2>5, <2>7, <2>8, <2>9 DEF TickInv
<1>8. CASE SettleReady(t)
  <2> DEFINE touched == {queue[e.index] : e \in {r \in f.ready : InRange(r)}}
             g == [f EXCEPT !.pc = "merge", !.ready = {}]
  <2>1. /\ SetTop(t, g)
        /\ act' = [a \in Actions |-> IF a \in touched THEN Settled(act[a]) ELSE act[a]]
    BY <1>8 DEF SettleReady
  <2>2. PICK D \in SUBSET Actions : /\ freed' = freed \cup D
                                   /\ \A a \in D : act'[a].status = "PendingRemoval"
    <3>1. Range(queue) \subseteq Actions
      BY <1>5, ElementOfSeq DEF Range
    <3> QED
      BY <1>8, <3>1 DEF SettleReady
  <2>4. g.ready = {}
    BY <1>4 DEF Frames
  <2>5. OnePass' /\ Ready' = {}
    BY <1>1, <1>2, <2>1, <2>4, OnlyPassReplaced
  <2>6. ExecutingHasEntry'
    <3> SUFFICES ASSUME NEW a \in Actions
                 PROVE  act'[a].status # "Executing"
      BY DEF ExecutingHasEntry
    <3>1. act[a] \in Attributes
      BY <1>5
    <3>2. CASE a \in touched
      BY <2>1, <3>1, <3>2, SettledKeepsCancelled
    <3>3. CASE a \notin touched
      <4>1. act[a].status # "Executing"
        <5> SUFFICES ASSUME act[a].status = "Executing"
                     PROVE  FALSE
          OBVIOUS
        <5>1. PICK e \in f.ready : e.id = a
          BY <1>3 DEF TickInv, ExecutingHasEntry
        <5>2. e.index <= Len(queue) /\ queue[e.index] = a
          BY <1>3, <5>1 DEF TickInv, EntriesHold
        <5> QED
          BY <3>3, <5>1, <5>2 DEF InRange
      <4> QED
        BY <2>1, <3>3, <4>1
    <3> QED
      BY <3>2, <3>3
  <2>7. EntriesHold'
    BY <2>5 DEF EntriesHold
  <2>8. FreedIsCancelled'
    BY <1>1, <2>2 DEF TickInv, FreedIsCancelled, CancelStep, TypeInv, HistoryOK
  <2> QED
    BY <1>1, <2>5, <2>6, <2>7, <2>8 DEF TickInv
<1>9. CASE MergePending(t)
  <2>1. /\ f.pc = "merge"
        /\ stack' = [stack EXCEPT ![t] = Tail(@)]
        /\ UNCHANGED <<act, freed>>
    BY <1>9 DEF MergePending, At, history
  <2>2. Ready = {}
    BY <1>3, <2>1 DEF ProperFrames
  <2>3. \A u \in Threads : stack'[u] = <<>>
    <3>1. stack[t] \in Seq(ProperFrames) /\ stack \in [Threads -> Seq(ProperFrames)]
      BY DEF TickInv, TypeInv, StackOK
    <3>2. Tail(stack[t]) \in Seq(ProperFrames) /\ Len(Tail(stack[t])) = 0
      BY <1>2, <1>3, <3>1, HeadTailProperties
    <3>3. Tail(stack[t]) = <<>>
      BY <3>2, EmptySeq
    <3> QED
      BY <1>3, <2>1, <3>1, <3>3 DEF TickInv, OnePass
  <2>4. Ready' = {} /\ OnePass'
    BY <2>3, ThreadAssumption DEF Ready, OnePass
  <2> QED
    BY <1>1, <2>1, <2>2, <2>4
       DEF TickInv, EntriesHold, ExecutingHasEntry, FreedIsCancelled
<1>10. \A pc \in Stages : [f EXCEPT !.pc = pc].ready = f.ready
  BY <1>4 DEF Frames
<1>11. CASE /\ UNCHANGED <<registry, freed>>
            /\ \/ Goto(t, "enterSimple") \/ Goto(t, "callSimple")
               \/ Goto(t, "enterDelayed") \/ Goto(t, "callDelayed") \/ Goto(t, "thrown")
  BY <1>6, <1>10, <1>11 DEF Goto, Stages
<1>12. CASE CheckSimple(t) \/ EnterSimple(t) \/ EnterDelayed(t)
  BY <1>11, <1>12 DEF CheckSimple, EnterSimple, EnterDelayed, history
<1>13. CASE TakeSimple(t)
  <2>1. [f EXCEPT !.pc = "simple", !.todo = simple[f.exec]].ready = f.ready
    BY <1>4 DEF Frames
  <2> QED
    BY <1>6, <1>13, <2>1 DEF TakeSimple, history
<1>14. CASE DeferSimple(t)
  <2>1. [f EXCEPT !.deferred = Append(@, Head(f.todo)), !.todo = Tail(@)].ready = f.ready
    BY <1>4 DEF Frames
  <2> QED
    BY <1>6, <1>14, <2>1 DEF DeferSimple, history
<1>15. CASE LeaveSimple(t)
  <2>1. [f EXCEPT !.pc = "simple", !.todo = Tail(@)].ready = f.ready
    BY <1>4 DEF Frames
  <2> QED
    BY <1>6, <1>15, <2>1 DEF LeaveSimple
<1>16. CASE RequeueDeferred(t)
  <2>1. [f EXCEPT !.pc = "collect", !.deferred = <<>>].ready = f.ready
    BY <1>4 DEF Frames
  <2> QED
    BY <1>6, <1>16, <2>1 DEF RequeueDeferred, history
<1>17. CASE CheckDelayed(t)
  <2>1. /\ [f EXCEPT !.unrun = @ \ {Current(f)}].ready = f.ready
        /\ [f EXCEPT !.pc = "enterDelayed"].ready = f.ready
    BY <1>4 DEF Frames
  <2>2. CASE executing
    BY <1>6, <1>17, <2>1, <2>2 DEF CheckDelayed, history
  <2>3. CASE ~executing
    BY <1>6, <1>17, <2>1, <2>3 DEF CheckDelayed, Goto, history
  <2> QED
    BY <2>2, <2>3
<1>18. CASE LeaveDelayed(t)
  <2>1. [f EXCEPT !.pc = "delayed", !.unrun = @ \ {Current(f)}].ready = f.ready
    BY <1>4 DEF Frames
  <2> QED
    BY <1>6, <1>18, <2>1 DEF LeaveDelayed, history
<1> QED
  BY <1>7, <1>8, <1>9, <1>12, <1>13, <1>14, <1>15, <1>16, <1>17, <1>18 DEF PassStep

LEMMA TickInvInductive ==
  ASSUME "ProcessEvent" \notin Available
  PROVE  /\ Init => TickInv
         /\ TickInv /\ [Next]_vars => TickInv'
<1>1. Init => TickInv
  <2> SUFFICES ASSUME Init
               PROVE  TickInv
    OBVIOUS
  <2>1. TypeInv /\ Fresh
    BY TypeInvInductive, FreshInductive
  <2>2. OnePass /\ Ready = {}
    BY ThreadAssumption DEF Init, OnePass, Ready
  <2>3. ExecutingHasEntry
    BY DEF Init, ExecutingHasEntry, Unregistered, NewAction
  <2>4. EntriesHold /\ FreedIsCancelled
    BY <2>2 DEF Init, EntriesHold, FreedIsCancelled
  <2> QED
    BY <2>1, <2>2, <2>3, <2>4 DEF TickInv
<1>2. ASSUME TickInv, [Next]_vars
      PROVE  TickInv'
  <2>1. TypeInv' /\ Fresh' /\ CancelStep
    BY <1>2, TypeInvInductive, FreshInductive DEF TickInv
  <2>2. CASE EngineTickHook
    <3>1. PICK g : g.ready = {} /\ stack' = [stack EXCEPT ![GameThread] = <<g>> \o @]
      BY <2>2 DEF EngineTickHook, Begin
    <3>2. stack[GameThread] = <<>> /\ stack \in [Threads -> Seq(ProperFrames)]
      BY <1>2, <2>2 DEF EngineTickHook, TickInv, TypeInv, StackOK
    <3>3. stack'[GameThread] = <<g>> /\ \A u \in Threads \ {GameThread} : stack'[u] = stack[u]
      BY <3>1, <3>2, ThreadAssumption
    <3>4. OnePass' /\ Ready' = {}
      BY <1>2, <3>1, <3>3, ThreadAssumption DEF TickInv, OnePass, Ready, Top
    <3>5. UNCHANGED <<registry, freed>> /\ Ready = {}
      BY <2>2, <3>2 DEF EngineTickHook, Begin, history, Ready
    <3> QED
      BY <1>2, <2>1, <3>4, <3>5
         DEF TickInv, EntriesHold, ExecutingHasEntry, FreedIsCancelled, registry
  <2>3. ASSUME NEW t \in Threads, ProcessEventHook(t)
        PROVE  TickInv'
    BY <2>3 DEF ProcessEventHook, Begin
  <2>4. ASSUME NEW t \in Threads, PassStep(t)
        PROVE  TickInv'
    BY <1>2, <2>4, PassStepKeepsTickInv
  <2>5. ASSUME UNCHANGED <<registry, freed, stack>>
        PROVE  TickInv'
    BY <1>2, <2>1, <2>5
       DEF TickInv, OnePass, EntriesHold, ExecutingHasEntry, FreedIsCancelled, Ready, Top,
           registry
  <2>6. ASSUME NEW t \in Threads, MakeActionHandleRead(t) \/ MakeActionHandleWrite(t)
        PROVE  TickInv'
    BY <2>5, <2>6 DEF MakeActionHandleRead, MakeActionHandleWrite, history
  <2>7. ASSUME NEW t \in Threads, NEW m \in Mods, Registration(t, m) \/ Controlling(t, m)
        PROVE  TickInv'
    BY <1>2, <2>1, <2>7, RegistrationEffect, ControllingEffect, CallKeepsTickInv DEF TickInv
  <2>8. CASE Tick
    BY <1>2, <2>1, <2>8, TickEffect, CallKeepsTickInv DEF TickInv
  <2>9. CASE UNCHANGED vars
    BY <2>5, <2>9 DEF vars, registry
  <2> QED
    BY <1>2, <2>2, <2>3, <2>4, <2>6, <2>7, <2>8, <2>9 DEF Next
<1> QED
  BY <1>1, <1>2

\* When ProcessEvent is not hooked, stage 3 settles the very actions that stage 1
\* collected, none of them is left executing by a pass that is over, and no
\* callback is called through a released reference, whatever the mods register,
\* cancel and re-arm from callbacks and from other threads.
THEOREM EngineTickOnlyIsSafe ==
  ASSUME "ProcessEvent" \notin Available
  PROVE  Spec => [](IndicesStable /\ ExecutingIsInAPass /\ ReadyReferencesLive)
<1>1. Init => TickInv
  BY TickInvInductive
<1>2. TickInv /\ [Next]_vars => TickInv'
  BY TickInvInductive
<1>3. TickInv => IndicesStable /\ ExecutingIsInAPass /\ ReadyReferencesLive
  BY TickInvImplies
<1> QED
  BY <1>1, <1>2, <1>3, PTL DEF Spec

\* So no action is left executing that no pass will settle ...
THEOREM ExecutingIsSettled ==
  ASSUME "ProcessEvent" \notin Available
  PROVE  Spec => []ExecutingIsInAPass
BY EngineTickOnlyIsSafe, PTL

\* ... and no callback is called through a reference that was released.
THEOREM ReferencesStayLive ==
  ASSUME "ProcessEvent" \notin Available
  PROVE  Spec => []ReadyReferencesLive
BY EngineTickOnlyIsSafe, PTL

-----------------------------------------------------------------------------
(* There, too, simple actions run in the order of their registrations.     *)

\* The simple actions that the only pass holds.
Held == IF stack[GameThread] = <<>> THEN <<>> ELSE Top(GameThread).todo

\* All simple actions, from the first that ran to the last that was registered: no step
\* of a pass changes this line, and a registration appends to it.
Line == ran \o (Held \o (simple["EngineTick"] \o pendingSimple["EngineTick"]))

LineOK ==
  \A i \in DOMAIN Line :
    /\ Line[i] < nextSimple
    /\ \A j \in 1 .. i - 1 : Line[j] < Line[i]

CallStages == {"callSimple", "callDelayed"}

\* A pass that is alone never has to defer, and never throws.
FrameShape(f) ==
  /\ f.exec = "EngineTick" /\ f.deferred = <<>> /\ f.pc # "thrown"
  /\ f.pc \notin {"simple", "enterSimple", "callSimple"} => f.todo = <<>>

\* The flags say what the only pass is doing, and only a pass makes an action wait.
PassShape ==
  /\ executing <=> stack[GameThread] # <<>> /\ Top(GameThread).pc \in CallStages
  /\ processing <=> stack[GameThread] # <<>>
  /\ ~processing => pendingSimple["EngineTick"] = <<>>
  /\ stack[GameThread] # <<>> => FrameShape(Top(GameThread))

LEMMA LineTypes ==
  ASSUME TypeInv
  PROVE  /\ ran \in Seq(SimpleActions)
         /\ Held \in Seq(SimpleActions)
         /\ simple["EngineTick"] \in Seq(SimpleActions)
         /\ pendingSimple["EngineTick"] \in Seq(SimpleActions)
         /\ simple["EngineTick"] \o pendingSimple["EngineTick"] \in Seq(SimpleActions)
         /\ Held \o (simple["EngineTick"] \o pendingSimple["EngineTick"]) \in Seq(SimpleActions)
         /\ Line \in Seq(SimpleActions)
<1>1. /\ ran \in Seq(SimpleActions)
      /\ simple["EngineTick"] \in Seq(SimpleActions)
      /\ pendingSimple["EngineTick"] \in Seq(SimpleActions)
  BY DEF TypeInv, HistoryOK, SimplesOK, Methods
<1>2. Held \in Seq(SimpleActions)
  <2>1. stack[GameThread] # <<>> => Top(GameThread) \in Frames
    BY TopIsProper, ThreadAssumption DEF TypeInv, ProperFrames
  <2>2. \A g \in Frames : g.todo \in Seq(SimpleActions)
    BY DEF Frames
  <2>3. <<>> \in Seq(SimpleActions)
    BY EmptySeq
  <2> QED
    BY <2>1, <2>2, <2>3 DEF Held
<1>3. simple["EngineTick"] \o pendingSimple["EngineTick"] \in Seq(SimpleActions)
  BY <1>1, ConcatProperties
<1>4. Held \o (simple["EngineTick"] \o pendingSimple["EngineTick"]) \in Seq(SimpleActions)
  BY <1>2, <1>3, ConcatProperties
<1>5. Line \in Seq(SimpleActions)
  BY <1>1, <1>4, ConcatProperties DEF Line
<1> QED
  BY <1>1, <1>2, <1>3, <1>4, <1>5

LEMMA LineExtends ==
  ASSUME TypeInv, LineOK, nextSimple \in SimpleActions,
         Line' = Append(Line, nextSimple), nextSimple' = nextSimple + 1
  PROVE  LineOK'
<1>1. Line \in Seq(SimpleActions) /\ Len(Line) \in Nat /\ DOMAIN Line = 1 .. Len(Line)
  BY LineTypes, LenProperties
<1>2. /\ DOMAIN Append(Line, nextSimple) = 1 .. Len(Line) + 1
      /\ \A i \in 1 .. Len(Line) : Append(Line, nextSimple)[i] = Line[i]
      /\ Append(Line, nextSimple)[Len(Line) + 1] = nextSimple
  BY <1>1, AppendProperties, LenProperties
<1>3. /\ DOMAIN Line' = 1 .. Len(Line) + 1
      /\ \A i \in 1 .. Len(Line) : Line'[i] = Line[i]
      /\ Line'[Len(Line) + 1] = nextSimple
  BY <1>2
<1>4. \A i \in 1 .. Len(Line) : Line[i] \in Nat
  <2>1. \A i \in 1 .. Len(Line) : Line[i] \in SimpleActions
    BY <1>1, ElementOfSeq
  <2> QED
    BY <2>1, BoundAssumption DEF SimpleActions
<1>5. nextSimple \in Nat
  BY DEF SimpleActions
<1>6. ASSUME NEW i \in 1 .. Len(Line) + 1
      PROVE  Line'[i] < nextSimple' /\ \A j \in 1 .. i - 1 : Line'[j] < Line'[i]
  <2>1. CASE i \in 1 .. Len(Line)
    <3>1. Line[i] < nextSimple /\ \A j \in 1 .. i - 1 : Line[j] < Line[i]
      BY <1>1, <2>1 DEF LineOK
    <3>2. \A j \in 1 .. i - 1 : j \in 1 .. Len(Line)
      BY <1>1, <2>1
    <3> QED
      BY <1>3, <1>4, <1>5, <2>1, <3>1, <3>2
  <2>2. CASE i = Len(Line) + 1
    <3>1. \A j \in 1 .. i - 1 : j \in 1 .. Len(Line)
      BY <1>1, <2>2
    <3>2. \A j \in 1 .. Len(Line) : Line[j] < nextSimple
      BY <1>1 DEF LineOK
    <3> QED
      BY <1>3, <1>5, <2>2, <3>1, <3>2
  <2> QED
    BY <1>1, <2>1, <2>2
<1> QED
  BY <1>3, <1>6 DEF LineOK

LEMMA LineStays ==
  ASSUME LineOK, Line' = Line, nextSimple' = nextSimple
  PROVE  LineOK'
BY DEF LineOK

\* Replacing the only pass keeps the shape if the new one has it.
LEMMA PassReplaced ==
  ASSUME TickInv, TypeInv', PassShape, NEW t \in Threads, stack[t] # <<>>,
         NEW g, SetTop(t, g), FrameShape(g), executing' <=> g.pc \in CallStages,
         processing' = processing
  PROVE  PassShape' /\ Held' = g.todo
<1>1. t = GameThread /\ stack'[t] # <<>> /\ stack'[t][1] = g
  BY OnlyPassReplaced
<1>2. stack'[GameThread] # <<>> /\ Top(GameThread)' = g
  BY <1>1 DEF Top
<1>3. processing
  BY <1>1 DEF PassShape
<1> QED
  BY <1>2, <1>3 DEF PassShape, Held

\* A pass moves along the line.
LEMMA PassStepKeepsLine ==
  ASSUME TickInv, PassShape, LineOK, NEW t \in Threads, PassStep(t)
  PROVE  PassShape' /\ LineOK'
<1> DEFINE f == Top(t)
           s == simple["EngineTick"]
           p == pendingSimple["EngineTick"]
<1>1. TypeInv' /\ TypeInv
  BY PassStepKeepsTypes, Zenon DEF TickInv
<1>2. stack[t] # <<>>
  BY DEF PassStep, TakeSimple, DeferSimple, CheckSimple, EnterSimple, LeaveSimple,
         RequeueDeferred, CollectReady, CheckDelayed, EnterDelayed,
         LeaveDelayed, SettleReady, MergePending, At
<1>3. /\ t = GameThread /\ Len(stack[t]) = 1
      /\ f \in ProperFrames /\ f \in Frames
      /\ Ready = f.ready /\ Held = f.todo
  BY <1>1, <1>2, TopIsProper DEF TickInv, OnePass, TypeInv, Ready, ProperFrames, Held
<1>4. FrameShape(f) /\ processing /\ (executing <=> f.pc \in CallStages)
  BY <1>2, <1>3 DEF PassShape
<1>5. /\ ran \in Seq(SimpleActions)
      /\ f.todo \in Seq(SimpleActions)
      /\ s \in Seq(SimpleActions)
      /\ p \in Seq(SimpleActions)
      /\ s \o p \in Seq(SimpleActions)
  BY <1>1, <1>3, LineTypes
<1>6. Line = ran \o (f.todo \o (s \o p))
  BY <1>3 DEF Line
<1>7. ASSUME UNCHANGED <<simples, processing>>,
             \E g : /\ SetTop(t, g) /\ FrameShape(g)
                    /\ executing' <=> g.pc \in CallStages
                    /\ ran' \o (g.todo \o (s \o p)) = ran \o (f.todo \o (s \o p))
      PROVE  PassShape' /\ LineOK'
  <2>1. PICK g : /\ SetTop(t, g) /\ FrameShape(g)
                 /\ executing' <=> g.pc \in CallStages
                 /\ ran' \o (g.todo \o (s \o p)) = ran \o (f.todo \o (s \o p))
    BY <1>7
  <2>2. PassShape' /\ Held' = g.todo
    BY <1>1, <1>2, <1>7, <2>1, PassReplaced
  <2>3. Line' = Line /\ nextSimple' = nextSimple
    BY <1>6, <1>7, <2>1, <2>2 DEF Line, simples
  <2> QED
    BY <2>2, <2>3, LineStays
<1>8. CASE TakeSimple(t)
  <2> DEFINE g == [f EXCEPT !.pc = "simple", !.todo = simple[f.exec]]
  <2>1. /\ SetTop(t, g) /\ f.pc = "drain"
        /\ simple' = [simple EXCEPT ![f.exec] = <<>>]
        /\ UNCHANGED <<pendingSimple, nextSimple, processing, executing, ran>>
    BY <1>8 DEF TakeSimple, At, history
  <2>2. FrameShape(g) /\ g.todo = s /\ ~(g.pc \in CallStages) /\ f.todo = <<>>
    BY <1>3, <1>4, <2>1 DEF Frames, FrameShape, CallStages
  <2>3. ~executing'
    BY <1>4, <2>1 DEF CallStages
  <2> HIDE DEF g
  <2>4. PassShape' /\ Held' = s
    BY <1>1, <1>2, <2>1, <2>2, <2>3, PassReplaced
  <2>5. simple'["EngineTick"] = <<>>
    BY <1>1, <1>4, <2>1 DEF TypeInv, SimplesOK, FrameShape, Methods
  <2>6. Line' = ran \o (s \o (<<>> \o p))
    BY <2>1, <2>4, <2>5 DEF Line
  <2>7. <<>> \o p = p /\ <<>> \o (s \o p) = s \o p
    BY <1>5, ConcatEmptySeq
  <2>8. Line' = Line
    BY <1>6, <2>2, <2>6, <2>7
  <2> QED
    BY <2>1, <2>4, <2>8, LineStays
<1>9. CASE DeferSimple(t)
  BY <1>4, <1>9 DEF DeferSimple, At, CallStages
<1>10. ASSUME UNCHANGED <<simples, processing, ran>>,
              \E pc \in Stages \ {"thrown"} :
                /\ SetTop(t, [f EXCEPT !.pc = pc])
                /\ pc \in {"simple", "enterSimple", "callSimple"} <=>
                     f.pc \in {"simple", "enterSimple", "callSimple"}
                /\ executing' <=> pc \in CallStages
       PROVE  PassShape' /\ LineOK'
  <2>1. PICK pc \in Stages \ {"thrown"} :
               /\ SetTop(t, [f EXCEPT !.pc = pc])
               /\ pc \in {"simple", "enterSimple", "callSimple"} <=>
                    f.pc \in {"simple", "enterSimple", "callSimple"}
               /\ executing' <=> pc \in CallStages
    BY <1>10
  <2> DEFINE g == [f EXCEPT !.pc = pc]
  <2>2. FrameShape(g) /\ g.todo = f.todo /\ g.pc = pc
    BY <1>3, <1>4, <2>1 DEF Frames, FrameShape
  <2> HIDE DEF g
  <2>3. SetTop(t, g)
    BY <2>1 DEF g
  <2> QED
    BY <1>7, <1>10, <2>1, <2>2, <2>3
<1>11. CASE CheckSimple(t)
  <2>1. /\ SetTop(t, [f EXCEPT !.pc = "enterSimple"]) /\ f.pc = "simple" /\ ~executing'
        /\ UNCHANGED <<simples, processing, ran>>
    BY <1>11 DEF CheckSimple, At, Goto, history
  <2> QED
    BY <1>10, <2>1 DEF Stages, CallStages
<1>12. CASE EnterSimple(t)
  <2>1. /\ SetTop(t, [f EXCEPT !.pc = "callSimple"]) /\ f.pc = "enterSimple" /\ executing'
        /\ UNCHANGED <<simples, processing, ran>>
    BY <1>12 DEF EnterSimple, At, Goto, history
  <2> QED
    BY <1>10, <2>1 DEF Stages, CallStages
<1>13. CASE LeaveSimple(t)
  <2> DEFINE g == [f EXCEPT !.pc = "simple", !.todo = Tail(@)]
  <2>1. /\ SetTop(t, g) /\ f.pc = "callSimple" /\ ~executing'
        /\ ran' = Append(ran, Head(f.todo))
        /\ UNCHANGED <<simples, processing>>
    BY <1>13 DEF LeaveSimple, At
  <2>2. FrameShape(g) /\ g.todo = Tail(f.todo) /\ ~(g.pc \in CallStages) /\ f.todo # <<>>
    BY <1>3, <1>4, <2>1 DEF ProperFrames, Frames, FrameShape, CallStages
  <2> HIDE DEF g
  <2>3. ran' \o (g.todo \o (s \o p)) = ran \o (f.todo \o (s \o p))
    <3>1. Append(ran, Head(f.todo)) \o (Tail(f.todo) \o (s \o p)) = ran \o (f.todo \o (s \o p))
      <4>1. ASSUME NEW q \in Seq(SimpleActions), q # <<>>, NEW l \in Seq(SimpleActions)
            PROVE  Append(ran, Head(q)) \o (Tail(q) \o l) = ran \o (q \o l)
        BY <1>5, <4>1, HeadMovesOn
      <4> HIDE DEF s, p, f
      <4> QED
        BY <1>5, <2>2, <4>1
    <3> QED
      BY <2>1, <2>2, <3>1
  <2> QED
    BY <1>7, <2>1, <2>2, <2>3
<1>14. CASE RequeueDeferred(t)
  <2> DEFINE g == [f EXCEPT !.pc = "collect", !.deferred = <<>>]
  <2>1. /\ SetTop(t, g) /\ f.pc = "simple" /\ f.todo = <<>>
        /\ simple' = [simple EXCEPT ![f.exec] = @ \o f.deferred]
        /\ UNCHANGED <<pendingSimple, nextSimple, processing, executing, ran>>
    BY <1>14 DEF RequeueDeferred, At, history
  <2>2. FrameShape(g) /\ g.todo = <<>> /\ ~(g.pc \in CallStages)
    BY <1>3, <1>4, <2>1 DEF Frames, FrameShape, CallStages
  <2>3. ~executing'
    BY <1>4, <2>1 DEF CallStages
  <2> HIDE DEF g
  <2>4. PassShape' /\ Held' = <<>>
    BY <1>1, <1>2, <2>1, <2>2, <2>3, PassReplaced
  <2>5. simple'["EngineTick"] = s
    <3>1. simple'["EngineTick"] = s \o <<>>
      BY <1>1, <1>4, <2>1 DEF TypeInv, SimplesOK, FrameShape, Methods
    <3> QED
      BY <1>5, <3>1, ConcatEmptySeq
  <2>6. Line' = Line
    BY <1>6, <2>1, <2>4, <2>5 DEF Line
  <2> QED
    BY <2>1, <2>4, <2>6, LineStays
<1>15. CASE CollectReady(t)
  <2>1. PICK due : SetTop(t, [f EXCEPT !.pc = "delayed", !.ready = due, !.unrun = due])
    BY <1>15 DEF CollectReady
  <2> DEFINE g == [f EXCEPT !.pc = "delayed", !.ready = due, !.unrun = due]
  <2>2. f.pc = "collect" /\ UNCHANGED <<simples, processing, executing, ran>>
    BY <1>15 DEF CollectReady, At, history
  <2>3. FrameShape(g) /\ g.todo = f.todo /\ ~(g.pc \in CallStages)
    BY <1>3, <1>4, <2>2 DEF Frames, FrameShape, CallStages
  <2>4. ~executing'
    BY <1>4, <2>2 DEF CallStages
  <2>5. SetTop(t, g)
    BY <2>1
  <2> HIDE DEF g
  <2> QED
    BY <1>7, <2>2, <2>3, <2>4, <2>5
<1>16. CASE CheckDelayed(t)
  <2>1. f.pc = "delayed" /\ UNCHANGED <<simples, processing, executing, ran>>
    BY <1>16 DEF CheckDelayed, At, history
  <2>2. ~executing
    BY <1>4, <2>1 DEF CallStages
  <2>3. SetTop(t, [f EXCEPT !.pc = "enterDelayed"])
    BY <1>16, <2>2 DEF CheckDelayed, Goto
  <2> QED
    BY <1>10, <2>1, <2>2, <2>3 DEF Stages, CallStages
<1>17. CASE EnterDelayed(t)
  <2>1. f.pc = "enterDelayed" /\ executing' /\ UNCHANGED <<simples, processing, ran>>
    BY <1>17 DEF EnterDelayed, At
  <2>2. Current(f).id \notin freed
    <3>1. Current(f) \in Ready
      BY <1>3, <2>1, CurrentIsUnrun DEF ProperFrames
    <3> QED
      BY <3>1 DEF TickInv, EntriesHold
  <2>3. SetTop(t, [f EXCEPT !.pc = "callDelayed"])
    BY <1>17, <2>2 DEF EnterDelayed, Goto
  <2> QED
    BY <1>10, <2>1, <2>3 DEF Stages, CallStages
<1>18. CASE LeaveDelayed(t)
  <2> DEFINE g == [f EXCEPT !.pc = "delayed", !.unrun = @ \ {Current(f)}]
  <2>1. /\ SetTop(t, g) /\ f.pc = "callDelayed" /\ ~executing'
        /\ UNCHANGED <<simples, processing, ran>>
    BY <1>18 DEF LeaveDelayed, At, history
  <2>2. FrameShape(g) /\ g.todo = f.todo /\ ~(g.pc \in CallStages)
    BY <1>3, <1>4, <2>1 DEF Frames, FrameShape, CallStages
  <2> HIDE DEF g
  <2> QED
    BY <1>7, <2>1, <2>2
<1>19. CASE SettleReady(t)
  <2> DEFINE g == [f EXCEPT !.pc = "merge", !.ready = {}]
  <2>1. /\ SetTop(t, g) /\ f.pc = "delayed"
        /\ UNCHANGED <<simples, processing, executing, ran>>
    BY <1>19 DEF SettleReady, At
  <2>2. FrameShape(g) /\ g.todo = f.todo /\ ~(g.pc \in CallStages)
    BY <1>3, <1>4, <2>1 DEF Frames, FrameShape, CallStages
  <2>3. ~executing'
    BY <1>4, <2>1 DEF CallStages
  <2> HIDE DEF g
  <2> QED
    BY <1>7, <2>1, <2>2, <2>3
<1>20. CASE MergePending(t)
  <2>1. /\ f.pc = "merge" /\ ~processing'
        /\ simple' = [simple EXCEPT ![f.exec] = @ \o pendingSimple[f.exec]]
        /\ pendingSimple' = [pendingSimple EXCEPT ![f.exec] = <<>>]
        /\ stack' = [stack EXCEPT ![t] = Tail(@)]
        /\ UNCHANGED <<nextSimple, executing, ran>>
    BY <1>20 DEF MergePending, At, history
  <2>2. stack'[GameThread] = <<>>
    <3>1. stack[t] \in Seq(ProperFrames) /\ stack \in [Threads -> Seq(ProperFrames)]
      BY <1>1 DEF TypeInv, StackOK
    <3>2. Tail(stack[t]) \in Seq(ProperFrames) /\ Len(Tail(stack[t])) = 0
      BY <1>2, <1>3, <3>1, HeadTailProperties
    <3>3. Tail(stack[t]) = <<>>
      BY <3>2, EmptySeq
    <3> QED
      BY <1>3, <2>1, <3>1, <3>3
  <2>3. simple'["EngineTick"] = s \o p /\ pendingSimple'["EngineTick"] = <<>>
    BY <1>1, <1>4, <2>1 DEF TypeInv, SimplesOK, FrameShape, Methods
  <2>4. PassShape'
    BY <1>4, <2>1, <2>2, <2>3 DEF PassShape, CallStages
  <2>5. Line' = ran \o (<<>> \o ((s \o p) \o <<>>))
    BY <2>1, <2>2, <2>3 DEF Line, Held
  <2>6. Line = ran \o (<<>> \o (s \o p))
    BY <1>4, <1>6, <2>1 DEF FrameShape
  <2>7. (s \o p) \o <<>> = s \o p
    BY <1>5, ConcatEmptySeq
  <2>8. Line' = Line
    BY <2>5, <2>6, <2>7
  <2> QED
    BY <2>1, <2>4, <2>8, LineStays
<1> QED
  BY <1>8, <1>9, <1>11, <1>12, <1>13, <1>14, <1>15, <1>16, <1>17, <1>18, <1>19, <1>20
     DEF PassStep

\* A registration appends to the line.
LEMMA RegistrationKeepsLine ==
  ASSUME "ProcessEvent" \notin Available, TickInv, PassShape, LineOK,
         NEW t \in Threads, NEW m \in Mods, Registration(t, m)
  PROVE  PassShape' /\ LineOK'
<1> DEFINE s == simple["EngineTick"]
           p == pendingSimple["EngineTick"]
<1>1. UNCHANGED <<processing, executing, stack, ran>>
  BY DEF Registration, ExecuteInGameThread, RegisterDelayed, ExecuteWithHandle, Retrigger,
         history
<1>2. Held' = Held
  BY <1>1 DEF Held, Top
<1>3. CASE UNCHANGED simples
  <2>1. PassShape' /\ Line' = Line /\ nextSimple' = nextSimple
    BY <1>1, <1>2, <1>3 DEF PassShape, Line, simples, Top
  <2> QED
    BY <2>1, LineStays
<1>4. ASSUME NEW method \in Methods, ExecuteInGameThread(t, m, method)
      PROVE  PassShape' /\ LineOK'
  <2>1. method = "EngineTick"
    BY <1>4 DEF ExecuteInGameThread, Methods
  <2>2. /\ nextSimple \in SimpleActions /\ nextSimple' = nextSimple + 1
        /\ simple \in [Methods -> Seq(SimpleActions)]
        /\ pendingSimple \in [Methods -> Seq(SimpleActions)]
    BY <1>4 DEF ExecuteInGameThread, TickInv, TypeInv, SimplesOK
  <2>3. /\ TypeInv /\ ran \in Seq(SimpleActions) /\ Held \in Seq(SimpleActions)
        /\ s \in Seq(SimpleActions) /\ p \in Seq(SimpleActions)
        /\ s \o p \in Seq(SimpleActions) /\ Held \o (s \o p) \in Seq(SimpleActions)
    BY LineTypes DEF TickInv
  <2>4. Line = ran \o (Held \o (s \o p))
    BY DEF Line
  <2>5. \A r, q \in Seq(SimpleActions) : r \o Append(q, nextSimple) = Append(r \o q, nextSimple)
    BY <2>2, AppendedAtTheEnd
  <2>6. ran \o (Held \o Append(s \o p, nextSimple)) = Append(Line, nextSimple)
    <3>1. Held \o Append(s \o p, nextSimple) = Append(Held \o (s \o p), nextSimple)
      BY <2>3, <2>5
    <3>2. ran \o Append(Held \o (s \o p), nextSimple) = Append(ran \o (Held \o (s \o p)), nextSimple)
      BY <2>3, <2>5
    <3> QED
      BY <2>4, <3>1, <3>2
  <2>7. CASE processing
    <3>1. pendingSimple'["EngineTick"] = Append(p, nextSimple) /\ simple'["EngineTick"] = s
      BY <1>4, <2>1, <2>2, <2>7 DEF ExecuteInGameThread, Methods
    <3>2. s \o Append(p, nextSimple) = Append(s \o p, nextSimple)
      BY <2>3, <2>5
    <3>3. Line' = Append(Line, nextSimple)
      BY <1>1, <1>2, <2>6, <3>1, <3>2 DEF Line
    <3>4. PassShape'
      BY <1>1, <2>7 DEF PassShape, Top
    <3> QED
      BY <2>2, <2>3, <3>3, <3>4, LineExtends
  <2>8. CASE ~processing
    <3>1. simple'["EngineTick"] = Append(s, nextSimple) /\ p = <<>> /\ pendingSimple' = pendingSimple
      BY <1>4, <2>1, <2>2, <2>8 DEF ExecuteInGameThread, Methods, PassShape
    <3>2. Append(s, nextSimple) \o <<>> = Append(s \o p, nextSimple)
      <4>1. Append(s, nextSimple) \in Seq(SimpleActions)
        BY <2>2, <2>3, AppendProperties
      <4> QED
        BY <2>3, <3>1, <4>1, ConcatEmptySeq
    <3>3. Line' = Append(Line, nextSimple)
      BY <1>1, <1>2, <2>6, <3>1, <3>2 DEF Line
    <3>4. PassShape'
      BY <1>1, <3>1 DEF PassShape, Top
    <3> QED
      BY <2>2, <2>3, <3>3, <3>4, LineExtends
  <2> QED
    BY <2>7, <2>8
<1> QED
  BY <1>3, <1>4
     DEF Registration, RegisterDelayed, ExecuteWithHandle, Retrigger

LEMMA LineInductive ==
  ASSUME "ProcessEvent" \notin Available
  PROVE  /\ Init => PassShape /\ LineOK
         /\ TickInv /\ PassShape /\ LineOK /\ [Next]_vars => PassShape' /\ LineOK'
<1>1. Init => PassShape /\ LineOK
  <2> SUFFICES ASSUME Init
               PROVE  PassShape /\ LineOK
    OBVIOUS
  <2>1. /\ stack[GameThread] = <<>> /\ ran = <<>> /\ ~processing /\ ~executing
        /\ simple["EngineTick"] = <<>> /\ pendingSimple["EngineTick"] = <<>>
    BY ThreadAssumption DEF Init, Methods
  <2>2. <<>> \o <<>> = <<>>
    OBVIOUS
  <2>3. Line = <<>>
    BY <2>1, <2>2 DEF Line, Held
  <2> QED
    BY <2>1, <2>3 DEF PassShape, LineOK
<1>2. ASSUME TickInv, PassShape, LineOK, [Next]_vars
      PROVE  PassShape' /\ LineOK'
  <2>1. ASSUME UNCHANGED <<simples, processing, executing, stack, ran>>
        PROVE  PassShape' /\ LineOK'
    <3>1. PassShape' /\ Line' = Line /\ nextSimple' = nextSimple
      BY <1>2, <2>1 DEF PassShape, Line, Held, simples, Top
    <3> QED
      BY <1>2, <3>1, LineStays
  <2>2. CASE EngineTickHook
    <3> DEFINE g == [exec |-> "EngineTick", pc |-> "drain", todo |-> <<>>, deferred |-> <<>>,
                     ready |-> {}, unrun |-> {}]
    <3>1. /\ stack[GameThread] = <<>> /\ processing'
          /\ stack' = [stack EXCEPT ![GameThread] = <<g>> \o @]
          /\ UNCHANGED <<simple, pendingSimple, nextSimple, executing, ran>>
      BY <2>2 DEF EngineTickHook, Begin, simples, history
    <3>2. stack'[GameThread] = <<g>>
      <4>1. stack'[GameThread] = <<g>> \o <<>>
        BY <1>2, <3>1, ThreadAssumption DEF TickInv, TypeInv, StackOK
      <4> HIDE DEF g
      <4>2. <<g>> \o <<>> = <<g>>
        OBVIOUS
      <4> QED
        BY <4>1, <4>2
    <3>3. PassShape'
      BY <1>2, <3>1, <3>2 DEF PassShape, FrameShape, CallStages, Top
    <3>4. Held' = Held
      BY <3>1, <3>2 DEF Held, Top
    <3>5. Line' = Line
      BY <3>1, <3>4 DEF Line
    <3> QED
      BY <1>2, <3>1, <3>3, <3>5, LineStays
  <2>3. ASSUME NEW t \in Threads, ProcessEventHook(t)
        PROVE  PassShape' /\ LineOK'
    BY <2>3 DEF ProcessEventHook, Begin
  <2>4. ASSUME NEW t \in Threads, MakeActionHandleRead(t) \/ MakeActionHandleWrite(t)
        PROVE  PassShape' /\ LineOK'
    BY <2>1, <2>4 DEF MakeActionHandleRead, MakeActionHandleWrite, history
  <2>5. ASSUME NEW t \in Threads, NEW m \in Mods, Controlling(t, m)
        PROVE  PassShape' /\ LineOK'
    <3>1. UNCHANGED <<simples, processing, executing, stack, ran>>
      BY <2>5
         DEF Controlling, ResetDelayedActionTimer, SetDelayedActionTimer, PauseDelayedAction,
             UnpauseDelayedAction, CancelDelayedAction, ClearAllDelayedActions, Control, history
    <3> QED
      BY <2>1, <3>1
  <2>6. CASE Tick
    BY <2>1, <2>6 DEF Tick, history
  <2>7. CASE UNCHANGED vars
    BY <2>1, <2>7 DEF vars, simples
  <2> QED
    BY <1>2, <2>2, <2>3, <2>4, <2>5, <2>6, <2>7, PassStepKeepsLine, RegistrationKeepsLine
       DEF Next
<1> QED
  BY <1>1, <1>2

LEMMA LineOrdersRan ==
  ASSUME TypeInv, LineOK
  PROVE  SimpleActionsInOrder
<1> DEFINE rest == Held \o (simple["EngineTick"] \o pendingSimple["EngineTick"])
<1>1. /\ ran \in Seq(SimpleActions) /\ rest \in Seq(SimpleActions)
      /\ Line = ran \o rest /\ Line \in Seq(SimpleActions)
  BY LineTypes DEF Line
<1> HIDE DEF rest
<1>2. /\ Len(ran) \in Nat /\ Len(rest) \in Nat /\ DOMAIN ran = 1 .. Len(ran)
      /\ DOMAIN Line = 1 .. Len(ran) + Len(rest)
      /\ \A i \in 1 .. Len(ran) : Line[i] = ran[i]
  BY <1>1, ConcatProperties, LenProperties
<1>3. ASSUME NEW i \in DOMAIN ran, NEW j \in DOMAIN ran, i < j
      PROVE  ran[i] < ran[j]
  <2>1. j \in DOMAIN Line /\ i \in 1 .. j - 1
    BY <1>2, <1>3
  <2>2. Line[i] < Line[j]
    BY <2>1 DEF LineOK
  <2> QED
    BY <1>2, <1>3, <2>2
<1> QED
  BY <1>3 DEF SimpleActionsInOrder

\* When ProcessEvent is not hooked, simple actions run in the order they were registered,
\* whichever thread registered them and whether a pass was under way.
THEOREM SimpleActionsKeepOrder ==
  ASSUME "ProcessEvent" \notin Available
  PROVE  Spec => []SimpleActionsInOrder
<1>1. /\ Init => TickInv /\ PassShape /\ LineOK
      /\ TickInv /\ PassShape /\ LineOK /\ [Next]_vars => (TickInv /\ PassShape /\ LineOK)'
  BY TickInvInductive, LineInductive
<1>2. TickInv /\ LineOK => SimpleActionsInOrder
  BY LineOrdersRan DEF TickInv
<1> QED
  BY <1>1, <1>2, PTL DEF Spec

-----------------------------------------------------------------------------
(* There, too, a one-shot action is entered once.                          *)

\* The entries that the only pass has yet to enter.
Left ==
  IF stack[GameThread] = <<>> THEN {}
  ELSE IF Top(GameThread).pc = "callDelayed"
       THEN Top(GameThread).unrun \ {Current(Top(GameThread))}
       ELSE Top(GameThread).unrun

\* A one-shot action that was entered, and not armed since, is not entered again, and
\* its pass is still to settle it, unless it is on its way out.
OneShotsOK ==
  \A a \in fired :
    /\ a < nextAction
    /\ ~act[a].looping =>
         /\ \A e \in Left : e.id # a
         /\ act[a].status = "PendingRemoval" \/ \E e \in Ready : e.id = a

LEMMA LeftIsReady ==
  ASSUME TypeInv
  PROVE  Left \subseteq Ready
<1>1. stack[GameThread] # <<>> => Top(GameThread) \in ProperFrames
  BY TopIsProper, ThreadAssumption DEF TypeInv
<1> QED
  BY <1>1 DEF Left, Ready, ProperFrames

\* No two entries are for the same action.
LEMMA EntriesDiffer ==
  ASSUME TickInv, ListInv, NEW d \in Ready, NEW e \in Ready, d.id = e.id
  PROVE  d = e
<1>1. d \in Entries /\ e \in Entries
  BY ReadyAreEntries DEF TickInv
<1>2. Len(queue) \in Nat /\ DOMAIN queue = 1 .. Len(queue)
  BY LenProperties DEF TickInv, TypeInv, RegistryOK
<1>3. queue[d.index] = queue[e.index] /\ d.index \in DOMAIN queue /\ e.index \in DOMAIN queue
  BY <1>1, <1>2 DEF TickInv, EntriesHold, Entries, Actions
<1>4. d.index = e.index
  BY <1>3 DEF ListInv, Distinct, IsInjective
<1> QED
  BY <1>1, <1>4 DEF Entries

\* What holds when no action is entered.
LEMMA OneShotsStay ==
  ASSUME TypeInv, OneShotsOK, CancelStep, fired' \subseteq fired,
         ActionsKept \/ \E m \in Mods : NewListed(m),
         Left' \subseteq Left, Ready' = Ready
  PROVE  OneShotsOK'
<1>1. \A a \in fired : a \in Actions /\ a < nextAction /\ nextAction \in Nat
  BY DEF TypeInv, HistoryOK, RegistryOK, OneShotsOK
<1>2. \A a \in fired : a < nextAction' /\ act'[a].looping = act[a].looping
  <2>1. CASE ActionsKept
    BY <1>1, <2>1 DEF ActionsKept, SameAction
  <2>2. CASE \E m \in Mods : NewListed(m)
    <3>1. PICK b \in Attributes : Insert(b)
      BY <2>2 DEF NewListed
    <3>2. nextAction' = nextAction + 1 /\ act' = [act EXCEPT ![nextAction] = b]
      BY <3>1 DEF Insert
    <3>3. \A a \in Actions : a # nextAction => act'[a] = act[a]
      BY <3>2 DEF TypeInv, RegistryOK
    <3>4. \A a \in fired : a # nextAction /\ a < nextAction + 1
      BY <1>1 DEF Actions
    <3> QED
      BY <1>1, <3>2, <3>3, <3>4
  <2> QED
    BY <2>1, <2>2
<1> QED
  BY <1>1, <1>2 DEF OneShotsOK, CancelStep

LEMMA PassStepKeepsOneShots ==
  ASSUME TickInv, TickInv', ListInv, PassShape, OneShotsOK, NEW t \in Threads, PassStep(t)
  PROVE  OneShotsOK'
<1> DEFINE f == Top(t)
<1>1. TypeInv /\ TypeInv' /\ CancelStep /\ ActionsKept
  BY PassStepEffect, PassStepKeepsTypes, PassStepLists, Zenon DEF TickInv
<1>2. stack[t] # <<>>
  BY DEF PassStep, TakeSimple, DeferSimple, CheckSimple, EnterSimple, LeaveSimple,
         RequeueDeferred, CollectReady, CheckDelayed, EnterDelayed,
         LeaveDelayed, SettleReady, MergePending, At
<1>3. /\ t = GameThread /\ Len(stack[t]) = 1
      /\ f \in ProperFrames /\ f \in Frames
      /\ Ready = f.ready
      /\ Left = IF f.pc = "callDelayed" THEN f.unrun \ {Current(f)} ELSE f.unrun
  BY <1>1, <1>2, TopIsProper DEF TickInv, OnePass, TypeInv, Ready, Left, ProperFrames
<1>4. ASSUME NEW g, SetTop(t, g)
      PROVE  /\ Ready' = g.ready
             /\ Left' = IF g.pc = "callDelayed" THEN g.unrun \ {Current(g)} ELSE g.unrun
  <2>1. t = GameThread /\ stack'[t] # <<>> /\ stack'[t][1] = g /\ Ready' = g.ready
    BY <1>1, <1>2, <1>4, OnlyPassReplaced
  <2> QED
    BY <2>1 DEF Left, Top
<1>5. /\ act \in [Actions -> Attributes]
      /\ fired \subseteq Actions
      /\ \A a \in Actions : act'[a].looping = act[a].looping
      /\ nextAction' = nextAction
  BY <1>1 DEF TypeInv, RegistryOK, HistoryOK, ActionsKept, SameAction
<1>6. ASSUME UNCHANGED fired,
             \E g : SetTop(t, g) /\ g.ready = f.ready /\ g.unrun = f.unrun
                    /\ g.pc # "callDelayed" /\ f.pc # "callDelayed"
      PROVE  OneShotsOK'
  <2>1. Left' = Left /\ Ready' = Ready
    BY <1>3, <1>4, <1>6
  <2> QED
    BY <1>1, <1>6, <2>1, OneShotsStay
<1>7. CASE TakeSimple(t)
  <2> DEFINE g == [f EXCEPT !.pc = "simple", !.todo = simple[f.exec]]
  <2>1. SetTop(t, g) /\ UNCHANGED fired /\ f.pc # "callDelayed"
    BY <1>7 DEF TakeSimple, At, history
  <2>2. g.ready = f.ready /\ g.unrun = f.unrun /\ g.pc # "callDelayed"
    BY <1>3 DEF Frames
  <2> HIDE DEF g
  <2> QED
    BY <1>6, <2>1, <2>2
<1>8. CASE DeferSimple(t)
  <2> DEFINE g == [f EXCEPT !.deferred = Append(@, Head(f.todo)), !.todo = Tail(@)]
  <2>1. SetTop(t, g) /\ UNCHANGED fired /\ f.pc = "simple"
    BY <1>8 DEF DeferSimple, At, history
  <2>2. g.ready = f.ready /\ g.unrun = f.unrun /\ g.pc # "callDelayed"
    BY <1>3, <2>1 DEF Frames
  <2> HIDE DEF g
  <2> QED
    BY <1>6, <2>1, <2>2
<1>9. CASE CheckSimple(t) \/ EnterSimple(t)
  <2>1. PICK pc \in {"enterSimple", "callSimple"} : SetTop(t, [f EXCEPT !.pc = pc])
    BY <1>9 DEF CheckSimple, EnterSimple, Goto
  <2>2. UNCHANGED fired /\ f.pc # "callDelayed"
    BY <1>9 DEF CheckSimple, EnterSimple, At, history
  <2> DEFINE g == [f EXCEPT !.pc = pc]
  <2>3. g.ready = f.ready /\ g.unrun = f.unrun /\ g.pc # "callDelayed"
    BY <1>3, <2>1 DEF Frames
  <2>4. SetTop(t, g)
    BY <2>1
  <2> HIDE DEF g
  <2> QED
    BY <1>6, <2>2, <2>3, <2>4
<1>10. CASE LeaveSimple(t)
  <2> DEFINE g == [f EXCEPT !.pc = "simple", !.todo = Tail(@)]
  <2>1. SetTop(t, g) /\ UNCHANGED fired /\ f.pc # "callDelayed"
    BY <1>10 DEF LeaveSimple, At
  <2>2. g.ready = f.ready /\ g.unrun = f.unrun /\ g.pc # "callDelayed"
    BY <1>3 DEF Frames
  <2> HIDE DEF g
  <2> QED
    BY <1>6, <2>1, <2>2
<1>11. CASE RequeueDeferred(t)
  <2> DEFINE g == [f EXCEPT !.pc = "collect", !.deferred = <<>>]
  <2>1. SetTop(t, g) /\ UNCHANGED fired /\ f.pc # "callDelayed"
    BY <1>11 DEF RequeueDeferred, At, history
  <2>2. g.ready = f.ready /\ g.unrun = f.unrun /\ g.pc # "callDelayed"
    BY <1>3 DEF Frames
  <2> HIDE DEF g
  <2> QED
    BY <1>6, <2>1, <2>2
<1>12. CASE CollectReady(t)
  <2> DEFINE due == {[index |-> i, id |-> queue[i]] :
                       i \in {j \in DOMAIN queue : queue[j] \in Due(f.exec)}}
             g == [f EXCEPT !.pc = "delayed", !.ready = due, !.unrun = due]
  <2>1. SetTop(t, g) /\ f.pc = "collect" /\ UNCHANGED fired
    BY <1>12 DEF CollectReady, At, history
  <2>2. Ready = {}
    BY <1>3, <2>1 DEF ProperFrames
  <2>3. g.unrun = due /\ g.pc # "callDelayed"
    BY <1>3 DEF Frames
  <2>4. \A e \in due : act[e.id].status = "Active"
    BY DEF Due, Eligible
  <2> HIDE DEF due, g
  <2>5. Left' = due
    BY <1>4, <2>1, <2>3
  <2>6. ASSUME NEW a \in fired, ~act[a].looping
        PROVE  act[a].status = "PendingRemoval" /\ act'[a].status = "PendingRemoval"
    BY <1>1, <1>5, <2>2, <2>6 DEF OneShotsOK, CancelStep
  <2> QED
    BY <1>5, <2>1, <2>4, <2>5, <2>6 DEF OneShotsOK
<1>13. CASE CheckDelayed(t)
  <2>1. f.pc = "delayed" /\ UNCHANGED fired
    BY <1>13 DEF CheckDelayed, At, history
  <2>2. ~executing
    BY <1>3, <2>1 DEF PassShape, CallStages
  <2> DEFINE g == [f EXCEPT !.pc = "enterDelayed"]
  <2>3. SetTop(t, g)
    BY <1>13, <2>2 DEF CheckDelayed, Goto
  <2>4. g.ready = f.ready /\ g.unrun = f.unrun /\ g.pc # "callDelayed"
    BY <1>3 DEF Frames
  <2> HIDE DEF g
  <2> QED
    BY <1>6, <2>1, <2>3, <2>4
<1>14. CASE EnterDelayed(t)
  <2> DEFINE c == Current(f)
             g == [f EXCEPT !.pc = "callDelayed"]
  <2>1. f.pc = "enterDelayed" /\ UNCHANGED registry
    BY <1>14 DEF EnterDelayed, At
  <2>2. c \in f.unrun /\ c \in Ready
    BY <1>3, <2>1, CurrentIsUnrun DEF ProperFrames
  <2>3. c.id \notin freed
    BY <2>2 DEF TickInv, EntriesHold
  <2>4. SetTop(t, g) /\ fired' \subseteq fired \cup {c.id}
    BY <1>14, <2>3 DEF EnterDelayed, Goto
  <2>5. g.ready = f.ready /\ g.unrun = f.unrun /\ g.pc = "callDelayed"
    BY <1>3 DEF Frames
  <2>6. Current(g) = c
    BY <2>5 DEF Current
  <2> HIDE DEF c, g
  <2>7. Ready' = Ready /\ Left' = Left \ {c} /\ Left = f.unrun
    BY <1>3, <1>4, <2>1, <2>4, <2>5, <2>6
  <2>8. Left \subseteq Ready
    BY <1>1, LeftIsReady
  <2>9. \A e \in Left' : e.id # c.id
    BY <2>2, <2>7, <2>8, EntriesDiffer
  <2>10. c.id < nextAction
    <3>1. c \in Entries /\ c.index <= Len(queue) /\ queue[c.index] = c.id
      BY <1>1, <2>2, ReadyAreEntries DEF TickInv, EntriesHold
    <3>2. DOMAIN queue = 1 .. Len(queue) /\ Len(queue) \in Nat
      BY <1>1, LenProperties DEF TypeInv, RegistryOK
    <3>3. c.id \in Range(queue)
      BY <3>1, <3>2 DEF Entries, Actions, Range
    <3> QED
      BY <3>3 DEF TickInv, Fresh
  <2>11. UNCHANGED <<act, nextAction>>
    BY <2>1 DEF registry
  <2> QED
    BY <2>2, <2>4, <2>7, <2>9, <2>10, <2>11 DEF OneShotsOK
<1>15. CASE LeaveDelayed(t)
  <2> DEFINE g == [f EXCEPT !.pc = "delayed", !.unrun = @ \ {Current(f)}]
  <2>1. SetTop(t, g) /\ UNCHANGED fired /\ f.pc = "callDelayed"
    BY <1>15 DEF LeaveDelayed, At, history
  <2>2. g.ready = f.ready /\ g.unrun = f.unrun \ {Current(f)} /\ g.pc # "callDelayed"
    BY <1>3 DEF Frames
  <2> HIDE DEF g
  <2>3. Left' = Left /\ Ready' = Ready
    BY <1>3, <1>4, <2>1, <2>2
  <2> QED
    BY <1>1, <2>1, <2>3, OneShotsStay
<1>16. CASE SettleReady(t)
  <2> DEFINE touched == {queue[e.index] : e \in {r \in f.ready : InRange(r)}}
             g == [f EXCEPT !.pc = "merge", !.ready = {}]
  <2>1. /\ SetTop(t, g) /\ f.unrun = {} /\ UNCHANGED fired
        /\ act' = [a \in Actions |-> IF a \in touched THEN Settled(act[a]) ELSE act[a]]
    BY <1>16 DEF SettleReady
  <2>2. g.unrun = {} /\ g.pc # "callDelayed"
    BY <1>3, <2>1 DEF Frames
  <2>3. \A e \in Ready : e.id \in touched
    BY <1>3 DEF TickInv, EntriesHold, InRange
  <2>4. \A a \in Actions : ~act[a].looping /\ a \in touched => act'[a].status = "PendingRemoval"
    <3>1. \A b \in Attributes : ~b.looping /\ ~b.pauseAfter => Settled(b).status = "PendingRemoval"
      BY DEF Settled, Attributes
    <3>2. \A a \in Actions : act[a] \in Attributes /\ (act[a].pauseAfter => act[a].looping)
      BY <1>5 DEF ListInv
    <3> HIDE DEF touched
    <3> QED
      BY <2>1, <3>1, <3>2
  <2> HIDE DEF touched, g
  <2>5. Left' = {}
    BY <1>4, <2>1, <2>2
  <2>6. ASSUME NEW a \in fired, ~act[a].looping
        PROVE  act'[a].status = "PendingRemoval"
    BY <1>1, <1>5, <2>3, <2>4, <2>6 DEF OneShotsOK, CancelStep
  <2> QED
    BY <1>5, <2>1, <2>5, <2>6 DEF OneShotsOK
<1>17. CASE MergePending(t)
  <2>1. f.pc = "merge" /\ UNCHANGED fired /\ stack' = [stack EXCEPT ![t] = Tail(@)]
    BY <1>17 DEF MergePending, At, history
  <2>2. stack'[GameThread] = <<>>
    <3>1. stack[t] \in Seq(ProperFrames) /\ stack \in [Threads -> Seq(ProperFrames)]
      BY <1>1 DEF TypeInv, StackOK
    <3>2. Tail(stack[t]) \in Seq(ProperFrames) /\ Len(Tail(stack[t])) = 0
      BY <1>2, <1>3, <3>1, HeadTailProperties
    <3>3. Tail(stack[t]) = <<>>
      BY <3>2, EmptySeq
    <3> QED
      BY <1>3, <2>1, <3>1, <3>3
  <2>3. Left' = {} /\ Ready' = {}
    BY <2>2 DEF Left, Ready
  <2>4. Ready = {}
    BY <1>3, <2>1 DEF ProperFrames
  <2> QED
    BY <1>1, <2>1, <2>3, <2>4, OneShotsStay
<1> QED
  BY <1>7, <1>8, <1>9, <1>10, <1>11, <1>12, <1>13, <1>14, <1>15, <1>16, <1>17 DEF PassStep

OneShotInv == TickInv /\ PassShape /\ LineOK /\ ListInv /\ OneShotsOK

LEMMA OneShotInvInductive ==
  ASSUME "ProcessEvent" \notin Available
  PROVE  /\ Init => OneShotInv
         /\ OneShotInv /\ [Next]_vars => OneShotInv'
<1>1. Init => OneShotInv
  BY TickInvInductive, LineInductive, ListInvInductive DEF OneShotInv, Init, OneShotsOK
<1>2. ASSUME OneShotInv, [Next]_vars
      PROVE  OneShotInv'
  <2>1. TickInv' /\ PassShape' /\ LineOK' /\ ListInv'
    BY <1>2, TickInvInductive, LineInductive, ListInvInductive DEF OneShotInv, TickInv
  <2>2. TypeInv /\ CancelStep /\ (ActionsKept \/ \E m \in Mods : NewListed(m))
    BY <1>2, FreshInductive, StepLists DEF OneShotInv, TickInv
  <2>3. ASSUME fired' \subseteq fired, UNCHANGED stack
        PROVE  OneShotsOK'
    <3>1. Left' = Left /\ Ready' = Ready
      BY <2>3 DEF Left, Ready, Top
    <3> QED
      BY <1>2, <2>2, <2>3, <3>1, OneShotsStay DEF OneShotInv
  <2>4. ASSUME EngineTickHook
        PROVE  OneShotsOK'
    <3> DEFINE g == [exec |-> "EngineTick", pc |-> "drain", todo |-> <<>>, deferred |-> <<>>,
                     ready |-> {}, unrun |-> {}]
    <3>1. /\ stack' = [stack EXCEPT ![GameThread] = <<g>> \o @]
          /\ g.ready = {} /\ g.unrun = {} /\ g.pc = "drain"
      BY <2>4 DEF EngineTickHook, Begin
    <3> HIDE DEF g
    <3>2. stack[GameThread] = <<>> /\ UNCHANGED fired
      BY <2>4 DEF EngineTickHook, Begin, history
    <3>3. stack'[GameThread] = <<g>>
      BY <2>2, <3>1, <3>2, ThreadAssumption DEF TypeInv, StackOK
    <3>4. Left' = Left /\ Ready' = Ready
      BY <3>1, <3>2, <3>3 DEF Left, Ready, Top
    <3> QED
      BY <1>2, <2>2, <3>2, <3>4, OneShotsStay DEF OneShotInv
  <2>5. ASSUME NEW t \in Threads, ProcessEventHook(t)
        PROVE  OneShotsOK'
    BY <2>5 DEF ProcessEventHook, Begin
  <2>6. ASSUME NEW t \in Threads, MakeActionHandleRead(t) \/ MakeActionHandleWrite(t)
        PROVE  OneShotsOK'
    BY <2>3, <2>6 DEF MakeActionHandleRead, MakeActionHandleWrite, history
  <2>7. ASSUME NEW t \in Threads, NEW m \in Mods, Registration(t, m) \/ Controlling(t, m)
        PROVE  OneShotsOK'
    <3>1. fired' \subseteq fired
      BY <2>2, <2>7, RegistrationLists, ControllingLists DEF NewListed
    <3>2. UNCHANGED stack
      BY <1>2, <2>7, RegistrationEffect, ControllingEffect
         DEF OneShotInv, TickInv, CallEffect
    <3> QED
      BY <2>3, <3>1, <3>2
  <2>8. ASSUME Tick
        PROVE  OneShotsOK'
    BY <2>3, <2>8 DEF Tick, history
  <2>9. ASSUME UNCHANGED vars
        PROVE  OneShotsOK'
    BY <2>3, <2>9 DEF vars
  <2>10. ASSUME NEW t \in Threads, PassStep(t)
         PROVE  OneShotsOK'
    BY <1>2, <2>1, <2>10, PassStepKeepsOneShots DEF OneShotInv
  <2>11. OneShotsOK'
    BY <1>2, <2>4, <2>5, <2>6, <2>7, <2>8, <2>9, <2>10 DEF Next
  <2> QED
    BY <2>1, <2>11 DEF OneShotInv
<1> QED
  BY <1>1, <1>2

LEMMA OneShotsEnterOnce ==
  ASSUME OneShotInv
  PROVE  OneShotFiresOnce
<1> SUFFICES ASSUME NEW p \in Passes, PassOf(p).pc = "enterDelayed",
                    ~act[Current(PassOf(p)).id].looping
             PROVE  Current(PassOf(p)).id \notin fired
  BY DEF OneShotFiresOnce
<1>1. TypeInv /\ OnePass
  BY DEF OneShotInv, TickInv
<1>2. p[1] \in Threads /\ p[2] \in 1 .. Len(stack[p[1]])
  <2>1. stack[p[1]] \in Seq(ProperFrames) /\ Len(stack[p[1]]) \in Nat
    BY <1>1, LenProperties DEF Passes, TypeInv, StackOK
  <2> QED
    BY <2>1, BoundAssumption DEF Passes
<1>3. p[1] = GameThread /\ p[2] = 1 /\ stack[GameThread] # <<>>
  <2>1. stack[p[1]] # <<>>
    BY <1>2, EmptySeq
  <2>2. p[1] = GameThread /\ Len(stack[p[1]]) = 1
    BY <1>1, <1>2, <2>1 DEF OnePass
  <2> QED
    BY <1>2, <2>1, <2>2
<1>4. PassOf(p) = Top(GameThread)
  BY <1>3 DEF PassOf, Top
<1>5. Top(GameThread) \in ProperFrames
  BY <1>1, <1>3, TopIsProper, ThreadAssumption DEF TypeInv
<1>6. Current(Top(GameThread)) \in Left
  BY <1>3, <1>4, <1>5, CurrentIsUnrun DEF ProperFrames, Left
<1> QED
  BY <1>4, <1>6 DEF OneShotInv, OneShotsOK

\* When ProcessEvent is not hooked, a one-shot action is entered once for each time a
\* call armed it, although stage 2 does not look at what became of it since stage 1.
THEOREM OneShotsFireOnce ==
  ASSUME "ProcessEvent" \notin Available
  PROVE  Spec => []OneShotFiresOnce
<1>1. /\ Init => OneShotInv
      /\ OneShotInv /\ [Next]_vars => OneShotInv'
  BY OneShotInvInductive
<1>2. OneShotInv => OneShotFiresOnce
  BY OneShotsEnterOnce
<1> QED
  BY <1>1, <1>2, PTL DEF Spec

-----------------------------------------------------------------------------
(* On a single thread, with any hooks and nesting, callbacks do not nest,  *)
(* and handles stay unique.                                                *)

Blocked == CallStages \cup {"enterSimple", "enterDelayed", "thrown"}

\* A pass that begins inside a callback finds the flag set, and gets by without
\* entering one of its own.
NestInv ==
  LET s == stack[GameThread] IN
  /\ Len(s) <= 2
  /\ Len(s) = 2 => s[2].pc \in CallStages /\ s[1].pc \notin Blocked
  /\ executing <=> \E i \in 1 .. Len(s) : s[i].pc \in CallStages \cup {"thrown"}

LEMMA StackReplaced ==
  ASSUME TypeInv, TypeInv', NEW t \in Threads, stack[t] # <<>>, NEW g, SetTop(t, g)
  PROVE  /\ Len(stack'[t]) = Len(stack[t]) /\ Len(stack[t]) \in Nat \ {0}
         /\ stack'[t][1] = g
         /\ \A i \in 2 .. Len(stack[t]) : stack'[t][i] = stack[t][i]
<1>1. /\ stack \in [Threads -> Seq(ProperFrames)]
      /\ stack[t] \in Seq(ProperFrames) /\ stack'[t] \in Seq(ProperFrames)
  BY DEF TypeInv, StackOK
<1>2. Len(stack[t]) \in Nat \ {0} /\ DOMAIN stack[t] = 1 .. Len(stack[t])
  BY <1>1, EmptySeq, LenProperties
<1>3. stack'[t] = [stack[t] EXCEPT ![1] = g]
  BY <1>1 DEF SetTop
<1>4. DOMAIN stack'[t] = 1 .. Len(stack[t])
  BY <1>2, <1>3
<1>5. DOMAIN stack'[t] = 1 .. Len(stack'[t]) /\ Len(stack'[t]) \in Nat
  BY <1>1, LenProperties
<1>6. Len(stack'[t]) = Len(stack[t])
  BY <1>2, <1>4, <1>5
<1> QED
  BY <1>2, <1>3, <1>6

\* Replacing the innermost pass keeps the invariant in two cases: it neither was nor
\* gets near a callback, or it is alone.
LEMMA NestReplaced ==
  ASSUME TypeInv, TypeInv', NestInv, NEW t \in Threads, t = GameThread, stack[t] # <<>>,
         NEW g, SetTop(t, g),
         \/ /\ UNCHANGED executing
            /\ Top(t).pc \notin CallStages \cup {"thrown"} /\ g.pc \notin Blocked
         \/ Len(stack[t]) = 1 /\ (executing' <=> g.pc \in CallStages \cup {"thrown"})
  PROVE  NestInv'
<1> DEFINE s == stack[GameThread]
           r == stack'[GameThread]
<1>1. /\ Len(r) = Len(s) /\ Len(s) \in Nat \ {0} /\ r[1] = g
      /\ \A i \in 2 .. Len(s) : r[i] = s[i]
  BY StackReplaced
<1>2. Top(t) = s[1]
  BY DEF Top
<1>3. /\ Len(s) <= 2
      /\ Len(s) = 2 => s[2].pc \in CallStages /\ s[1].pc \notin Blocked
      /\ executing <=> \E i \in 1 .. Len(s) : s[i].pc \in CallStages \cup {"thrown"}
  BY DEF NestInv
<1>4. executing \in BOOLEAN /\ executing' \in BOOLEAN
  BY DEF TypeInv, FlagsOK
<1> HIDE DEF s, r
<1>5. CASE Len(s) = 1
  <2>1. executing' <=> g.pc \in CallStages \cup {"thrown"}
    <3>1. CASE Len(stack[t]) = 1 /\ (executing' <=> g.pc \in CallStages \cup {"thrown"})
      BY <3>1
    <3>2. CASE /\ UNCHANGED executing
               /\ Top(t).pc \notin CallStages \cup {"thrown"} /\ g.pc \notin Blocked
      <4>1. ~executing
        BY <1>2, <1>3, <1>5, <3>2
      <4> QED
        BY <3>2, <4>1 DEF Blocked
    <3> QED
      BY <3>1, <3>2
  <2>2. executing' <=> \E i \in 1 .. Len(r) : r[i].pc \in CallStages \cup {"thrown"}
    BY <1>1, <1>5, <2>1
  <2> QED
    BY <1>1, <1>5, <2>2 DEF NestInv, r
<1>6. CASE Len(s) = 2
  <2>1. UNCHANGED executing /\ g.pc \notin Blocked
    BY <1>6 DEF s
  <2>2. r[2].pc \in CallStages /\ r[1].pc \notin Blocked
    BY <1>1, <1>3, <1>6, <2>1
  <2>3. executing'
    BY <1>3, <1>6, <2>1
  <2>4. \E i \in 1 .. Len(r) : r[i].pc \in CallStages \cup {"thrown"}
    BY <1>1, <1>6, <2>2
  <2> QED
    BY <1>1, <1>6, <2>2, <2>3, <2>4 DEF NestInv, r
<1>7. Len(s) = 1 \/ Len(s) = 2
  BY <1>1, <1>3
<1> QED
  BY <1>5, <1>6, <1>7

LEMMA PassStepKeepsNestInv ==
  ASSUME Threads = {GameThread}, TypeInv, NestInv, NEW t \in Threads, PassStep(t)
  PROVE  NestInv'
<1> DEFINE f == Top(t)
           s == stack[GameThread]
<1>1. TypeInv' /\ t = GameThread
  BY PassStepKeepsTypes, Zenon
<1>2. stack[t] # <<>>
  BY DEF PassStep, TakeSimple, DeferSimple, CheckSimple, EnterSimple, LeaveSimple,
         RequeueDeferred, CollectReady, CheckDelayed, EnterDelayed,
         LeaveDelayed, SettleReady, MergePending, At
<1>3. /\ f = s[1] /\ f \in ProperFrames /\ f \in Frames
      /\ s \in Seq(ProperFrames) /\ Len(s) \in Nat \ {0}
  BY <1>1, <1>2, TopIsProper DEF Top, ProperFrames, TypeInv, StackOK
<1>4. /\ Len(s) <= 2
      /\ Len(s) = 2 => s[2].pc \in CallStages /\ s[1].pc \notin Blocked
      /\ executing <=> \E i \in 1 .. Len(s) : s[i].pc \in CallStages \cup {"thrown"}
  BY DEF NestInv
<1> HIDE DEF s
<1>5. Len(s) = 1 \/ Len(s) = 2
  <2>1. Len(s) <= 2 /\ Len(s) \in Nat \ {0}
    BY <1>3, <1>4
  <2>2. \A n \in Nat \ {0} : n <= 2 => n = 1 \/ n = 2
    OBVIOUS
  <2> QED
    BY <2>1, <2>2
<1>6. f.pc \in Blocked => Len(s) = 1
  <2>1. Len(s) = 2 => f.pc \notin Blocked
    BY <1>3, <1>4
  <2> QED
    BY <1>5, <2>1
<1>7. ~executing => Len(s) = 1
  <2>1. Len(s) = 2 => executing
    BY <1>4
  <2> QED
    BY <1>5, <2>1
<1>8. ASSUME UNCHANGED executing, f.pc \notin CallStages \cup {"thrown"},
             \E g : SetTop(t, g) /\ g.pc \notin Blocked
      PROVE  NestInv'
  <2>1. PICK g : SetTop(t, g) /\ g.pc \notin Blocked
    BY <1>8
  <2> QED
    BY <1>1, <1>2, <1>8, <2>1, NestReplaced
<1>9. ASSUME Len(s) = 1,
             \E g : SetTop(t, g) /\ (executing' <=> g.pc \in CallStages \cup {"thrown"})
      PROVE  NestInv'
  <2>1. PICK g : SetTop(t, g) /\ (executing' <=> g.pc \in CallStages \cup {"thrown"})
    BY <1>9
  <2>2. Len(stack[t]) = 1
    BY <1>1, <1>9 DEF s
  <2> QED
    BY <1>1, <1>2, <2>1, <2>2, NestReplaced
<1>10. CASE TakeSimple(t)
  <2> DEFINE g == [f EXCEPT !.pc = "simple", !.todo = simple[f.exec]]
  <2>1. SetTop(t, g) /\ UNCHANGED executing /\ f.pc = "drain"
    BY <1>10 DEF TakeSimple, At
  <2>2. g.pc = "simple"
    BY <1>3 DEF Frames
  <2> HIDE DEF g
  <2> QED
    BY <1>8, <2>1, <2>2 DEF CallStages, Blocked
<1>11. CASE DeferSimple(t)
  <2> DEFINE g == [f EXCEPT !.deferred = Append(@, Head(f.todo)), !.todo = Tail(@)]
  <2>1. SetTop(t, g) /\ UNCHANGED executing /\ f.pc = "simple"
    BY <1>11 DEF DeferSimple, At
  <2>2. g.pc = "simple"
    BY <1>3, <2>1 DEF Frames
  <2> HIDE DEF g
  <2> QED
    BY <1>8, <2>1, <2>2 DEF CallStages, Blocked
<1>12. CASE CheckSimple(t)
  <2> DEFINE g == [f EXCEPT !.pc = "enterSimple"]
  <2>1. SetTop(t, g) /\ ~executing /\ ~executing'
    BY <1>12 DEF CheckSimple, Goto
  <2>2. g.pc = "enterSimple"
    BY <1>3 DEF Frames
  <2> HIDE DEF g
  <2> QED
    BY <1>7, <1>9, <2>1, <2>2 DEF CallStages
<1>13. CASE EnterSimple(t)
  <2> DEFINE g == [f EXCEPT !.pc = "callSimple"]
  <2>1. SetTop(t, g) /\ executing' /\ f.pc = "enterSimple"
    BY <1>13 DEF EnterSimple, Goto, At
  <2>2. g.pc = "callSimple"
    BY <1>3 DEF Frames
  <2> HIDE DEF g
  <2> QED
    BY <1>6, <1>9, <2>1, <2>2 DEF CallStages, Blocked
<1>14. CASE LeaveSimple(t)
  <2> DEFINE g == [f EXCEPT !.pc = "simple", !.todo = Tail(@)]
  <2>1. SetTop(t, g) /\ ~executing' /\ f.pc = "callSimple"
    BY <1>14 DEF LeaveSimple, At
  <2>2. g.pc = "simple"
    BY <1>3 DEF Frames
  <2> HIDE DEF g
  <2> QED
    BY <1>6, <1>9, <2>1, <2>2 DEF CallStages, Blocked
<1>15. CASE RequeueDeferred(t)
  <2> DEFINE g == [f EXCEPT !.pc = "collect", !.deferred = <<>>]
  <2>1. SetTop(t, g) /\ UNCHANGED executing /\ f.pc = "simple"
    BY <1>15 DEF RequeueDeferred, At
  <2>2. g.pc = "collect"
    BY <1>3 DEF Frames
  <2> HIDE DEF g
  <2> QED
    BY <1>8, <2>1, <2>2 DEF CallStages, Blocked
<1>16. CASE CollectReady(t)
  <2>1. PICK due : SetTop(t, [f EXCEPT !.pc = "delayed", !.ready = due, !.unrun = due])
    BY <1>16 DEF CollectReady
  <2> DEFINE g == [f EXCEPT !.pc = "delayed", !.ready = due, !.unrun = due]
  <2>2. SetTop(t, g) /\ UNCHANGED executing /\ f.pc = "collect"
    BY <1>16, <2>1 DEF CollectReady, At
  <2>3. g.pc = "delayed"
    BY <1>3 DEF Frames
  <2> HIDE DEF g
  <2> QED
    BY <1>8, <2>2, <2>3 DEF CallStages, Blocked
<1>17. CASE CheckDelayed(t)
  <2>1. CASE executing
    <3> DEFINE g == [f EXCEPT !.unrun = @ \ {Current(f)}]
    <3>1. SetTop(t, g) /\ UNCHANGED executing /\ f.pc = "delayed"
      BY <1>17, <2>1 DEF CheckDelayed, At
    <3>2. g.pc = "delayed"
      BY <1>3, <3>1 DEF Frames
    <3> HIDE DEF g
    <3> QED
      BY <1>8, <3>1, <3>2 DEF CallStages, Blocked
  <2>2. CASE ~executing
    <3> DEFINE g == [f EXCEPT !.pc = "enterDelayed"]
    <3>1. SetTop(t, g) /\ ~executing'
      BY <1>17, <2>2 DEF CheckDelayed, Goto
    <3>2. g.pc = "enterDelayed"
      BY <1>3 DEF Frames
    <3> HIDE DEF g
    <3> QED
      BY <1>7, <1>9, <2>2, <3>1, <3>2 DEF CallStages
  <2> QED
    BY <2>1, <2>2
<1>18. CASE EnterDelayed(t)
  <2>1. PICK pc \in {"callDelayed", "thrown"} : SetTop(t, [f EXCEPT !.pc = pc])
    BY <1>18 DEF EnterDelayed, Goto
  <2> DEFINE g == [f EXCEPT !.pc = pc]
  <2>2. SetTop(t, g) /\ executing' /\ f.pc = "enterDelayed"
    BY <1>18, <2>1 DEF EnterDelayed, At
  <2>3. g.pc = pc
    BY <1>3 DEF Frames
  <2> HIDE DEF g
  <2> QED
    BY <1>6, <1>9, <2>2, <2>3 DEF CallStages, Blocked
<1>19. CASE LeaveDelayed(t)
  <2> DEFINE g == [f EXCEPT !.pc = "delayed", !.unrun = @ \ {Current(f)}]
  <2>1. SetTop(t, g) /\ ~executing' /\ f.pc = "callDelayed"
    BY <1>19 DEF LeaveDelayed, At
  <2>2. g.pc = "delayed"
    BY <1>3 DEF Frames
  <2> HIDE DEF g
  <2> QED
    BY <1>6, <1>9, <2>1, <2>2 DEF CallStages, Blocked
<1>20. CASE SettleReady(t)
  <2> DEFINE g == [f EXCEPT !.pc = "merge", !.ready = {}]
  <2>1. SetTop(t, g) /\ UNCHANGED executing /\ f.pc = "delayed"
    BY <1>20 DEF SettleReady, At
  <2>2. g.pc = "merge"
    BY <1>3 DEF Frames
  <2> HIDE DEF g
  <2> QED
    BY <1>8, <2>1, <2>2 DEF CallStages, Blocked
<1>21. CASE MergePending(t)
  <2> DEFINE r == stack'[GameThread]
  <2>1. f.pc = "merge" /\ UNCHANGED executing /\ stack' = [stack EXCEPT ![t] = Tail(@)]
    BY <1>21 DEF MergePending, At
  <2>2. r = Tail(s)
    BY <1>1, <2>1 DEF TypeInv, StackOK, s
  <2>3. s # <<>>
    BY <1>1, <1>2 DEF s
  <2>4. Len(r) = Len(s) - 1 /\ \A i \in 1 .. Len(r) : r[i] = s[i + 1]
    BY <1>3, <2>2, <2>3, HeadTailProperties
  <2>5. f.pc \notin CallStages \cup {"thrown"}
    BY <2>1 DEF CallStages
  <2>6. executing <=> \E i \in 1 .. Len(r) : r[i].pc \in CallStages \cup {"thrown"}
    <3>1. CASE Len(s) = 1
      BY <1>3, <1>4, <2>4, <2>5, <3>1
    <3>2. CASE Len(s) = 2
      <4>1. executing
        BY <1>4, <3>2
      <4>2. 1 \in 1 .. Len(r) /\ r[1].pc \in CallStages
        BY <1>4, <2>4, <3>2
      <4> QED
        BY <4>1, <4>2
    <3> QED
      BY <1>5, <3>1, <3>2
  <2>7. Len(r) < 2
    BY <1>3, <1>4, <2>4
  <2>8. executing' <=> \E i \in 1 .. Len(r) : r[i].pc \in CallStages \cup {"thrown"}
    BY <2>1, <2>6
  <2>9. Len(r) \in Nat
    BY <1>3, <2>4
  <2> QED
    BY <2>7, <2>8, <2>9 DEF NestInv
<1> QED
  BY <1>10, <1>11, <1>12, <1>13, <1>14, <1>15, <1>16, <1>17, <1>18, <1>19, <1>20, <1>21
     DEF PassStep

LEMMA NestInvInductive ==
  ASSUME Threads = {GameThread}
  PROVE  /\ Init => NestInv
         /\ TypeInv /\ NestInv /\ [Next]_vars => NestInv'
<1>1. Init => NestInv
  BY ThreadAssumption, EmptySeq DEF Init, NestInv
<1>2. ASSUME TypeInv, NestInv, [Next]_vars
      PROVE  NestInv'
  <2>1. ASSUME UNCHANGED <<executing, stack>>
        PROVE  NestInv'
    BY <1>2, <2>1 DEF NestInv
  <2>2. ASSUME NEW e \in Methods, Begin(GameThread, e), Outside(GameThread)
        PROVE  NestInv'
    <3> DEFINE g == [exec |-> e, pc |-> "drain", todo |-> <<>>, deferred |-> <<>>,
                     ready |-> {}, unrun |-> {}]
               s == stack[GameThread]
               r == stack'[GameThread]
    <3>1. UNCHANGED executing /\ stack' = [stack EXCEPT ![GameThread] = <<g>> \o @]
      BY <2>2 DEF Begin
    <3>2. g.pc = "drain"
      OBVIOUS
    <3>3. TypeInv'
      BY <1>2, <2>2, BeginKeepsTypes
    <3>4. s \in Seq(ProperFrames) /\ r \in Seq(ProperFrames)
      BY <1>2, <3>3, ThreadAssumption DEF TypeInv, StackOK
    <3>5. r = <<g>> \o s
      BY <1>2, <3>1, ThreadAssumption DEF TypeInv, StackOK
    <3>6. /\ Len(s) <= 2
          /\ Len(s) = 2 => s[2].pc \in CallStages /\ s[1].pc \notin Blocked
          /\ executing <=> \E i \in 1 .. Len(s) : s[i].pc \in CallStages \cup {"thrown"}
      BY <1>2 DEF NestInv
    <3>7. s # <<>> => s[1].pc \in CallStages
      BY <2>2 DEF Outside, Top, CallStages
    <3> HIDE DEF g, s, r
    <3>8. Len(s) \in Nat /\ (s = <<>> <=> Len(s) = 0)
      BY <3>4, EmptySeq, LenProperties
    <3>9. Len(s) = 0 \/ Len(s) = 1
      <4>1. Len(s) <= 2 /\ Len(s) \in Nat
        BY <3>6, <3>8
      <4>2. Len(s) # 2
        <5>1. Len(s) = 2 => s[1].pc \notin Blocked /\ s # <<>>
          BY <3>6, <3>8
        <5> QED
          BY <3>7, <5>1 DEF Blocked
      <4>3. \A n \in Nat : n <= 2 => n = 0 \/ n = 1 \/ n = 2
        OBVIOUS
      <4> QED
        BY <4>1, <4>2, <4>3
    <3>10. Len(r) = 1 + Len(s) /\ r[1] = g /\ \A i \in 2 .. Len(r) : r[i] = s[i - 1]
      <4>1. /\ Len(<<g>>) = 1 /\ <<g>>[1] = g
        OBVIOUS
      <4> QED
        BY <3>4, <3>5, <3>8, <4>1
    <3>11. CASE Len(s) = 0
      <4>1. ~executing
        BY <3>6, <3>11
      <4>2. ~ \E i \in 1 .. Len(r) : r[i].pc \in CallStages \cup {"thrown"}
        BY <3>2, <3>10, <3>11 DEF CallStages
      <4> QED
        BY <3>1, <3>10, <3>11, <4>1, <4>2 DEF NestInv, r
    <3>12. CASE Len(s) = 1
      <4>1. executing
        BY <3>6, <3>7, <3>8, <3>12
      <4>2. Len(r) = 2 /\ r[2].pc \in CallStages /\ r[1].pc \notin Blocked
        BY <3>2, <3>7, <3>8, <3>10, <3>12 DEF Blocked, CallStages
      <4>3. \E i \in 1 .. Len(r) : r[i].pc \in CallStages \cup {"thrown"}
        BY <4>2
      <4>4. executing' <=> \E i \in 1 .. Len(r) : r[i].pc \in CallStages \cup {"thrown"}
        BY <3>1, <4>1, <4>3
      <4>5. Len(r) <= 2
        BY <4>2
      <4> QED
        BY <4>2, <4>4, <4>5 DEF NestInv, r
    <3> QED
      BY <3>9, <3>11, <3>12
  <2>3. ASSUME EngineTickHook
        PROVE  NestInv'
    BY <2>2, <2>3 DEF EngineTickHook, Outside, Methods
  <2>4. ASSUME NEW t \in Threads, ProcessEventHook(t)
        PROVE  NestInv'
    BY <2>2, <2>4 DEF ProcessEventHook, Methods
  <2>5. ASSUME NEW t \in Threads, MakeActionHandleRead(t) \/ MakeActionHandleWrite(t)
        PROVE  NestInv'
    BY <2>1, <2>5 DEF MakeActionHandleRead, MakeActionHandleWrite
  <2>6. ASSUME NEW t \in Threads, NEW m \in Mods, Registration(t, m)
        PROVE  NestInv'
    <3>1. UNCHANGED <<executing, stack>>
      BY <2>6 DEF Registration, ExecuteInGameThread, RegisterDelayed, ExecuteWithHandle,
                  Retrigger
    <3> QED
      BY <2>1, <3>1
  <2>7. ASSUME NEW t \in Threads, NEW m \in Mods, Controlling(t, m)
        PROVE  NestInv'
    <3>1. UNCHANGED <<executing, stack>>
      BY <2>7 DEF Controlling, ResetDelayedActionTimer, SetDelayedActionTimer,
                  PauseDelayedAction, UnpauseDelayedAction, CancelDelayedAction,
                  ClearAllDelayedActions, Control
    <3> QED
      BY <2>1, <3>1
  <2>8. ASSUME Tick
        PROVE  NestInv'
    BY <2>1, <2>8 DEF Tick
  <2>9. ASSUME UNCHANGED vars
        PROVE  NestInv'
    BY <2>1, <2>9 DEF vars
  <2> QED
    BY <1>2, <2>3, <2>4, <2>5, <2>6, <2>7, <2>8, <2>9, PassStepKeepsNestInv DEF Next
<1> QED
  BY <1>1, <1>2

LEMMA NestInvImplies ==
  ASSUME Threads = {GameThread}, TypeInv, NestInv
  PROVE  CallbacksDoNotNest
<1> DEFINE s == stack[GameThread]
           InCallback == {p \in Passes : PassOf(p).pc \in {"callSimple", "callDelayed"}}
<1>1. /\ Len(s) <= 2
      /\ Len(s) = 2 => s[2].pc \in CallStages /\ s[1].pc \notin Blocked
      /\ executing <=> \E i \in 1 .. Len(s) : s[i].pc \in CallStages \cup {"thrown"}
  BY DEF NestInv
<1>2. s \in Seq(ProperFrames) /\ Len(s) \in Nat
  BY LenProperties, ThreadAssumption DEF TypeInv, StackOK
<1>3. ASSUME NEW p \in InCallback
      PROVE  p = <<GameThread, p[2]>> /\ p[2] \in 1 .. Len(s) /\ s[p[2]].pc \in CallStages
  <2>1. p \in Threads \X (1 .. MaxDepth) /\ p[2] <= Len(stack[p[1]])
    BY DEF Passes
  <2>2. p[1] = GameThread /\ p[2] \in 1 .. MaxDepth /\ p = <<p[1], p[2]>>
    BY <2>1
  <2> QED
    BY <1>2, <2>1, <2>2, BoundAssumption DEF PassOf, CallStages
<1> HIDE DEF InCallback, s
<1>4. ASSUME NEW p \in InCallback, NEW q \in InCallback
      PROVE  p = q /\ executing
  <2>1. p[2] = Len(s) /\ q[2] = Len(s)
    BY <1>1, <1>2, <1>3 DEF Blocked
  <2> QED
    BY <1>1, <1>3, <2>1
<1> QED
  BY <1>4 DEF CallbacksDoNotNest, InCallback

\* As long as one thread only runs Lua and calls UFunctions, no callback begins inside
\* another one, however deeply the hooks nest.
THEOREM CallbacksNeverNest ==
  ASSUME Threads = {GameThread}
  PROVE  Spec => []CallbacksDoNotNest
<1>1. /\ Init => TypeInv /\ NestInv
      /\ TypeInv /\ NestInv /\ [Next]_vars => (TypeInv /\ NestInv)'
  BY TypeInvInductive, NestInvInductive
<1>2. TypeInv /\ NestInv => CallbacksDoNotNest
  BY NestInvImplies
<1> QED
  BY <1>1, <1>2, PTL DEF Spec

\* All handles in use were given out, and a handle being made is the next one.
HandleInv ==
  /\ making[GameThread] \in {0, nextHandle}
  /\ \A a \in Actions : a < nextAction => act[a].handle < nextHandle
  /\ LiveHandlesUnique

\* What holds when nothing is registered.
LEMMA HandlesStay ==
  ASSUME TypeInv, TypeInv', HandleInv, CancelStep, ActionsKept,
         nextHandle <= nextHandle', making'[GameThread] \in {0, nextHandle'}
  PROVE  HandleInv'
<1>1. nextHandle \in Nat /\ nextHandle' \in Nat
  BY BoundAssumption DEF TypeInv, HandlesOK
<1>2. \A a \in Actions : act[a].handle \in Nat /\ act'[a].handle = act[a].handle
  BY DEF TypeInv, RegistryOK, Attributes, ActionsKept, SameAction
<1>3. \A a \in Actions : a < nextAction' => act'[a].handle < nextHandle'
  BY <1>1, <1>2 DEF HandleInv, ActionsKept
<1>4. \A a \in Listed' : /\ a \in Actions /\ a \in Listed
                         /\ act'[a].status # "PendingRemoval" => act[a].status # "PendingRemoval"
  BY ListedAreActions DEF ActionsKept, CancelStep
<1>5. LiveHandlesUnique'
  BY <1>2, <1>4 DEF HandleInv, LiveHandlesUnique, Listed
<1> QED
  BY <1>3, <1>5 DEF HandleInv

\* A new action's handle is fresh, or no live action has it.
LEMMA NewHandleIsUnique ==
  ASSUME TypeInv, TypeInv', Fresh, HandleInv, CancelStep, NEW m \in Mods, NewListed(m),
         making[GameThread] = 0, UNCHANGED making
  PROVE  HandleInv'
<1>1. PICK x \in Attributes :
        /\ Insert(x)
        /\ \/ x.handle = nextHandle /\ nextHandle' = nextHandle + 1
           \/ x.handle < nextHandle /\ nextHandle' = nextHandle /\ LiveWith(x.handle) = {}
  BY DEF NewListed
<1>2. /\ nextAction \in Actions /\ nextAction' = nextAction + 1
      /\ act' = [act EXCEPT ![nextAction] = x]
      /\ Listed' = Listed \cup {nextAction}
  BY <1>1, InsertLists
<1>3. /\ act'[nextAction] = x
      /\ \A a \in Actions \ {nextAction} : act'[a] = act[a]
  BY <1>2 DEF TypeInv, RegistryOK
<1>4. nextHandle \in Nat /\ nextHandle' \in Nat /\ x.handle \in Nat /\ nextAction \in Nat
  BY <1>2, BoundAssumption DEF TypeInv, HandlesOK, Attributes, Actions
<1>5. \A a \in Actions : act[a].handle \in Nat
  BY DEF TypeInv, RegistryOK, Attributes
<1>6. x.handle < nextHandle' /\ nextHandle <= nextHandle'
  BY <1>1, <1>4
<1>7. ASSUME NEW a \in Actions, a < nextAction'
      PROVE  act'[a].handle < nextHandle'
  <2>1. CASE a = nextAction
    BY <1>3, <1>6, <2>1
  <2>2. CASE a # nextAction
    <3>1. a < nextAction
      BY <1>2, <1>4, <1>7, <2>2 DEF Actions
    <3>2. act[a].handle < nextHandle
      BY <3>1 DEF HandleInv
    <3> QED
      BY <1>3, <1>4, <1>5, <1>6, <2>2, <3>2
  <2> QED
    BY <2>1, <2>2
<1>8. ASSUME NEW a \in Listed, act[a].status # "PendingRemoval"
      PROVE  act[a].handle # x.handle
  <2>1. a \in Actions /\ a < nextAction
    BY ListedAreActions DEF Fresh, Listed
  <2>2. act[a].handle < nextHandle
    BY <2>1 DEF HandleInv
  <2>3. CASE x.handle = nextHandle
    BY <1>4, <2>2, <2>3
  <2>4. CASE LiveWith(x.handle) = {}
    BY <1>8, <2>4 DEF LiveWith, Listed
  <2> QED
    BY <1>1, <2>3, <2>4
<1>9. nextAction \notin Listed
  BY <1>2, <1>4 DEF Fresh, Listed
<1>10. \A a \in Listed : a \in Actions /\ a # nextAction /\ act'[a] = act[a]
  BY <1>3, <1>9, ListedAreActions
<1>11. ASSUME NEW a \in Listed', act'[a].status # "PendingRemoval",
              NEW b \in Listed', act'[b].status # "PendingRemoval",
              act'[a].handle = act'[b].handle
       PROVE  a = b
  <2>1. CASE a \in Listed /\ b \in Listed
    BY <1>10, <1>11, <2>1 DEF HandleInv, LiveHandlesUnique, Listed
  <2>2. CASE a \in Listed /\ b = nextAction
    BY <1>3, <1>8, <1>10, <1>11, <2>2
  <2>3. CASE a = nextAction /\ b \in Listed
    BY <1>3, <1>8, <1>10, <1>11, <2>3
  <2> QED
    BY <1>2, <2>1, <2>2, <2>3
<1>12. LiveHandlesUnique'
  BY <1>11 DEF LiveHandlesUnique, Listed
<1> QED
  BY <1>7, <1>12 DEF HandleInv

LEMMA HandleInvInductive ==
  ASSUME Threads = {GameThread}
  PROVE  /\ Init => HandleInv
         /\ TypeInv /\ Fresh /\ HandleInv /\ [Next]_vars => HandleInv'
<1>1. Init => HandleInv
  <2> SUFFICES ASSUME Init
               PROVE  HandleInv
    OBVIOUS
  <2>1. making[GameThread] = 0 /\ nextAction = 1 /\ queue = <<>> /\ pendingQueue = <<>>
    BY ThreadAssumption DEF Init
  <2>2. \A a \in Actions : ~(a < nextAction)
    BY <2>1 DEF Actions
  <2>3. LiveHandlesUnique
    BY <2>1, RangeOfEmpty DEF LiveHandlesUnique
  <2> QED
    BY <2>1, <2>2, <2>3 DEF HandleInv
<1>2. ASSUME TypeInv, Fresh, HandleInv, [Next]_vars
      PROVE  HandleInv'
  <2>1. TypeInv' /\ CancelStep
    BY <1>2, TypeInvInductive, FreshInductive
  <2>2. nextHandle \in Nat /\ making \in [Threads -> 0 .. MaxHandle]
    BY <1>2, BoundAssumption DEF TypeInv, HandlesOK
  <2>3. ASSUME ActionsKept, UNCHANGED <<nextHandle, making>>
        PROVE  HandleInv'
    BY <1>2, <2>1, <2>2, <2>3, HandlesStay DEF HandleInv
  <2>4. ASSUME NEW t \in Threads, NEW m \in Mods, Registration(t, m)
        PROVE  HandleInv'
    <3>1. t = GameThread /\ making[t] = 0 /\ UNCHANGED making
      BY <2>4 DEF Registration, ExecuteInGameThread, RegisterDelayed, ExecuteWithHandle,
                  Retrigger, Calling, Outside
    <3> QED
      BY <1>2, <2>1, <2>3, <2>4, <3>1, RegistrationLists, NewHandleIsUnique, Zenon
  <2>5. ASSUME NEW t \in Threads, NEW m \in Mods, Controlling(t, m)
        PROVE  HandleInv'
    <3>1. UNCHANGED making
      BY <2>5 DEF Controlling, ResetDelayedActionTimer, SetDelayedActionTimer,
                  PauseDelayedAction, UnpauseDelayedAction, CancelDelayedAction,
                  ClearAllDelayedActions, Control
    <3> QED
      BY <1>2, <2>3, <2>5, <3>1, ControllingLists
  <2>6. ASSUME NEW t \in Threads, MakeActionHandleRead(t)
        PROVE  HandleInv'
    <3>1. t = GameThread /\ ActionsKept /\ nextHandle' = nextHandle
          /\ making'[GameThread] = nextHandle
      BY <2>2, <2>6, RegistryUnchanged, ThreadAssumption DEF MakeActionHandleRead
    <3> QED
      BY <1>2, <2>1, <2>2, <3>1, HandlesStay
  <2>7. ASSUME NEW t \in Threads, MakeActionHandleWrite(t)
        PROVE  HandleInv'
    <3>1. t = GameThread /\ ActionsKept /\ nextHandle' = making[GameThread] + 1
          /\ making[GameThread] # 0 /\ making'[GameThread] = 0
      BY <2>2, <2>7, RegistryUnchanged, ThreadAssumption DEF MakeActionHandleWrite
    <3>2. making[GameThread] = nextHandle
      BY <1>2, <3>1 DEF HandleInv
    <3>3. nextHandle <= nextHandle'
      BY <2>2, <3>1, <3>2
    <3> QED
      BY <1>2, <2>1, <3>1, <3>3, HandlesStay
  <2>8. ASSUME NEW t \in Threads, PassStep(t)
        PROVE  HandleInv'
    <3>1. UNCHANGED <<nextHandle, making>>
      BY <2>8 DEF PassStep, TakeSimple, DeferSimple, CheckSimple, EnterSimple, LeaveSimple,
                  RequeueDeferred, CollectReady, CheckDelayed, EnterDelayed, LeaveDelayed,
                  SettleReady, MergePending
    <3> QED
      BY <1>2, <2>3, <2>8, <3>1, PassStepLists
  <2>9. ASSUME EngineTickHook \/ \E t \in Threads : ProcessEventHook(t)
        PROVE  HandleInv'
    BY <2>3, <2>9, RegistryUnchanged DEF EngineTickHook, ProcessEventHook, Begin
  <2>10. ASSUME Tick
         PROVE  HandleInv'
    <3>1. UNCHANGED <<nextHandle, making>>
      BY <2>10 DEF Tick
    <3> QED
      BY <1>2, <2>3, <2>10, <3>1, TickLists
  <2>11. ASSUME UNCHANGED vars
         PROVE  HandleInv'
    BY <2>3, <2>11, RegistryUnchanged DEF vars, registry
  <2> QED
    BY <1>2, <2>4, <2>5, <2>6, <2>7, <2>8, <2>9, <2>10, <2>11 DEF Next
<1> QED
  BY <1>1, <1>2

\* As long as one thread only runs Lua, no live handle ever designates two actions:
\* neither the overloads that are given one, nor a handle made in advance, nor a
\* retriggering of a handle whose action is gone.
THEOREM HandlesStayUnique ==
  ASSUME Threads = {GameThread}
  PROVE  Spec => []LiveHandlesUnique
<1>1. /\ Init => TypeInv /\ Fresh /\ HandleInv
      /\ TypeInv /\ Fresh /\ HandleInv /\ [Next]_vars => (TypeInv /\ Fresh /\ HandleInv)'
  BY TypeInvInductive, FreshInductive, HandleInvInductive
<1>2. HandleInv => LiveHandlesUnique
  BY DEF HandleInv
<1> QED
  BY <1>1, <1>2, PTL DEF Spec

-----------------------------------------------------------------------------
(* Every registered simple action is in exactly one place, however the     *)
(* passes of all threads interleave and nest.                              *)

\* Where a pass t has open keeps its actions: by depth, the outermost pass being the first.
PassAt(t, d) == stack[t][Len(stack[t]) + 1 - d]
TodoAt(t, d) == IF d <= Len(stack[t]) THEN PassAt(t, d).todo ELSE <<>>
DeferredAt(t, d) == IF d <= Len(stack[t]) THEN PassAt(t, d).deferred ELSE <<>>

\* The vectors that hold simple actions: their keys, and what each holds.
PassPlaces == {"todo", "deferred"} \X Threads \X (1 .. MaxDepth)
Places == ({"queue", "pending"} \X Methods \X {0}) \cup PassPlaces \cup {<<"ran", GameThread, 0>>}

HeldIn ==
  [k \in Places |->
     CASE k[1] = "queue" -> simple[k[2]]
       [] k[1] = "pending" -> pendingSimple[k[2]]
       [] k[1] = "todo" -> TodoAt(k[2], k[3])
       [] k[1] = "deferred" -> DeferredAt(k[2], k[3])
       [] k[1] = "ran" -> ran]

\* Outside its simple stages a pass holds none.
HoldsNone(f) ==
  f.pc \notin {"simple", "enterSimple", "callSimple"} => f.todo = <<>> /\ f.deferred = <<>>

PassesHoldNone == \A t \in Threads : \A i \in 1 .. Len(stack[t]) : HoldsNone(stack[t][i])

\* Each is at most once in the places, and was registered.
PlacesOK ==
  /\ PassesHoldNone
  /\ Apart(HeldIn)
  /\ \A s \in Members(HeldIn) : s < nextSimple

\* Steps that take no action away and bring none.
NoneMoved ==
  /\ PlacesOK' /\ Members(HeldIn)' = Members(HeldIn)
  /\ UNCHANGED <<simpleOwner, nextSimple>>

\* A step that registers one, for mod m.
OneMore(m) ==
  /\ PlacesOK' /\ Members(HeldIn)' = Members(HeldIn) \cup {nextSimple}
  /\ nextSimple' = nextSimple + 1
  /\ simpleOwner' = [simpleOwner EXCEPT ![nextSimple] = m]

LEMMA HeldInPlaces ==
  /\ \A e \in Methods : /\ <<"queue", e, 0>> \in Places /\ HeldIn[<<"queue", e, 0>>] = simple[e]
                        /\ <<"pending", e, 0>> \in Places
                        /\ HeldIn[<<"pending", e, 0>>] = pendingSimple[e]
  /\ \A t \in Threads, d \in 1 .. MaxDepth :
       /\ <<"todo", t, d>> \in Places /\ HeldIn[<<"todo", t, d>>] = TodoAt(t, d)
       /\ <<"deferred", t, d>> \in Places /\ HeldIn[<<"deferred", t, d>>] = DeferredAt(t, d)
  /\ <<"ran", GameThread, 0>> \in Places /\ HeldIn[<<"ran", GameThread, 0>>] = ran
BY DEF HeldIn, Places, PassPlaces

LEMMA PlacesAreThese ==
  ASSUME NEW k \in Places
  PROVE  \/ \E e \in Methods : k = <<"queue", e, 0>> \/ k = <<"pending", e, 0>>
         \/ \E t \in Threads, d \in 1 .. MaxDepth : k = <<"todo", t, d>> \/ k = <<"deferred", t, d>>
         \/ k = <<"ran", GameThread, 0>>
BY DEF Places, PassPlaces

\* The same after a step, and the types.
LEMMA HeldInPlacesNext ==
  /\ \A e \in Methods : /\ HeldIn'[<<"queue", e, 0>>] = simple'[e]
                        /\ HeldIn'[<<"pending", e, 0>>] = pendingSimple'[e]
  /\ \A t \in Threads, d \in 1 .. MaxDepth :
       /\ HeldIn'[<<"todo", t, d>>] = TodoAt(t, d)'
       /\ HeldIn'[<<"deferred", t, d>>] = DeferredAt(t, d)'
  /\ HeldIn'[<<"ran", GameThread, 0>>] = ran'
<1>1. \A e \in Methods : <<"queue", e, 0>> \in Places /\ <<"pending", e, 0>> \in Places
  BY HeldInPlaces
<1>2. \A t \in Threads, d \in 1 .. MaxDepth : <<"todo", t, d>> \in Places /\ <<"deferred", t, d>> \in Places
  BY HeldInPlaces
<1>3. <<"ran", GameThread, 0>> \in Places
  BY HeldInPlaces
<1> QED
  BY <1>1, <1>2, <1>3 DEF HeldIn

HeldInTyped == HeldIn \in [Places -> Seq(SimpleActions)]

LEMMA HeldInIsTyped == TypeInv => HeldInTyped
<1> SUFFICES ASSUME TypeInv
             PROVE  HeldIn \in [Places -> Seq(SimpleActions)]
  BY DEF HeldInTyped
<1>1. <<>> \in Seq(SimpleActions)
  BY EmptySeq
<1>2. \A e \in Methods : simple[e] \in Seq(SimpleActions) /\ pendingSimple[e] \in Seq(SimpleActions)
  BY DEF TypeInv, SimplesOK
<1>3. ASSUME NEW t \in Threads, NEW d \in 1 .. MaxDepth
      PROVE  TodoAt(t, d) \in Seq(SimpleActions) /\ DeferredAt(t, d) \in Seq(SimpleActions)
  <2>1. CASE d <= Len(stack[t])
    <3>1. stack[t] \in Seq(ProperFrames) /\ Len(stack[t]) \in Nat
      BY LenProperties DEF TypeInv, StackOK
    <3>2. Len(stack[t]) + 1 - d \in 1 .. Len(stack[t])
      BY <2>1, <3>1, BoundAssumption
    <3>3. PassAt(t, d) \in ProperFrames
      BY <3>1, <3>2, ElementOfSeq DEF PassAt
    <3>4. PassAt(t, d).todo \in Seq(SimpleActions) /\ PassAt(t, d).deferred \in Seq(SimpleActions)
      BY <3>3 DEF ProperFrames, Frames
    <3> QED
      BY <2>1, <3>4 DEF TodoAt, DeferredAt
  <2> QED
    BY <1>1, <2>1 DEF TodoAt, DeferredAt
<1>4. ran \in Seq(SimpleActions)
  BY DEF TypeInv, HistoryOK
<1>5. ASSUME NEW k \in Places
      PROVE  HeldIn[k] \in Seq(SimpleActions)
  <2>1. CASE \E e \in Methods : k = <<"queue", e, 0>> \/ k = <<"pending", e, 0>>
    BY <1>2, <2>1, HeldInPlaces
  <2>2. CASE \E t \in Threads, d \in 1 .. MaxDepth : k = <<"todo", t, d>> \/ k = <<"deferred", t, d>>
    BY <1>3, <2>2, HeldInPlaces
  <2>3. CASE k = <<"ran", GameThread, 0>>
    BY <1>4, <2>3, HeldInPlaces
  <2> QED
    BY <2>1, <2>2, <2>3, PlacesAreThese
<1> QED
  BY <1>5 DEF HeldIn

LEMMA HeldInIsTypedNext == TypeInv' => HeldInTyped'
BY HeldInIsTyped, PTL

\* Replacing the innermost pass of a thread changes what that one holds.
LEMMA ReplacedHolds ==
  ASSUME TypeInv, TypeInv', NEW t \in Threads, stack[t] # <<>>, NEW g, SetTop(t, g),
         NEW d, d = Len(stack[t])
  PROVE  /\ d \in 1 .. MaxDepth
         /\ TodoAt(t, d) = Top(t).todo /\ DeferredAt(t, d) = Top(t).deferred
         /\ TodoAt(t, d)' = g.todo /\ DeferredAt(t, d)' = g.deferred
         /\ \A u \in Threads, c \in 1 .. MaxDepth : u # t \/ c # d =>
              TodoAt(u, c)' = TodoAt(u, c) /\ DeferredAt(u, c)' = DeferredAt(u, c)
         /\ PassesHoldNone /\ HoldsNone(g) => PassesHoldNone'
<1>1. /\ Len(stack'[t]) = Len(stack[t]) /\ Len(stack[t]) \in Nat \ {0}
      /\ stack'[t][1] = g
      /\ \A i \in 2 .. Len(stack[t]) : stack'[t][i] = stack[t][i]
  BY StackReplaced
<1>2. \A u \in Threads \ {t} : stack'[u] = stack[u]
  BY DEF SetTop, TypeInv, StackOK
<1>3. d \in 1 .. MaxDepth /\ MaxDepth \in Nat
  BY <1>1, BoundAssumption DEF TypeInv, StackOK
<1>4. Len(stack[t]) + 1 - d = 1 /\ Len(stack'[t]) + 1 - d = 1
  BY <1>1
<1>5. /\ TodoAt(t, d) = Top(t).todo /\ DeferredAt(t, d) = Top(t).deferred
      /\ TodoAt(t, d)' = g.todo /\ DeferredAt(t, d)' = g.deferred
  BY <1>1, <1>3, <1>4 DEF TodoAt, DeferredAt, PassAt, Top
<1>6. ASSUME NEW u \in Threads, NEW c \in 1 .. MaxDepth, u # t \/ c # d
      PROVE  TodoAt(u, c)' = TodoAt(u, c) /\ DeferredAt(u, c)' = DeferredAt(u, c)
  <2>1. CASE u # t
    BY <1>2, <2>1 DEF TodoAt, DeferredAt, PassAt
  <2>2. ASSUME u = t, c <= Len(stack[t])
        PROVE  PassAt(t, c)' = PassAt(t, c)
    <3>1. Len(stack[t]) + 1 - c \in 2 .. Len(stack[t])
      BY <1>1, <1>3, <1>6, <2>2
    <3> QED
      BY <1>1, <3>1 DEF PassAt
  <2> QED
    BY <1>1, <2>1, <2>2 DEF TodoAt, DeferredAt
<1>7. ASSUME PassesHoldNone, HoldsNone(g)
      PROVE  PassesHoldNone'
  <2> SUFFICES ASSUME NEW u \in Threads, NEW i \in 1 .. Len(stack'[u])
               PROVE  HoldsNone(stack'[u][i])
    BY DEF PassesHoldNone
  <2>1. CASE u # t
    BY <1>2, <1>7, <2>1 DEF PassesHoldNone
  <2>2. CASE u = t /\ i = 1
    BY <1>1, <1>7, <2>2
  <2>3. CASE u = t /\ i # 1
    <3>1. i \in 2 .. Len(stack[t]) /\ i \in 1 .. Len(stack[t])
      BY <1>1, <2>3
    <3> QED
      BY <1>1, <1>7, <2>3, <3>1 DEF PassesHoldNone
  <2> QED
    BY <2>1, <2>2, <2>3
<1> QED
  BY <1>3, <1>5, <1>6, <1>7

\* What the passes hold stays.
SameInPasses ==
  /\ PassesHoldNone'
  /\ \A t \in Threads, d \in 1 .. MaxDepth :
       TodoAt(t, d)' = TodoAt(t, d) /\ DeferredAt(t, d)' = DeferredAt(t, d)

\* What passes hold is then in the same places as before.
LEMMA PassPlacesStay ==
  ASSUME SameInPasses, NEW k,
         \E t \in Threads, d \in 1 .. MaxDepth : k = <<"todo", t, d>> \/ k = <<"deferred", t, d>>
  PROVE  HeldIn'[k] = HeldIn[k]
<1>1. PICK t \in Threads, d \in 1 .. MaxDepth : k = <<"todo", t, d>> \/ k = <<"deferred", t, d>>
  OBVIOUS
<1>2. HeldIn'[<<"todo", t, d>>] = TodoAt(t, d)' /\ HeldIn'[<<"deferred", t, d>>] = DeferredAt(t, d)'
  BY HeldInPlacesNext
<1>3. HeldIn[<<"todo", t, d>>] = TodoAt(t, d) /\ HeldIn[<<"deferred", t, d>>] = DeferredAt(t, d)
  BY HeldInPlaces
<1>4. TodoAt(t, d)' = TodoAt(t, d) /\ DeferredAt(t, d)' = DeferredAt(t, d)
  BY DEF SameInPasses
<1>5. CASE k = <<"todo", t, d>>
  BY <1>2, <1>3, <1>4, <1>5
<1>6. CASE k = <<"deferred", t, d>>
  BY <1>2, <1>3, <1>4, <1>6
<1> QED
  BY <1>1, <1>5, <1>6

\* A pass that begins holds no action, nor does one that ends.
LEMMA BeginHoldsNone ==
  ASSUME TypeInv, PassesHoldNone, NEW t \in Threads, NEW e \in Methods, Begin(t, e)
  PROVE  SameInPasses
<1> DEFINE f == [exec |-> e, pc |-> "drain", todo |-> <<>>, deferred |-> <<>>,
                 ready |-> {}, unrun |-> {}]
           s == stack[t]
           r == <<f>> \o s
<1>1. s \in Seq(ProperFrames) /\ Len(s) \in Nat
  BY LenProperties DEF TypeInv, StackOK
<1>2. /\ stack'[t] = r
      /\ \A u \in Threads \ {t} : stack'[u] = stack[u]
  BY DEF Begin, TypeInv, StackOK
<1>3. f.todo = <<>> /\ f.deferred = <<>> /\ HoldsNone(f)
  BY DEF HoldsNone
<1> HIDE DEF f
<1>4. <<f>> \in Seq({f}) /\ Len(<<f>>) = 1 /\ <<f>>[1] = f /\ s \in Seq(ProperFrames \cup {f})
  BY <1>1, SeqMonotonic
<1>5. /\ Len(r) = 1 + Len(s)
      /\ \A i \in 1 .. 1 + Len(s) : r[i] = IF i <= 1 THEN f ELSE s[i - 1]
  <2>1. <<f>> \in Seq(ProperFrames \cup {f})
    BY <1>4, SeqMonotonic
  <2>2. /\ Len(<<f>> \o s) = Len(<<f>>) + Len(s)
        /\ \A i \in 1 .. Len(<<f>>) + Len(s) :
             (<<f>> \o s)[i] = IF i <= Len(<<f>>) THEN <<f>>[i] ELSE s[i - Len(<<f>>)]
    BY <1>4, <2>1, ConcatProperties
  <2>3. \A i \in 1 .. 1 + Len(s) : i <= 1 => i = 1
    BY <1>1
  <2> QED
    BY <1>4, <2>2, <2>3
<1> HIDE DEF r
<1>6. ASSUME NEW u \in Threads, NEW c \in 1 .. MaxDepth
      PROVE  TodoAt(u, c)' = TodoAt(u, c) /\ DeferredAt(u, c)' = DeferredAt(u, c)
  <2>1. CASE u # t
    BY <1>2, <2>1 DEF TodoAt, DeferredAt, PassAt
  <2>2. CASE u = t /\ c <= Len(s)
    <3>1. /\ Len(r) + 1 - c \in 1 .. 1 + Len(s) /\ ~(Len(r) + 1 - c <= 1)
          /\ (Len(r) + 1 - c) - 1 = Len(s) + 1 - c /\ c <= Len(r)
      BY <1>1, <1>5, <2>2, BoundAssumption
    <3>2. r[Len(r) + 1 - c] = s[Len(s) + 1 - c]
      BY <1>5, <3>1
    <3> QED
      BY <1>2, <2>2, <3>1, <3>2 DEF TodoAt, DeferredAt, PassAt
  <2>3. CASE u = t /\ c = 1 + Len(s)
    <3>1. Len(r) + 1 - c = 1 /\ c <= Len(r) /\ ~(c <= Len(s)) /\ 1 \in 1 .. 1 + Len(s)
      BY <1>1, <1>5, <2>3
    <3>2. r[Len(r) + 1 - c] = f
      BY <1>5, <3>1
    <3> QED
      BY <1>2, <1>3, <2>3, <3>1, <3>2 DEF TodoAt, DeferredAt, PassAt
  <2>4. CASE u = t /\ c > 1 + Len(s)
    <3>1. ~(c <= Len(r)) /\ ~(c <= Len(s))
      BY <1>1, <1>5, <2>4, BoundAssumption
    <3> QED
      BY <1>2, <2>4, <3>1 DEF TodoAt, DeferredAt
  <2>5. c <= Len(s) \/ c = 1 + Len(s) \/ c > 1 + Len(s)
    BY <1>1, BoundAssumption
  <2> QED
    BY <2>1, <2>2, <2>3, <2>4, <2>5
<1>7. PassesHoldNone'
  <2> SUFFICES ASSUME NEW u \in Threads, NEW i \in 1 .. Len(stack'[u])
               PROVE  HoldsNone(stack'[u][i])
    BY DEF PassesHoldNone
  <2>1. CASE u # t
    BY <1>2, <2>1 DEF PassesHoldNone
  <2>2. CASE u = t /\ i = 1
    BY <1>1, <1>2, <1>3, <1>5, <2>2
  <2>3. CASE u = t /\ i # 1
    <3>1. i \in 1 .. 1 + Len(s) /\ ~(i <= 1) /\ i - 1 \in 1 .. Len(s)
      BY <1>1, <1>2, <1>5, <2>3
    <3>2. stack'[t][i] = s[i - 1]
      BY <1>2, <1>5, <3>1
    <3> QED
      BY <2>3, <3>1, <3>2 DEF PassesHoldNone
  <2> QED
    BY <2>1, <2>2, <2>3
<1> QED
  BY <1>6, <1>7 DEF SameInPasses

LEMMA EndHoldsNone ==
  ASSUME TypeInv, PassesHoldNone, NEW t \in Threads, MergePending(t)
  PROVE  SameInPasses
<1> DEFINE s == stack[t]
           r == Tail(s)
<1>1. s \in Seq(ProperFrames) /\ s # <<>> /\ Top(t).pc = "merge"
  BY DEF MergePending, At, TypeInv, StackOK
<1>2. Len(s) \in Nat \ {0}
  BY <1>1, EmptySeq
<1>3. Len(r) = Len(s) - 1 /\ \A i \in 1 .. Len(s) - 1 : r[i] = s[i + 1]
  BY <1>1, HeadTailProperties
<1>4. /\ stack'[t] = r
      /\ \A u \in Threads \ {t} : stack'[u] = stack[u]
  BY DEF MergePending, TypeInv, StackOK
<1>5. s[1].todo = <<>> /\ s[1].deferred = <<>>
  <2>1. HoldsNone(s[1])
    BY <1>2 DEF PassesHoldNone
  <2> QED
    BY <1>1, <2>1 DEF HoldsNone, Top
<1> HIDE DEF r
<1>6. ASSUME NEW u \in Threads, NEW c \in 1 .. MaxDepth
      PROVE  TodoAt(u, c)' = TodoAt(u, c) /\ DeferredAt(u, c)' = DeferredAt(u, c)
  <2>1. CASE u # t
    BY <1>4, <2>1 DEF TodoAt, DeferredAt, PassAt
  <2>2. CASE u = t /\ c <= Len(s) - 1
    <3>1. /\ Len(r) + 1 - c \in 1 .. Len(s) - 1 /\ (Len(r) + 1 - c) + 1 = Len(s) + 1 - c
          /\ c <= Len(r) /\ c <= Len(s)
      BY <1>2, <1>3, <2>2, BoundAssumption
    <3>2. r[Len(r) + 1 - c] = s[Len(s) + 1 - c]
      BY <1>3, <3>1
    <3> QED
      BY <1>4, <2>2, <3>1, <3>2 DEF TodoAt, DeferredAt, PassAt
  <2>3. CASE u = t /\ c = Len(s)
    <3>1. ~(c <= Len(r)) /\ c <= Len(s) /\ Len(s) + 1 - c = 1
      BY <1>2, <1>3, <2>3
    <3> QED
      BY <1>4, <1>5, <2>3, <3>1 DEF TodoAt, DeferredAt, PassAt
  <2>4. CASE u = t /\ c > Len(s)
    <3>1. ~(c <= Len(r)) /\ ~(c <= Len(s))
      BY <1>2, <1>3, <2>4, BoundAssumption
    <3> QED
      BY <1>4, <2>4, <3>1 DEF TodoAt, DeferredAt
  <2>5. c <= Len(s) - 1 \/ c = Len(s) \/ c > Len(s)
    BY <1>2, BoundAssumption
  <2> QED
    BY <2>1, <2>2, <2>3, <2>4, <2>5
<1>7. PassesHoldNone'
  <2> SUFFICES ASSUME NEW u \in Threads, NEW i \in 1 .. Len(stack'[u])
               PROVE  HoldsNone(stack'[u][i])
    BY DEF PassesHoldNone
  <2>1. CASE u # t
    BY <1>4, <2>1 DEF PassesHoldNone
  <2>2. CASE u = t
    <3>1. i \in 1 .. Len(s) - 1 /\ i + 1 \in 1 .. Len(s)
      BY <1>2, <1>3, <1>4, <2>2
    <3> QED
      BY <1>3, <1>4, <2>2, <3>1 DEF PassesHoldNone
  <2> QED
    BY <2>1, <2>2
<1> QED
  BY <1>6, <1>7 DEF SameInPasses

\* What is left in place.
LEMMA PlacesStay ==
  ASSUME TypeInv, TypeInv', PlacesOK, SameInPasses,
         UNCHANGED <<simple, pendingSimple, ran, simpleOwner, nextSimple>>
  PROVE  NoneMoved
<1>1. HeldIn \in [Places -> Seq(SimpleActions)] /\ HeldIn' \in [Places -> Seq(SimpleActions)]
  BY HeldInIsTyped, HeldInIsTypedNext DEF HeldInTyped
<1>2. ASSUME NEW k \in Places
      PROVE  HeldIn'[k] = HeldIn[k]
  <2>1. CASE \E e \in Methods : k = <<"queue", e, 0>> \/ k = <<"pending", e, 0>>
    BY <2>1, HeldInPlaces, HeldInPlacesNext
  <2>2. CASE \E t \in Threads, d \in 1 .. MaxDepth : k = <<"todo", t, d>> \/ k = <<"deferred", t, d>>
    BY <2>2, HeldInPlaces, HeldInPlacesNext DEF SameInPasses
  <2>3. CASE k = <<"ran", GameThread, 0>>
    BY <2>3, HeldInPlaces, HeldInPlacesNext
  <2> QED
    BY <2>1, <2>2, <2>3, PlacesAreThese
<1>3. HeldIn' = HeldIn
  BY <1>1, <1>2
<1> QED
  BY <1>3 DEF NoneMoved, PlacesOK, SameInPasses

\* The vectors that the innermost pass of t neither is nor holds stay.
LEMMA OthersStay ==
  ASSUME TypeInv, TypeInv', NEW t \in Threads, stack[t] # <<>>, NEW g, SetTop(t, g),
         NEW d, d = Len(stack[t]),
         NEW k \in Places, k # <<"todo", t, d>>, k # <<"deferred", t, d>>,
         k # <<"ran", GameThread, 0>> \/ UNCHANGED ran,
         UNCHANGED pendingSimple,
         \A e \in Methods : k # <<"queue", e, 0>> \/ simple'[e] = simple[e]
  PROVE  HeldIn'[k] = HeldIn[k]
<1>1. CASE \E e \in Methods : k = <<"queue", e, 0>> \/ k = <<"pending", e, 0>>
  BY <1>1, HeldInPlaces, HeldInPlacesNext
<1>2. ASSUME NEW u \in Threads, NEW c \in 1 .. MaxDepth, k = <<"todo", u, c>> \/ k = <<"deferred", u, c>>
      PROVE  HeldIn'[k] = HeldIn[k]
  <2>1. u # t \/ c # d
    BY <1>2
  <2>2. TodoAt(u, c)' = TodoAt(u, c) /\ DeferredAt(u, c)' = DeferredAt(u, c)
    BY <2>1, ReplacedHolds
  <2> QED
    BY <1>2, <2>2, HeldInPlaces, HeldInPlacesNext
<1>3. CASE k = <<"ran", GameThread, 0>>
  BY <1>3, HeldInPlaces, HeldInPlacesNext
<1> QED
  BY <1>1, <1>2, <1>3, PlacesAreThese

\* Each step of a pass takes actions from one place to another, or none.
LEMMA PassStepMovesNone ==
  ASSUME TypeInv, PlacesOK, NEW t \in Threads, PassStep(t)
  PROVE  NoneMoved
<1> DEFINE f == Top(t)
           d == Len(stack[t])
           e == f.exec
           todo == <<"todo", t, d>>
           deferred == <<"deferred", t, d>>
           kept == <<"queue", e, 0>>
           done == <<"ran", GameThread, 0>>
<1>1. stack[t] # <<>>
  BY DEF PassStep, TakeSimple, DeferSimple, CheckSimple, EnterSimple, LeaveSimple,
         RequeueDeferred, CollectReady, CheckDelayed, EnterDelayed,
         LeaveDelayed, SettleReady, MergePending, At
<1>2. /\ f \in ProperFrames /\ f \in Frames /\ HoldsNone(f)
      /\ e \in Methods /\ f.todo \in Seq(SimpleActions) /\ f.deferred \in Seq(SimpleActions)
      /\ d \in 1 .. MaxDepth
  <2>1. f \in ProperFrames /\ d \in Nat \ {0} /\ d <= MaxDepth
    BY <1>1, TopIsProper DEF TypeInv, StackOK
  <2>2. f \in Frames
    BY <2>1 DEF ProperFrames
  <2>3. HoldsNone(f)
    BY <2>1 DEF PlacesOK, PassesHoldNone, Top
  <2> QED
    BY <2>1, <2>2, <2>3, BoundAssumption DEF Frames
<1>3. TypeInv'
  BY PassStepKeepsTypes
<1>4. PassesHoldNone /\ Apart(HeldIn) /\ \A s \in Members(HeldIn) : s < nextSimple
  BY DEF PlacesOK
<1>5. HeldIn \in [Places -> Seq(SimpleActions)] /\ HeldIn' \in [Places -> Seq(SimpleActions)]
  BY <1>3, HeldInIsTyped, HeldInIsTypedNext DEF HeldInTyped
<1>6. /\ todo \in Places /\ deferred \in Places /\ kept \in Places /\ done \in Places
      /\ HeldIn[kept] = simple[e] /\ HeldIn'[kept] = simple'[e]
      /\ HeldIn[done] = ran /\ HeldIn'[done] = ran'
      /\ HeldIn[todo] = TodoAt(t, d) /\ HeldIn[deferred] = DeferredAt(t, d)
  BY <1>2, HeldInPlaces, HeldInPlacesNext
<1> DEFINE Replaced(g) ==
             /\ HeldIn[todo] = f.todo /\ HeldIn[deferred] = f.deferred
             /\ HeldIn'[todo] = g.todo /\ HeldIn'[deferred] = g.deferred
             /\ HoldsNone(g) => PassesHoldNone'
<1>7. ASSUME NEW g, SetTop(t, g)
      PROVE  Replaced(g)
  <2>1. PICK c : c = d
    OBVIOUS
  <2>2. /\ TodoAt(t, c) = f.todo /\ DeferredAt(t, c) = f.deferred
        /\ TodoAt(t, c)' = g.todo /\ DeferredAt(t, c)' = g.deferred
        /\ HoldsNone(g) => PassesHoldNone'
    BY <1>1, <1>3, <1>4, <1>7, <2>1, ReplacedHolds
  <2>3. c \in 1 .. MaxDepth
    BY <1>2, <2>1
  <2>4. HeldIn'[<<"todo", t, c>>] = TodoAt(t, c)' /\ HeldIn'[<<"deferred", t, c>>] = DeferredAt(t, c)'
    BY <2>3, HeldInPlacesNext
  <2> QED
    BY <1>6, <2>1, <2>2, <2>4
<1>8. ASSUME NEW g, SetTop(t, g), HoldsNone(g), g.todo = f.todo, g.deferred = f.deferred,
             UNCHANGED <<simple, pendingSimple, ran, simpleOwner, nextSimple>>
      PROVE  NoneMoved
  <2>1. PICK c : c = d
    OBVIOUS
  <2>2. /\ c \in 1 .. MaxDepth
        /\ TodoAt(t, c) = f.todo /\ DeferredAt(t, c) = f.deferred
        /\ TodoAt(t, c)' = g.todo /\ DeferredAt(t, c)' = g.deferred
        /\ \A u \in Threads, b \in 1 .. MaxDepth : u # t \/ b # c =>
             TodoAt(u, b)' = TodoAt(u, b) /\ DeferredAt(u, b)' = DeferredAt(u, b)
        /\ PassesHoldNone'
    BY <1>1, <1>3, <1>4, <1>8, <2>1, ReplacedHolds
  <2>3. SameInPasses
    BY <1>8, <2>2 DEF SameInPasses
  <2> QED
    BY <1>3, <1>8, <2>3, PlacesStay
<1>9. ASSUME PassesHoldNone', Apart(HeldIn'), Members(HeldIn') = Members(HeldIn),
             UNCHANGED <<simpleOwner, nextSimple>>
      PROVE  NoneMoved
  BY <1>4, <1>9 DEF NoneMoved, PlacesOK
<1>10. ASSUME NEW g, SetTop(t, g), UNCHANGED pendingSimple,
              NEW k \in Places, k # todo, k # deferred,
              k # done \/ UNCHANGED ran,
              \A m \in Methods : k # <<"queue", m, 0>> \/ simple'[m] = simple[m]
       PROVE  HeldIn'[k] = HeldIn[k]
  BY <1>1, <1>3, <1>10, OthersStay
<1>11. todo # deferred /\ kept # todo /\ kept # deferred /\ done # kept /\ done # todo /\ done # deferred
  OBVIOUS
<1>12. ASSUME NEW a \in Places, NEW b \in Places, a # b, HeldIn[a] # <<>>,
              \A k \in Places \ {a, b} : HeldIn'[k] = HeldIn[k],
              HeldIn'[a] = Tail(HeldIn[a]), HeldIn'[b] = Append(HeldIn[b], Head(HeldIn[a]))
       PROVE  Apart(HeldIn') /\ Members(HeldIn') = Members(HeldIn)
  <2>1. PICK p \in Seq(SimpleActions), r \in Seq(SimpleActions) : p = HeldIn[a] /\ r = HeldIn[b]
    BY <1>5, <1>12
  <2>2. p # <<>> /\ IsInjective(p) /\ IsInjective(r) /\ Range(p) \cap Range(r) = {}
    BY <1>4, <1>5, <1>12, <2>1 DEF Apart
  <2>3. /\ IsInjective(Tail(p)) /\ IsInjective(Append(r, Head(p)))
        /\ Range(Tail(p)) \cap Range(Append(r, Head(p))) = {}
        /\ Range(Tail(p)) \cup Range(Append(r, Head(p))) = Range(p) \cup Range(r)
    BY <2>2, HeadGoesOver
  <2>4. /\ IsInjective(HeldIn'[a]) /\ IsInjective(HeldIn'[b])
        /\ Range(HeldIn'[a]) \cap Range(HeldIn'[b]) = {}
        /\ Range(HeldIn'[a]) \cup Range(HeldIn'[b]) = Range(HeldIn[a]) \cup Range(HeldIn[b])
    BY <1>12, <2>1, <2>3
  <2> QED
    BY <1>4, <1>5, <1>12, <2>4, ExchangeKeepsApart
<1>13. ASSUME NEW a \in Places, NEW b \in Places, a # b,
              \A k \in Places \ {a, b} : HeldIn'[k] = HeldIn[k],
              HeldIn'[a] = <<>>, HeldIn'[b] = HeldIn[b] \o HeldIn[a]
       PROVE  Apart(HeldIn') /\ Members(HeldIn') = Members(HeldIn)
  <2>1. PICK p \in Seq(SimpleActions), r \in Seq(SimpleActions) : p = HeldIn[a] /\ r = HeldIn[b]
    BY <1>5, <1>13
  <2>2. IsInjective(p) /\ IsInjective(r) /\ Range(p) \cap Range(r) = {}
    BY <1>4, <1>5, <1>13, <2>1 DEF Apart
  <2>3. /\ IsInjective(<<>>) /\ IsInjective(r \o p)
        /\ Range(<<>>) \cap Range(r \o p) = {}
        /\ Range(<<>>) \cup Range(r \o p) = Range(p) \cup Range(r)
    BY <2>2, AllGoesOver
  <2>4. /\ IsInjective(HeldIn'[a]) /\ IsInjective(HeldIn'[b])
        /\ Range(HeldIn'[a]) \cap Range(HeldIn'[b]) = {}
        /\ Range(HeldIn'[a]) \cup Range(HeldIn'[b]) = Range(HeldIn[a]) \cup Range(HeldIn[b])
    BY <1>13, <2>1, <2>3
  <2> QED
    BY <1>4, <1>5, <1>13, <2>4, ExchangeKeepsApart
<1> HIDE DEF f, d, e, todo, deferred, kept, done, Replaced
<1>14. CASE TakeSimple(t)
  <2> DEFINE g == [f EXCEPT !.pc = "simple", !.todo = simple[e]]
  <2>1. /\ SetTop(t, g) /\ f.pc = "drain"
        /\ simple' = [simple EXCEPT ![e] = <<>>]
        /\ UNCHANGED <<pendingSimple, simpleOwner, nextSimple, ran>>
    BY <1>14 DEF TakeSimple, At, f, e, history
  <2>2. /\ g.todo = simple[e] /\ g.deferred = <<>> /\ HoldsNone(g)
        /\ f.todo = <<>> /\ f.deferred = <<>>
    BY <1>2, <2>1 DEF HoldsNone, Frames
  <2> HIDE DEF g
  <2>3. /\ HeldIn[todo] = <<>> /\ HeldIn[deferred] = <<>>
        /\ HeldIn'[todo] = simple[e] /\ HeldIn'[deferred] = <<>>
        /\ PassesHoldNone'
    BY <1>7, <2>1, <2>2 DEF Replaced
  <2>4. simple'[e] = <<>> /\ \A m \in Methods \ {e} : simple'[m] = simple[m]
    BY <1>2, <2>1 DEF TypeInv, SimplesOK
  <2>5. \A k \in Places \ {kept, todo} : HeldIn'[k] = HeldIn[k]
    <3> SUFFICES ASSUME NEW k \in Places \ {kept, todo}
                 PROVE  HeldIn'[k] = HeldIn[k]
      OBVIOUS
    <3>1. CASE k = deferred
      BY <2>3, <3>1
    <3>2. \A m \in Methods : k # <<"queue", m, 0>> \/ simple'[m] = simple[m]
      BY <2>4 DEF kept
    <3> QED
      BY <1>10, <2>1, <3>1, <3>2
  <2>6. <<>> \o simple[e] = simple[e]
    BY <1>2, ConcatEmptySeq DEF TypeInv, SimplesOK
  <2>7. HeldIn'[kept] = <<>> /\ HeldIn'[todo] = HeldIn[todo] \o HeldIn[kept]
    BY <1>6, <2>3, <2>4, <2>6
  <2>8. Apart(HeldIn') /\ Members(HeldIn') = Members(HeldIn)
    BY <1>6, <1>11, <1>13, <2>5, <2>7
  <2> QED
    BY <1>9, <2>1, <2>3, <2>8
<1>15. CASE DeferSimple(t)
  <2> DEFINE g == [f EXCEPT !.deferred = Append(@, Head(f.todo)), !.todo = Tail(@)]
  <2>1. /\ SetTop(t, g) /\ f.pc = "simple" /\ f.todo # <<>>
        /\ UNCHANGED <<simple, pendingSimple, simpleOwner, nextSimple, ran>>
    BY <1>15 DEF DeferSimple, At, f, history, simples
  <2>2. /\ g.todo = Tail(f.todo) /\ g.deferred = Append(f.deferred, Head(f.todo))
        /\ HoldsNone(g)
    BY <1>2, <2>1 DEF HoldsNone, Frames
  <2> HIDE DEF g
  <2>3. /\ HeldIn[todo] = f.todo /\ HeldIn[deferred] = f.deferred
        /\ HeldIn'[todo] = Tail(f.todo) /\ HeldIn'[deferred] = Append(f.deferred, Head(f.todo))
        /\ PassesHoldNone'
    BY <1>7, <2>1, <2>2 DEF Replaced
  <2>4. \A k \in Places \ {todo, deferred} : HeldIn'[k] = HeldIn[k]
    BY <1>10, <2>1
  <2>5. Apart(HeldIn') /\ Members(HeldIn') = Members(HeldIn)
    BY <1>6, <1>11, <1>12, <2>1, <2>3, <2>4
  <2> QED
    BY <1>9, <2>1, <2>3, <2>5
<1>16. CASE LeaveSimple(t)
  <2> DEFINE g == [f EXCEPT !.pc = "simple", !.todo = Tail(@)]
  <2>1. /\ SetTop(t, g) /\ f.pc = "callSimple" /\ f.todo # <<>>
        /\ ran' = Append(ran, Head(f.todo))
        /\ UNCHANGED <<simple, pendingSimple, simpleOwner, nextSimple>>
    BY <1>2, <1>16 DEF LeaveSimple, At, f, simples, ProperFrames
  <2>2. g.todo = Tail(f.todo) /\ g.deferred = f.deferred /\ HoldsNone(g)
    BY <1>2, <2>1 DEF HoldsNone, Frames
  <2> HIDE DEF g
  <2>3. /\ HeldIn[todo] = f.todo /\ HeldIn'[todo] = Tail(f.todo)
        /\ HeldIn'[deferred] = HeldIn[deferred]
        /\ PassesHoldNone'
    BY <1>7, <2>1, <2>2 DEF Replaced
  <2>4. \A k \in Places \ {todo, done} : HeldIn'[k] = HeldIn[k]
    BY <1>10, <2>1, <2>3
  <2>5. HeldIn'[done] = Append(HeldIn[done], Head(HeldIn[todo]))
    BY <1>6, <2>1, <2>3
  <2>6. Apart(HeldIn') /\ Members(HeldIn') = Members(HeldIn)
    BY <1>6, <1>11, <1>12, <2>1, <2>3, <2>4, <2>5
  <2> QED
    BY <1>9, <2>1, <2>3, <2>6
<1>17. CASE RequeueDeferred(t)
  <2> DEFINE g == [f EXCEPT !.pc = "collect", !.deferred = <<>>]
  <2>1. /\ SetTop(t, g) /\ f.pc = "simple" /\ f.todo = <<>>
        /\ simple' = [simple EXCEPT ![e] = @ \o f.deferred]
        /\ UNCHANGED <<pendingSimple, simpleOwner, nextSimple, ran>>
    BY <1>17 DEF RequeueDeferred, At, f, e, history
  <2>2. g.todo = <<>> /\ g.deferred = <<>> /\ HoldsNone(g)
    BY <1>2, <2>1 DEF HoldsNone, Frames
  <2> HIDE DEF g
  <2>3. /\ HeldIn[deferred] = f.deferred /\ HeldIn'[deferred] = <<>>
        /\ HeldIn'[todo] = HeldIn[todo]
        /\ PassesHoldNone'
    BY <1>7, <2>1, <2>2 DEF Replaced
  <2>4. simple'[e] = simple[e] \o f.deferred /\ \A m \in Methods \ {e} : simple'[m] = simple[m]
    BY <1>2, <2>1 DEF TypeInv, SimplesOK
  <2>5. \A k \in Places \ {kept, deferred} : HeldIn'[k] = HeldIn[k]
    <3> SUFFICES ASSUME NEW k \in Places \ {kept, deferred}
                 PROVE  HeldIn'[k] = HeldIn[k]
      OBVIOUS
    <3>1. CASE k = todo
      BY <2>3, <3>1
    <3>2. \A m \in Methods : k # <<"queue", m, 0>> \/ simple'[m] = simple[m]
      BY <2>4 DEF kept
    <3> QED
      BY <1>10, <2>1, <3>1, <3>2
  <2>6. HeldIn'[kept] = HeldIn[kept] \o HeldIn[deferred]
    BY <1>6, <2>3, <2>4
  <2>7. Apart(HeldIn') /\ Members(HeldIn') = Members(HeldIn)
    BY <1>6, <1>11, <1>13, <2>3, <2>5, <2>6
  <2> QED
    BY <1>9, <2>1, <2>3, <2>7
<1>18. CASE MergePending(t)
  <2> DEFINE waiting == <<"pending", e, 0>>
  <2>1. /\ simple' = [simple EXCEPT ![e] = @ \o pendingSimple[e]]
        /\ pendingSimple' = [pendingSimple EXCEPT ![e] = <<>>]
        /\ UNCHANGED <<simpleOwner, nextSimple, ran>>
    BY <1>18 DEF MergePending, f, e, history
  <2>2. SameInPasses
    BY <1>4, <1>18, EndHoldsNone
  <2>3. /\ simple'[e] = simple[e] \o pendingSimple[e] /\ pendingSimple'[e] = <<>>
        /\ \A m \in Methods \ {e} : simple'[m] = simple[m] /\ pendingSimple'[m] = pendingSimple[m]
    BY <1>2, <2>1 DEF TypeInv, SimplesOK
  <2>4. /\ waiting \in Places /\ HeldIn[waiting] = pendingSimple[e]
        /\ HeldIn'[waiting] = pendingSimple'[e] /\ waiting # kept
    BY <1>2, HeldInPlaces, HeldInPlacesNext DEF kept
  <2>5. ASSUME NEW k \in Places \ {waiting, kept}
        PROVE  HeldIn'[k] = HeldIn[k]
    <3>1. ASSUME NEW m \in Methods, k = <<"queue", m, 0>> \/ k = <<"pending", m, 0>>
          PROVE  HeldIn'[k] = HeldIn[k]
      <4>1. HeldIn'[<<"queue", m, 0>>] = simple'[m] /\ HeldIn'[<<"pending", m, 0>>] = pendingSimple'[m]
        BY HeldInPlacesNext
      <4>2. HeldIn[<<"queue", m, 0>>] = simple[m] /\ HeldIn[<<"pending", m, 0>>] = pendingSimple[m]
        BY HeldInPlaces
      <4>3. m # e
        BY <2>5, <3>1 DEF kept
      <4> QED
        BY <2>3, <3>1, <4>1, <4>2, <4>3
    <3>2. CASE \E u \in Threads, c \in 1 .. MaxDepth : k = <<"todo", u, c>> \/ k = <<"deferred", u, c>>
      BY <2>2, <3>2, PassPlacesStay
    <3>3. CASE k = done
      BY <1>6, <2>1, <3>3
    <3> QED
      BY <3>1, <3>2, <3>3, PlacesAreThese DEF done
  <2>6. HeldIn'[waiting] = <<>> /\ HeldIn'[kept] = HeldIn[kept] \o HeldIn[waiting]
    BY <1>6, <2>3, <2>4
  <2> HIDE DEF waiting
  <2>7. Apart(HeldIn') /\ Members(HeldIn') = Members(HeldIn)
    BY <1>6, <1>13, <2>4, <2>5, <2>6
  <2> QED
    BY <1>9, <2>1, <2>2, <2>7 DEF SameInPasses
<1>19. ASSUME NEW g, SetTop(t, g), g.todo = f.todo, g.deferred = f.deferred,
              \/ g.pc \in {"simple", "enterSimple", "callSimple"}
              \/ f.pc \notin {"simple", "enterSimple", "callSimple"},
              UNCHANGED <<simple, pendingSimple, ran, simpleOwner, nextSimple>>
       PROVE  NoneMoved
  BY <1>2, <1>8, <1>19 DEF HoldsNone
<1>20. CASE CheckSimple(t) \/ EnterSimple(t)
  <2>1. PICK pc \in {"enterSimple", "callSimple"} : SetTop(t, [f EXCEPT !.pc = pc])
    BY <1>20 DEF CheckSimple, EnterSimple, Goto, f
  <2>2. UNCHANGED <<simple, pendingSimple, ran, simpleOwner, nextSimple>>
    BY <1>20 DEF CheckSimple, EnterSimple, simples, history
  <2> DEFINE g == [f EXCEPT !.pc = pc]
  <2>3. SetTop(t, g) /\ g.todo = f.todo /\ g.deferred = f.deferred /\ g.pc = pc
    BY <1>2, <2>1 DEF Frames
  <2> HIDE DEF g
  <2> QED
    BY <1>19, <2>1, <2>2, <2>3
<1>21. CASE CollectReady(t)
  <2>1. PICK due : SetTop(t, [f EXCEPT !.pc = "delayed", !.ready = due, !.unrun = due])
    BY <1>21 DEF CollectReady, f
  <2>2. f.pc = "collect" /\ UNCHANGED <<simple, pendingSimple, ran, simpleOwner, nextSimple>>
    BY <1>21 DEF CollectReady, At, f, simples, history
  <2> DEFINE g == [f EXCEPT !.pc = "delayed", !.ready = due, !.unrun = due]
  <2>3. SetTop(t, g) /\ g.todo = f.todo /\ g.deferred = f.deferred
    BY <1>2, <2>1 DEF Frames
  <2> HIDE DEF g
  <2> QED
    BY <1>19, <2>2, <2>3
<1>22. CASE CheckDelayed(t)
  <2>1. f.pc = "delayed" /\ UNCHANGED <<simple, pendingSimple, ran, simpleOwner, nextSimple>>
    BY <1>22 DEF CheckDelayed, At, f, simples, history
  <2>2. ASSUME NEW g, SetTop(t, g), g.todo = f.todo, g.deferred = f.deferred
        PROVE  NoneMoved
    BY <1>19, <2>1, <2>2
  <2>3. CASE executing
    <3> DEFINE g == [f EXCEPT !.unrun = @ \ {Current(f)}]
    <3>1. SetTop(t, g) /\ g.todo = f.todo /\ g.deferred = f.deferred
      BY <1>2, <1>22, <2>3 DEF CheckDelayed, Frames, f
    <3> HIDE DEF g
    <3> QED
      BY <2>2, <3>1
  <2>4. CASE ~executing
    <3> DEFINE g == [f EXCEPT !.pc = "enterDelayed"]
    <3>1. SetTop(t, g) /\ g.todo = f.todo /\ g.deferred = f.deferred
      BY <1>2, <1>22, <2>4 DEF CheckDelayed, Goto, Frames, f
    <3> HIDE DEF g
    <3> QED
      BY <2>2, <3>1
  <2> QED
    BY <2>3, <2>4
<1>23. CASE EnterDelayed(t)
  <2>1. PICK pc \in {"callDelayed", "thrown"} : SetTop(t, [f EXCEPT !.pc = pc])
    BY <1>23 DEF EnterDelayed, Goto, f
  <2>2. f.pc = "enterDelayed" /\ UNCHANGED <<simple, pendingSimple, ran, simpleOwner, nextSimple>>
    BY <1>23 DEF EnterDelayed, At, f, simples
  <2> DEFINE g == [f EXCEPT !.pc = pc]
  <2>3. SetTop(t, g) /\ g.todo = f.todo /\ g.deferred = f.deferred
    BY <1>2, <2>1 DEF Frames
  <2> HIDE DEF g
  <2> QED
    BY <1>19, <2>2, <2>3
<1>24. CASE LeaveDelayed(t)
  <2> DEFINE g == [f EXCEPT !.pc = "delayed", !.unrun = @ \ {Current(f)}]
  <2>1. SetTop(t, g) /\ g.todo = f.todo /\ g.deferred = f.deferred
    BY <1>2, <1>24 DEF LeaveDelayed, Frames, f
  <2>2. f.pc = "callDelayed" /\ UNCHANGED <<simple, pendingSimple, ran, simpleOwner, nextSimple>>
    BY <1>24 DEF LeaveDelayed, At, f, simples, history
  <2> HIDE DEF g
  <2> QED
    BY <1>19, <2>1, <2>2
<1>25. CASE SettleReady(t)
  <2> DEFINE g == [f EXCEPT !.pc = "merge", !.ready = {}]
  <2>1. SetTop(t, g) /\ g.todo = f.todo /\ g.deferred = f.deferred
    BY <1>2, <1>25 DEF SettleReady, Frames, f
  <2>2. f.pc = "delayed" /\ UNCHANGED <<simple, pendingSimple, ran, simpleOwner, nextSimple>>
    BY <1>25 DEF SettleReady, At, f, simples
  <2> HIDE DEF g
  <2> QED
    BY <1>19, <2>1, <2>2
<1> QED
  BY <1>14, <1>15, <1>16, <1>17, <1>18, <1>20, <1>21, <1>22, <1>23, <1>24, <1>25, Zenon
      DEF PassStep

LEMMA RegistrationPlacesOne ==
  ASSUME TypeInv, PlacesOK, NEW t \in Threads, NEW m \in Mods, Registration(t, m)
  PROVE  NoneMoved \/ OneMore(m)
<1>1. UNCHANGED <<stack, ran>>
  BY DEF Registration, ExecuteInGameThread, RegisterDelayed, ExecuteWithHandle, Retrigger, history
<1>2. SameInPasses
  BY <1>1 DEF PlacesOK, SameInPasses, PassesHoldNone, TodoAt, DeferredAt, PassAt
<1>3. TypeInv'
  BY RegistrationKeepsTypes
<1>4. ASSUME UNCHANGED simples
      PROVE  NoneMoved
  BY <1>1, <1>2, <1>3, <1>4, PlacesStay DEF simples
<1>5. ASSUME NEW method \in Methods, ExecuteInGameThread(t, m, method)
      PROVE  OneMore(m)
  <2>1. /\ HeldIn \in [Places -> Seq(SimpleActions)] /\ HeldIn' \in [Places -> Seq(SimpleActions)]
        /\ Apart(HeldIn) /\ \A s \in Members(HeldIn) : s < nextSimple
    BY <1>3, HeldInIsTyped, HeldInIsTypedNext DEF HeldInTyped, PlacesOK
  <2>2. /\ nextSimple \in SimpleActions /\ nextSimple \in Nat /\ nextSimple' = nextSimple + 1
        /\ simpleOwner' = [simpleOwner EXCEPT ![nextSimple] = m]
    BY <1>5, BoundAssumption DEF ExecuteInGameThread, SimpleActions
  <2>3. Members(HeldIn) \subseteq Nat
    <3>1. \A k \in Places : Range(HeldIn[k]) \subseteq SimpleActions
      BY <2>1 DEF Range
    <3> QED
      BY <2>1, <3>1 DEF Members, SimpleActions
  <2>4. nextSimple \notin Members(HeldIn)
    BY <2>1, <2>2
  <2>5. ASSUME NEW b \in Places, HeldIn'[b] = Append(HeldIn[b], nextSimple),
               \A k \in Places \ {b} : HeldIn'[k] = HeldIn[k]
        PROVE  OneMore(m)
    <3>1. PICK q \in Seq(SimpleActions) : q = HeldIn[b]
      BY <2>1
    <3>2. IsInjective(q) /\ nextSimple \notin Range(q)
      BY <2>1, <2>4, <3>1 DEF Apart, Members
    <3>3. IsInjective(Append(q, nextSimple)) /\ Range(Append(q, nextSimple)) = Range(q) \cup {nextSimple}
      BY <2>2, <3>2, AppendIsInjective, RangeOfAppend
    <3>4. IsInjective(HeldIn'[b]) /\ Range(HeldIn'[b]) = Range(HeldIn[b]) \cup {nextSimple}
      BY <2>5, <3>1, <3>3
    <3>5. Apart(HeldIn') /\ Members(HeldIn') = Members(HeldIn) \cup {nextSimple}
      <4>1. DOMAIN HeldIn = Places /\ DOMAIN HeldIn' = Places /\ Apart(HeldIn)
        BY <2>1
      <4>2. \A k \in Places \ {b} : HeldIn'[k] = HeldIn[k]
        BY <2>5
      <4> QED
        BY <2>4, <3>4, <4>1, <4>2, NewAdded
    <3>6. \A s \in Members(HeldIn') : s < nextSimple'
      BY <2>1, <2>2, <2>3, <3>5
    <3> QED
      BY <1>2, <2>2, <3>5, <3>6 DEF OneMore, PlacesOK, SameInPasses
  <2>6. ASSUME NEW b \in Places,
               \A e \in Methods : /\ b # <<"queue", e, 0>> => simple'[e] = simple[e]
                                  /\ b # <<"pending", e, 0>> => pendingSimple'[e] = pendingSimple[e]
        PROVE  \A k \in Places \ {b} : HeldIn'[k] = HeldIn[k]
    <3> SUFFICES ASSUME NEW k \in Places \ {b}
                 PROVE  HeldIn'[k] = HeldIn[k]
      OBVIOUS
    <3>1. CASE \E e \in Methods : k = <<"queue", e, 0>> \/ k = <<"pending", e, 0>>
      BY <2>6, <3>1, HeldInPlaces, HeldInPlacesNext
    <3>2. CASE \E u \in Threads, c \in 1 .. MaxDepth : k = <<"todo", u, c>> \/ k = <<"deferred", u, c>>
      BY <1>2, <3>2, PassPlacesStay
    <3>3. CASE k = <<"ran", GameThread, 0>>
      BY <1>1, <3>3, HeldInPlaces, HeldInPlacesNext
    <3> QED
      BY <3>1, <3>2, <3>3, PlacesAreThese
  <2>7. CASE processing
    <3>1. /\ pendingSimple' = [pendingSimple EXCEPT ![method] = Append(@, nextSimple)]
          /\ simple' = simple
      BY <1>5, <2>7 DEF ExecuteInGameThread
    <3>2. /\ pendingSimple'[method] = Append(pendingSimple[method], nextSimple)
          /\ \A e \in Methods \ {method} : pendingSimple'[e] = pendingSimple[e]
      BY <3>1 DEF TypeInv, SimplesOK
    <3>3. PICK b \in Places : b = <<"pending", method, 0>>
      BY HeldInPlaces
    <3>4. HeldIn'[b] = Append(HeldIn[b], nextSimple)
      BY <3>2, <3>3, HeldInPlaces, HeldInPlacesNext
    <3>5. \A e \in Methods : b # <<"pending", e, 0>> => pendingSimple'[e] = pendingSimple[e]
      BY <3>2, <3>3
    <3> QED
      BY <2>5, <2>6, <3>1, <3>4, <3>5
  <2>8. CASE ~processing
    <3>1. /\ simple' = [simple EXCEPT ![method] = Append(@, nextSimple)]
          /\ pendingSimple' = pendingSimple
      BY <1>5, <2>8 DEF ExecuteInGameThread
    <3>2. /\ simple'[method] = Append(simple[method], nextSimple)
          /\ \A e \in Methods \ {method} : simple'[e] = simple[e]
      BY <3>1 DEF TypeInv, SimplesOK
    <3>3. PICK b \in Places : b = <<"queue", method, 0>>
      BY HeldInPlaces
    <3>4. HeldIn'[b] = Append(HeldIn[b], nextSimple)
      BY <3>2, <3>3, HeldInPlaces, HeldInPlacesNext
    <3>5. \A e \in Methods : b # <<"queue", e, 0>> => simple'[e] = simple[e]
      BY <3>2, <3>3
    <3> QED
      BY <2>5, <2>6, <3>1, <3>4, <3>5
  <2> QED
    BY <2>7, <2>8
<1> QED
  BY <1>4, <1>5 DEF Registration, RegisterDelayed, ExecuteWithHandle, Retrigger

\* The other steps.
LEMMA ControllingMovesNone ==
  ASSUME TypeInv, PlacesOK, NEW t \in Threads, NEW m \in Mods, Controlling(t, m)
  PROVE  NoneMoved
<1>1. UNCHANGED <<stack, ran, simple, pendingSimple, simpleOwner, nextSimple>>
  BY DEF Controlling, ResetDelayedActionTimer, SetDelayedActionTimer, PauseDelayedAction,
         UnpauseDelayedAction, CancelDelayedAction, ClearAllDelayedActions, Control, simples, history
<1>2. SameInPasses
  BY <1>1 DEF PlacesOK, SameInPasses, PassesHoldNone, TodoAt, DeferredAt, PassAt
<1> QED
  BY <1>1, <1>2, ControllingKeepsTypes, PlacesStay

LEMMA TheRestMovesNone ==
  ASSUME TypeInv, TypeInv', PlacesOK,
         \/ EngineTickHook \/ Tick \/ UNCHANGED vars
         \/ \E t \in Threads : \/ ProcessEventHook(t) \/ MakeActionHandleRead(t)
                               \/ MakeActionHandleWrite(t)
  PROVE  NoneMoved
<1>1. CASE EngineTickHook \/ \E t \in Threads : ProcessEventHook(t)
  <2>1. PICK t \in Threads, e \in Methods : Begin(t, e)
    BY <1>1, ThreadAssumption DEF EngineTickHook, ProcessEventHook, Methods
  <2>2. SameInPasses
    BY <2>1, BeginHoldsNone DEF PlacesOK
  <2> QED
    BY <2>1, <2>2, PlacesStay DEF Begin, simples, history
<1>2. CASE \/ Tick \/ UNCHANGED vars
           \/ \E t \in Threads : MakeActionHandleRead(t) \/ MakeActionHandleWrite(t)
  <2>1. UNCHANGED <<stack, ran, simple, pendingSimple, simpleOwner, nextSimple>>
    BY <1>2 DEF Tick, vars, MakeActionHandleRead, MakeActionHandleWrite, simples, history
  <2>2. SameInPasses
    BY <2>1 DEF PlacesOK, SameInPasses, PassesHoldNone, TodoAt, DeferredAt, PassAt
  <2> QED
    BY <2>1, <2>2, PlacesStay
<1> QED
  BY <1>1, <1>2

LEMMA PlacesOKInitially ==
  ASSUME Init
  PROVE  TypeInv /\ PlacesOK /\ Members(HeldIn) = {} /\ nextSimple = 1
<1>1. TypeInv /\ nextSimple = 1
  BY TypeInvInductive DEF Init
<1>2. /\ \A t \in Threads : stack[t] = <<>> /\ Len(stack[t]) = 0
      /\ ran = <<>>
      /\ \A e \in Methods : simple[e] = <<>> /\ pendingSimple[e] = <<>>
  BY DEF Init
<1>3. PassesHoldNone
  BY <1>2 DEF PassesHoldNone
<1>4. ASSUME NEW k \in Places
      PROVE  HeldIn[k] = <<>>
  <2>1. \A t \in Threads, d \in 1 .. MaxDepth : TodoAt(t, d) = <<>> /\ DeferredAt(t, d) = <<>>
    BY <1>2 DEF TodoAt, DeferredAt
  <2>2. CASE \E e \in Methods : k = <<"queue", e, 0>> \/ k = <<"pending", e, 0>>
    BY <1>2, <2>2, HeldInPlaces
  <2>3. CASE \E t \in Threads, d \in 1 .. MaxDepth : k = <<"todo", t, d>> \/ k = <<"deferred", t, d>>
    BY <2>1, <2>3, HeldInPlaces
  <2>4. CASE k = <<"ran", GameThread, 0>>
    BY <1>2, <2>4, HeldInPlaces
  <2> QED
    BY <2>2, <2>3, <2>4, PlacesAreThese
<1>5. DOMAIN HeldIn = Places
  BY DEF HeldIn
<1>6. IsInjective(<<>>) /\ Range(<<>>) = {}
  BY RangeOfEmpty DEF IsInjective
<1>7. Apart(HeldIn) /\ Members(HeldIn) = {}
  BY <1>4, <1>5, <1>6 DEF Apart, Members
<1> QED
  BY <1>1, <1>3, <1>7 DEF PlacesOK

-----------------------------------------------------------------------------
(* The places, counted.                                                    *)

\* The place of a vector that a pass or the scheduler keeps.
PlaceOf(k) ==
  IF k \in PassPlaces THEN <<"pass", <<k[2], Len(stack[k[2]]) + 1 - k[3]>>>> ELSE <<k[1], k[2]>>

LEMMA HeldInOneVector ==
  ASSUME TypeInv, Apart(HeldIn), NEW s, NEW x \in SimplePlaces(s)
  PROVE  \/ \E k \in Places : /\ k # <<"ran", GameThread, 0>>
                              /\ s \in Range(HeldIn[k]) /\ x = PlaceOf(k)
         \/ \E n \in DOMAIN ran : ran[n] = s /\ x = <<"ran", n>>
<1>1. CASE \E e \in Methods : x = <<"queue", e>> /\ s \in Range(simple[e])
  <2>1. PICK e \in Methods : x = <<"queue", e>> /\ s \in Range(simple[e])
    BY <1>1
  <2>2. PICK k \in Places : k = <<"queue", e, 0>>
    BY HeldInPlaces
  <2>3. HeldIn[k] = simple[e] /\ k \notin PassPlaces /\ k # <<"ran", GameThread, 0>>
    BY <2>2, HeldInPlaces DEF PassPlaces
  <2>4. PlaceOf(k) = x
    BY <2>1, <2>2, <2>3 DEF PlaceOf
  <2> QED
    BY <2>1, <2>3, <2>4
<1>2. CASE \E e \in Methods : x = <<"pending", e>> /\ s \in Range(pendingSimple[e])
  <2>1. PICK e \in Methods : x = <<"pending", e>> /\ s \in Range(pendingSimple[e])
    BY <1>2
  <2>2. PICK k \in Places : k = <<"pending", e, 0>>
    BY HeldInPlaces
  <2>3. HeldIn[k] = pendingSimple[e] /\ k \notin PassPlaces /\ k # <<"ran", GameThread, 0>>
    BY <2>2, HeldInPlaces DEF PassPlaces
  <2>4. PlaceOf(k) = x
    BY <2>1, <2>2, <2>3 DEF PlaceOf
  <2> QED
    BY <2>1, <2>3, <2>4
<1>3. ASSUME NEW p \in Passes, x = <<"pass", p>>, s \in Range(PassOf(p).todo \o PassOf(p).deferred)
      PROVE  \E k \in Places : /\ k # <<"ran", GameThread, 0>>
                              /\ s \in Range(HeldIn[k]) /\ x = PlaceOf(k)
  <2>1. PICK t \in Threads, i \in 1 .. MaxDepth : p = <<t, i>> /\ i <= Len(stack[t])
    BY DEF Passes
  <2>2. stack[t] \in Seq(ProperFrames) /\ Len(stack[t]) \in Nat /\ Len(stack[t]) <= MaxDepth
    BY LenProperties DEF TypeInv, StackOK
  <2>3. PICK d \in 1 .. MaxDepth : /\ d = Len(stack[t]) + 1 - i /\ d <= Len(stack[t])
                                   /\ Len(stack[t]) + 1 - d = i
    <3>1. /\ Len(stack[t]) + 1 - i \in 1 .. MaxDepth
          /\ Len(stack[t]) + 1 - i <= Len(stack[t])
          /\ Len(stack[t]) + 1 - (Len(stack[t]) + 1 - i) = i
      BY <2>1, <2>2, BoundAssumption
    <3> QED
      BY <3>1
  <2>4. /\ PassAt(t, d) = PassOf(p)
        /\ TodoAt(t, d) = PassOf(p).todo /\ DeferredAt(t, d) = PassOf(p).deferred
    BY <2>1, <2>3 DEF PassAt, PassOf, TodoAt, DeferredAt
  <2>5. PassOf(p).todo \in Seq(SimpleActions) /\ PassOf(p).deferred \in Seq(SimpleActions)
    <3>1. PassOf(p) \in ProperFrames
      BY <2>1, <2>2, ElementOfSeq DEF PassOf
    <3> QED
      BY <3>1 DEF ProperFrames, Frames
  <2>6. s \in Range(TodoAt(t, d)) \/ s \in Range(DeferredAt(t, d))
    BY <1>3, <2>4, <2>5, RangeConcatenation
  <2>7. ASSUME NEW k, k = <<"todo", t, d>> \/ k = <<"deferred", t, d>>
        PROVE  k # <<"ran", GameThread, 0>> /\ x = PlaceOf(k)
    <3>1. k \in PassPlaces /\ k[2] = t /\ k[3] = d
      BY <2>7 DEF PassPlaces
    <3> QED
      BY <1>3, <2>1, <2>3, <2>7, <3>1 DEF PlaceOf
  <2>8. CASE s \in Range(TodoAt(t, d))
    <3>1. PICK k \in Places : k = <<"todo", t, d>> /\ HeldIn[k] = TodoAt(t, d)
      BY HeldInPlaces
    <3> QED
      BY <2>7, <2>8, <3>1
  <2>9. CASE s \in Range(DeferredAt(t, d))
    <3>1. PICK k \in Places : k = <<"deferred", t, d>> /\ HeldIn[k] = DeferredAt(t, d)
      BY HeldInPlaces
    <3> QED
      BY <2>7, <2>9, <3>1
  <2> QED
    BY <2>6, <2>8, <2>9
<1> QED
  BY <1>1, <1>2, <1>3 DEF SimplePlaces

\* The converse, as far as it is needed.
LEMMA HeldIsInAPlace ==
  ASSUME TypeInv, NEW s, s \in Members(HeldIn)
  PROVE  SimplePlaces(s) # {}
<1>1. PICK k \in Places : s \in Range(HeldIn[k])
  BY DEF Members, HeldIn
<1>2. ASSUME NEW e \in Methods, k = <<"queue", e, 0>> \/ k = <<"pending", e, 0>>
      PROVE  SimplePlaces(s) # {}
  <2>1. s \in Range(simple[e]) \/ s \in Range(pendingSimple[e])
    BY <1>1, <1>2, HeldInPlaces
  <2>2. <<"queue", e>> \in SimplePlaces(s) \/ <<"pending", e>> \in SimplePlaces(s)
    BY <2>1 DEF SimplePlaces
  <2> QED
    BY <2>2
<1>3. ASSUME NEW t \in Threads, NEW d \in 1 .. MaxDepth, k = <<"todo", t, d>> \/ k = <<"deferred", t, d>>
      PROVE  SimplePlaces(s) # {}
  <2>1. s \in Range(TodoAt(t, d)) \/ s \in Range(DeferredAt(t, d))
    BY <1>1, <1>3, HeldInPlaces
  <2>2. d <= Len(stack[t])
    BY <2>1, RangeOfEmpty DEF TodoAt, DeferredAt
  <2>3. stack[t] \in Seq(ProperFrames) /\ Len(stack[t]) \in Nat /\ Len(stack[t]) <= MaxDepth
    BY LenProperties DEF TypeInv, StackOK
  <2>4. PICK i \in 1 .. MaxDepth : i = Len(stack[t]) + 1 - d /\ i <= Len(stack[t])
    <3>1. Len(stack[t]) + 1 - d \in 1 .. MaxDepth /\ Len(stack[t]) + 1 - d <= Len(stack[t])
      BY <2>2, <2>3, BoundAssumption
    <3> QED
      BY <3>1
  <2>5. PICK p \in Passes : p = <<t, i>>
    BY <2>4 DEF Passes
  <2>6. TodoAt(t, d) = PassOf(p).todo /\ DeferredAt(t, d) = PassOf(p).deferred
    BY <2>2, <2>4, <2>5 DEF TodoAt, DeferredAt, PassAt, PassOf
  <2>7. PassOf(p).todo \in Seq(SimpleActions) /\ PassOf(p).deferred \in Seq(SimpleActions)
    <3>1. PassOf(p) \in ProperFrames
      BY <2>3, <2>4, <2>5, ElementOfSeq DEF PassOf
    <3> QED
      BY <3>1 DEF ProperFrames, Frames
  <2>8. s \in Range(PassOf(p).todo \o PassOf(p).deferred)
    BY <2>1, <2>6, <2>7, RangeConcatenation
  <2>9. <<"pass", p>> \in SimplePlaces(s)
    BY <2>8 DEF SimplePlaces
  <2> QED
    BY <2>9
<1>4. ASSUME k = <<"ran", GameThread, 0>>
      PROVE  SimplePlaces(s) # {}
  <2>1. PICK n \in DOMAIN ran : ran[n] = s
    BY <1>1, <1>4, HeldInPlaces DEF Range
  <2>2. <<"ran", n>> \in SimplePlaces(s)
    BY <2>1 DEF SimplePlaces
  <2> QED
    BY <2>2
<1> QED
  BY <1>2, <1>3, <1>4, PlacesAreThese

LEMMA OnePlaceEach ==
  ASSUME TypeInv, PlacesOK, NEW s
  PROVE  /\ Cardinality(SimplePlaces(s)) <= 1
         /\ s \in Members(HeldIn) => Cardinality(SimplePlaces(s)) = 1
<1>1. Apart(HeldIn) /\ DOMAIN HeldIn = Places
  BY DEF PlacesOK, HeldIn
<1> DEFINE done == <<"ran", GameThread, 0>>
<1>2. done \in Places /\ HeldIn[done] = ran
  BY HeldInPlaces
<1>3. \A k, l \in Places : s \in Range(HeldIn[k]) /\ s \in Range(HeldIn[l]) => k = l
  BY <1>1 DEF Apart
<1>4. \A m, n \in DOMAIN ran : ran[m] = s /\ ran[n] = s => m = n
  BY <1>1, <1>2 DEF Apart, IsInjective
<1>5. \A n \in DOMAIN ran : ran[n] = s => s \in Range(HeldIn[done])
  BY <1>2 DEF Range
<1> HIDE DEF done
<1>6. \A x \in SimplePlaces(s) :
        \/ \E k \in Places : k # done /\ s \in Range(HeldIn[k]) /\ x = PlaceOf(k)
        \/ \E n \in DOMAIN ran : ran[n] = s /\ x = <<"ran", n>>
  BY <1>1, HeldInOneVector DEF done
<1>7. \A x, y \in SimplePlaces(s) : x = y
  <2> SUFFICES ASSUME NEW x \in SimplePlaces(s), NEW y \in SimplePlaces(s)
               PROVE  x = y
    OBVIOUS
  <2>1. CASE \E n \in DOMAIN ran : ran[n] = s
    <3>1. \A k \in Places : k # done => s \notin Range(HeldIn[k])
      BY <1>2, <1>3, <1>5, <2>1
    <3> QED
      BY <1>4, <1>6, <3>1
  <2>2. CASE ~ \E n \in DOMAIN ran : ran[n] = s
    <3>1. PICK k \in Places : s \in Range(HeldIn[k]) /\ x = PlaceOf(k)
      BY <1>6, <2>2
    <3>2. PICK l \in Places : s \in Range(HeldIn[l]) /\ y = PlaceOf(l)
      BY <1>6, <2>2
    <3> QED
      BY <1>3, <3>1, <3>2
  <2> QED
    BY <2>1, <2>2
<1>8. CASE SimplePlaces(s) = {}
  <2>1. Cardinality({}) = 0
    BY FS_EmptySet
  <2> QED
    BY <1>8, <2>1, HeldIsInAPlace
<1>9. ASSUME NEW x \in SimplePlaces(s)
      PROVE  Cardinality(SimplePlaces(s)) = 1
  <2>1. SimplePlaces(s) = {x}
    BY <1>7
  <2>2. Cardinality({x}) = 1
    BY FS_Singleton
  <2> QED
    BY <2>1, <2>2
<1> QED
  BY <1>8, <1>9

\* The invariant: every registered action is held.
AllHeld == \A s \in 1 .. nextSimple - 1 : s \in Members(HeldIn)

PlacesInv == TypeInv /\ PlacesOK /\ AllHeld

LEMMA PlacesInvInductive ==
  /\ Init => PlacesInv
  /\ PlacesInv /\ [Next]_vars => PlacesInv'
<1>1. Init => PlacesInv
  BY PlacesOKInitially DEF PlacesInv, AllHeld
<1>2. ASSUME PlacesInv, [Next]_vars
      PROVE  PlacesInv'
  <2>1. TypeInv /\ TypeInv' /\ PlacesOK /\ AllHeld
    BY <1>2, TypeInvInductive DEF PlacesInv
  <2>2. ASSUME NoneMoved
        PROVE  PlacesInv'
    BY <2>1, <2>2 DEF NoneMoved, PlacesInv, AllHeld
  <2>3. ASSUME NEW m \in Mods, OneMore(m)
        PROVE  PlacesInv'
    <3>1. nextSimple \in Nat \ {0}
      BY <2>1, BoundAssumption DEF TypeInv, SimplesOK
    <3>2. \A s \in 1 .. nextSimple' - 1 : s \in 1 .. nextSimple - 1 \/ s = nextSimple
      BY <2>3, <3>1 DEF OneMore
    <3> QED
      BY <2>1, <2>3, <3>2 DEF OneMore, PlacesInv, AllHeld
  <2> QED
    BY <1>2, <2>1, <2>2, <2>3, PassStepMovesNone, RegistrationPlacesOne, ControllingMovesNone,
       TheRestMovesNone DEF Next
<1> QED
  BY <1>1, <1>2

\* A registered simple action is in one place, and in one only: waiting, with a pass of
\* some thread, or done.  No interleaving of passes, no nesting, no deferring and no merge
\* loses it or runs it twice.
OneEach == \A s \in 1 .. nextSimple - 1 : Cardinality(SimplePlaces(s)) = 1

THEOREM NoSimpleActionIsLost == Spec => []OneEach
<1>1. PlacesInv => OneEach
  BY OnePlaceEach DEF PlacesInv, AllHeld, OneEach
<1> QED
  BY <1>1, PlacesInvInductive, PTL DEF Spec
=============================================================================
