------------------------- MODULE AsyncWorker_proofs -------------------------
(***************************************************************************)
(* What holds of AsyncWorker for every number of actions, wherever the     *)
(* worker is when actions are asked for and when the mod is uninstalled.   *)
(***************************************************************************)
EXTENDS AsyncWorker, Vectors_proofs, TLAPS

-----------------------------------------------------------------------------
(* The invariant.                                                          *)

InRound == worker = "batch" \/ InCall

Immediate(a) == kind[a] = "Immediate"

\* Identifiers are drawn from a counter: an earlier one is a smaller one.
Sorted(q) == \A i, j \in DOMAIN q : i < j => q[i] < q[j]
Below(p, q) == \A x \in Range(p), y \in Range(q) : x < y

Typed ==
  /\ kind \in Seq(Kinds) /\ called \in Seq(Actions)
  /\ pending \in Seq(Actions) /\ delayed \in Seq(Actions) /\ passed \subseteq Actions
  /\ batch \in [due : SUBSET Actions, todo : Seq(Actions), kept : Seq(Actions)]
  /\ worker \in WorkerStates /\ stop \in BOOLEAN
  /\ loop \in {"idle", "join", "close", "closed"} /\ mutex \in {"free", "game", "loop"}

\* The lists are in the order of asking, the worker's before the pending one; a round splits
\* the worker's into what it has kept and what it has before it.
ListsOK ==
  /\ Sorted(pending) /\ Sorted(delayed) /\ Below(delayed, pending)
  /\ Sorted(batch.todo) /\ Sorted(batch.kept) /\ Below(batch.kept, batch.todo)
  /\ Range(batch.todo) \cup Range(batch.kept) \subseteq Range(delayed)
  /\ ~InRound => batch.todo = <<>> /\ batch.kept = <<>>

\* The state closes when the thread has ended, and the callback of a round's first action runs.
CallOK ==
  /\ loop \in {"close", "closed"} => worker \in {"off", "exited"}
  /\ InCall => /\ batch.todo # <<>>
               /\ kind[First] # "Loop" => First \in Range(called)

\* Immediate actions are due in the round that takes them over, so none is left behind, and
\* those that have been called were asked for before those that have not.
OrderOK ==
  /\ \A i \in DOMAIN called : kind[called[i]] # "Loop"
  /\ \A a \in Range(batch.kept) : ~Immediate(a)
  /\ ~InRound => \A a \in Range(delayed) : ~Immediate(a)
  /\ \A c \in Range(called), a \in Range(batch.todo) \cup Range(pending) :
       Immediate(c) /\ Immediate(a) /\ ~(InCall /\ a = First) => c < a

WorkerInv == Typed /\ ListsOK /\ CallOK /\ OrderOK /\ OneShotsCalledOnce /\ ImmediateInOrder

-----------------------------------------------------------------------------
(* Sequences in ascending order.                                           *)

LEMMA SortedEmpty == Sorted(<<>>) /\ Range(<<>>) = {}
BY EmptySeq, RangeOfEmpty DEF Sorted

LEMMA SortedAppend ==
  ASSUME NEW q \in Seq(Nat), NEW e \in Nat, Sorted(q), \A x \in Range(q) : x < e
  PROVE  Sorted(Append(q, e))
<1> DEFINE r == Append(q, e)
<1>1. /\ Len(q) \in Nat /\ DOMAIN q = 1 .. Len(q)
      /\ DOMAIN r = 1 .. Len(q) + 1
      /\ \A i \in DOMAIN q : r[i] = q[i]
      /\ r[Len(q) + 1] = e
  BY AppendProperties, LenProperties
<1>2. \A i \in DOMAIN q : q[i] \in Range(q)
  BY DEF Range
<1> HIDE DEF r
<1>3. ASSUME NEW i \in DOMAIN r, NEW j \in DOMAIN r, i < j
      PROVE  r[i] < r[j]
  <2>1. i \in DOMAIN q
    BY <1>1, <1>3
  <2>2. CASE j \in DOMAIN q
    BY <1>1, <1>3, <2>1, <2>2 DEF Sorted
  <2>3. CASE j = Len(q) + 1
    <3>1. q[i] < e
      BY <1>2, <2>1
    <3> QED
      BY <1>1, <2>1, <2>3, <3>1
  <2> QED
    BY <1>1, <2>2, <2>3
<1> QED
  BY <1>3 DEF Sorted, r

LEMMA SortedConcat ==
  ASSUME NEW p \in Seq(Nat), NEW q \in Seq(Nat), Sorted(p), Sorted(q), Below(p, q)
  PROVE  Sorted(p \o q)
<1> DEFINE r == p \o q
           l == Len(p)
<1>1. /\ l \in Nat /\ DOMAIN p = 1 .. l
      /\ Len(q) \in Nat /\ DOMAIN q = 1 .. Len(q)
      /\ \A i \in DOMAIN p : p[i] \in Nat
      /\ \A i \in DOMAIN q : q[i] \in Nat
  BY LenProperties, ElementOfSeq
<1>2. /\ r \in Seq(Nat) /\ Len(r) = l + Len(q)
      /\ \A i \in 1 .. l + Len(q) : r[i] = IF i <= l THEN p[i] ELSE q[i - l]
  BY ConcatProperties
<1>3. DOMAIN r = 1 .. l + Len(q)
  BY <1>2, LenProperties
<1>4. /\ \A i \in DOMAIN p : p[i] \in Range(p)
      /\ \A i \in DOMAIN q : q[i] \in Range(q)
  BY DEF Range
<1> HIDE DEF r, l
<1>5. ASSUME NEW i \in DOMAIN r, NEW j \in DOMAIN r, i < j
      PROVE  r[i] < r[j]
  <2>1. CASE j <= l
    <3>1. i \in DOMAIN p /\ j \in DOMAIN p /\ r[i] = p[i] /\ r[j] = p[j]
      BY <1>1, <1>2, <1>3, <1>5, <2>1
    <3> QED
      BY <1>5, <3>1 DEF Sorted
  <2>2. CASE i <= l /\ ~(j <= l)
    <3>1. i \in DOMAIN p /\ j - l \in DOMAIN q /\ r[i] = p[i] /\ r[j] = q[j - l]
      BY <1>1, <1>2, <1>3, <1>5, <2>2
    <3> QED
      BY <1>4, <3>1 DEF Below
  <2>3. CASE ~(i <= l)
    <3>1. /\ i - l \in DOMAIN q /\ j - l \in DOMAIN q /\ i - l < j - l
          /\ r[i] = q[i - l] /\ r[j] = q[j - l]
      BY <1>1, <1>2, <1>3, <1>5, <2>3
    <3> QED
      BY <3>1 DEF Sorted
  <2> QED
    BY <1>1, <1>3, <1>5, <2>1, <2>2, <2>3
<1> QED
  BY <1>5 DEF Sorted, r

LEMMA SortedTail ==
  ASSUME NEW q \in Seq(Nat), q # <<>>, Sorted(q)
  PROVE  /\ Sorted(Tail(q))
         /\ Head(q) \in Nat
         /\ Range(q) = {Head(q)} \cup Range(Tail(q))
         /\ \A x \in Range(Tail(q)) : Head(q) < x
<1> DEFINE t == Tail(q)
<1>1. /\ DOMAIN q = 1 .. Len(q) /\ Len(q) \in Nat \ {0}
      /\ DOMAIN t = 1 .. Len(q) - 1
      /\ \A i \in DOMAIN t : t[i] = q[i + 1]
      /\ Head(q) = q[1] /\ Head(q) \in Nat
  BY HeadTailProperties, LenProperties, EmptySeq
<1> HIDE DEF t
<1>2. \A i \in DOMAIN t : i \in Nat /\ i + 1 \in DOMAIN q /\ 1 \in DOMAIN q /\ 1 < i + 1
  BY <1>1
<1>3. Sorted(t)
  <2> SUFFICES ASSUME NEW i \in DOMAIN t, NEW j \in DOMAIN t, i < j
               PROVE  t[i] < t[j]
    BY DEF Sorted
  <2>1. i + 1 < j + 1
    BY <1>2
  <2> QED
    BY <1>1, <1>2, <2>1 DEF Sorted
<1>4. \A i \in DOMAIN t : Head(q) < t[i]
  BY <1>1, <1>2 DEF Sorted
<1>5. Range(q) = {Head(q)} \cup Range(Tail(q))
  BY RangeOfTail
<1> QED
  BY <1>1, <1>3, <1>4, <1>5 DEF t, Range

LEMMA SortedIsInjective ==
  ASSUME NEW q \in Seq(Nat), Sorted(q)
  PROVE  IsInjective(q)
<1>1. /\ DOMAIN q = 1 .. Len(q) /\ Len(q) \in Nat
      /\ \A i \in DOMAIN q : q[i] \in Nat
  BY LenProperties, ElementOfSeq
<1>2. \A i, j \in DOMAIN q : i < j \/ j < i \/ i = j
  BY <1>1
<1>3. \A i, j \in DOMAIN q : q[i] = q[j] => ~(q[i] < q[j]) /\ ~(q[j] < q[i])
  BY <1>1
<1> QED
  BY <1>2, <1>3 DEF Sorted, IsInjective

-----------------------------------------------------------------------------
(* The steps.                                                              *)

\* The lists hold identifiers, and Listed is what is in their ranges.
ListsOfActions ==
  /\ Actions \subseteq Nat /\ Len(kind) \in Nat
  /\ pending \in Seq(Nat) /\ delayed \in Seq(Nat) /\ called \in Seq(Nat)
  /\ batch.todo \in Seq(Nat) /\ batch.kept \in Seq(Nat)
  /\ Listed = Range(pending) \cup
                (IF InRound THEN Range(batch.todo) \cup Range(batch.kept) ELSE Range(delayed))
  /\ Range(pending) \subseteq Actions /\ Range(delayed) \subseteq Actions
  /\ Range(called) \subseteq Actions
  /\ Range(batch.todo) \subseteq Actions /\ Range(batch.kept) \subseteq Actions

LEMMA Lists == Typed => ListsOfActions
<1> SUFFICES ASSUME Typed
             PROVE  ListsOfActions
  OBVIOUS
<1>1. Actions \subseteq Nat /\ Len(kind) \in Nat
  BY LenProperties DEF Typed, Actions
<1>2. /\ pending \in Seq(Actions) /\ delayed \in Seq(Actions) /\ called \in Seq(Actions)
      /\ batch.todo \in Seq(Actions) /\ batch.kept \in Seq(Actions)
  BY DEF Typed
<1>3. /\ pending \in Seq(Nat) /\ delayed \in Seq(Nat) /\ called \in Seq(Nat)
      /\ batch.todo \in Seq(Nat) /\ batch.kept \in Seq(Nat)
  BY <1>1, <1>2, SeqMonotonic
<1>4. Range(batch.todo \o batch.kept) = Range(batch.todo) \cup Range(batch.kept)
  BY <1>2, RangeConcatenation
<1>5. worker \in {"off", "idle", "exited"} <=> ~InRound
  BY DEF Typed, WorkerStates, InRound, InCall
<1>6. \A q \in Seq(Actions) : Range(q) \subseteq Actions
  <2> SUFFICES ASSUME NEW q \in Seq(Actions) PROVE Range(q) \subseteq Actions
    OBVIOUS
  <2> QED
    BY LenProperties, ElementOfSeq DEF Range
<1>7. /\ Range(pending) \subseteq Actions /\ Range(delayed) \subseteq Actions
      /\ Range(called) \subseteq Actions
      /\ Range(batch.todo) \subseteq Actions /\ Range(batch.kept) \subseteq Actions
  BY <1>2, <1>6
<1> QED
  BY <1>1, <1>3, <1>4, <1>5, <1>7 DEF Listed, ListsOfActions

LEMMA ListsNext == Typed' => ListsOfActions'
BY Lists, PTL

LEMMA InvInitially == Init => WorkerInv
<1> SUFFICES ASSUME Init
             PROVE  WorkerInv
  OBVIOUS
<1> USE DEF Init, NoBatch
<1>1. Typed
  BY EmptySeq DEF Typed, WorkerStates
<1>2. ~InRound /\ ~InCall
  BY DEF InRound, InCall
<1>3. ListsOK
  BY <1>2, SortedEmpty DEF ListsOK, Below
<1>4. Actions = {} /\ DOMAIN called = {}
  BY EmptySeq DEF Actions
<1>5. CallOK /\ OrderOK
  BY <1>2, <1>4, SortedEmpty DEF CallOK, OrderOK
<1>6. OneShotsCalledOnce /\ ImmediateInOrder
  BY <1>4 DEF OneShotsCalledOnce, ImmediateInOrder, IsInjective
<1> QED
  BY <1>1, <1>3, <1>5, <1>6 DEF WorkerInv

\* A step that changes no list, and neither begins nor ends a round or a call.
LEMMA QuietStep ==
  ASSUME WorkerInv, UNCHANGED <<kind, pending, delayed, batch, called>>,
         InRound' = InRound, InCall' = InCall, loop = "closed" => loop' = "closed",
         passed' \subseteq Actions, worker' \in WorkerStates, stop' \in BOOLEAN,
         loop' \in {"idle", "join", "close", "closed"}, mutex' \in {"free", "game", "loop"},
         loop' \in {"close", "closed"} => worker' \in {"off", "exited"}
  PROVE  WorkerInv'
<1> USE DEF WorkerInv, Actions, First, Immediate
<1>1. Typed'
  BY DEF Typed
<1>2. ListsOK'
  BY DEF ListsOK, Sorted, Below
<1>3. CallOK'
  BY DEF CallOK
<1>4. OrderOK'
  BY DEF OrderOK
<1>5. Listed' = Listed
  BY <1>1, Lists, ListsNext DEF ListsOfActions
<1>6. OneShotsCalledOnce'
  BY <1>5 DEF OneShotsCalledOnce
<1>7. ImmediateInOrder'
  BY DEF ImmediateInOrder
<1> QED
  BY <1>1, <1>2, <1>3, <1>4, <1>6, <1>7

LEMMA AskKeeps ==
  ASSUME WorkerInv, NEW k \in Kinds, Ask(k)
  PROVE  WorkerInv'
<1> DEFINE new == Len(kind) + 1
<1>0. /\ Typed /\ ListsOK /\ CallOK /\ OrderOK /\ OneShotsCalledOnce /\ ImmediateInOrder
      /\ ListsOfActions
  BY Lists DEF WorkerInv
<1>1. /\ UNCHANGED <<delayed, passed, batch, called, worker, stop, loop, mutex>>
      /\ kind' = Append(kind, k) /\ pending' = Append(pending, new) /\ loop # "closed"
  BY DEF Ask, rounds
<1>2. /\ new \in Nat /\ new \notin Actions /\ \A a \in Actions : a < new
      /\ Actions' = Actions \cup {new} /\ kind' \in Seq(Kinds)
      /\ \A a \in Actions : kind'[a] = kind[a]
      /\ kind'[new] = k
  <2>1. kind \in Seq(Kinds) /\ Len(kind) \in Nat
    BY <1>0, LenProperties DEF Typed
  <2>2. /\ kind' \in Seq(Kinds) /\ Len(kind') = new
        /\ \A a \in 1 .. Len(kind) : kind'[a] = kind[a]
        /\ kind'[new] = k
    BY <1>1, <2>1, AppendProperties
  <2>3. Actions' = 1 .. new
    BY <2>2 DEF Actions
  <2> QED
    BY <2>1, <2>2, <2>3 DEF Actions
<1> HIDE DEF new
<1>3. Typed'
  <2>1. \A q \in Seq(Actions) : q \in Seq(Actions')
    BY <1>2, SeqMonotonic
  <2>2. pending' \in Seq(Actions')
    BY <1>0, <1>1, <1>2, <2>1, AppendProperties DEF Typed
  <2>3. called' \in Seq(Actions') /\ delayed' \in Seq(Actions') /\ passed' \subseteq Actions'
    BY <1>0, <1>1, <1>2, <2>1 DEF Typed
  <2>4. batch' \in [due : SUBSET Actions', todo : Seq(Actions'), kept : Seq(Actions')]
    BY <1>0, <1>1, <1>2, <2>1 DEF Typed
  <2> QED
    BY <1>0, <1>1, <1>2, <2>2, <2>3, <2>4 DEF Typed
<1>4. ListsOfActions' /\ InRound' = InRound /\ InCall' = InCall /\ First' = First
  BY <1>1, <1>3, ListsNext DEF InRound, InCall, First
<1>5. Range(pending') = Range(pending) \cup {new}
  BY <1>0, <1>1, <1>2, RangeOfAppend DEF ListsOfActions
<1>6. Listed' = Listed \cup {new}
  BY <1>0, <1>1, <1>4, <1>5 DEF ListsOfActions
<1>7. ListsOK'
  <2>1. Sorted(pending')
    BY <1>0, <1>1, <1>2, SortedAppend DEF ListsOK, ListsOfActions
  <2>2. Below(delayed', pending')
    BY <1>0, <1>1, <1>2, <1>5 DEF ListsOK, ListsOfActions, Below
  <2> QED
    BY <1>0, <1>1, <1>4, <2>1, <2>2 DEF ListsOK
<1>8. InCall => First \in Actions
  BY <1>0, RangeOfTail DEF CallOK, ListsOfActions, First
<1>9. CallOK'
  BY <1>0, <1>1, <1>2, <1>4, <1>8 DEF CallOK
<1>10. OrderOK'
  <2>1. \A a \in Actions : Immediate(a)' = Immediate(a)
    BY <1>2 DEF Immediate
  <2>2. \A i \in DOMAIN called' : kind'[called'[i]] # "Loop"
    <3>1. \A i \in DOMAIN called : called[i] \in Actions
      BY <1>0 DEF ListsOfActions, Range
    <3> QED
      BY <1>0, <1>1, <1>2, <3>1 DEF OrderOK
  <2>3. \A a \in Range(batch'.kept) : ~Immediate(a)'
    BY <1>0, <1>1, <2>1 DEF OrderOK, ListsOfActions
  <2>4. ~InRound' => \A a \in Range(delayed') : ~Immediate(a)'
    BY <1>0, <1>1, <1>4, <2>1 DEF OrderOK, ListsOfActions
  <2>5. ASSUME NEW c \in Range(called'), NEW a \in Range(batch'.todo) \cup Range(pending'),
               Immediate(c)', Immediate(a)', ~(InCall /\ a = First)
        PROVE  c < a
    <3>1. c \in Actions /\ Immediate(c) /\ c \in Range(called)
      BY <1>0, <1>1, <2>1, <2>5 DEF ListsOfActions
    <3>2. CASE a = new
      BY <1>2, <3>1, <3>2
    <3>3. CASE a # new
      <4>1. a \in Range(batch.todo) \cup Range(pending) /\ a \in Actions /\ Immediate(a)
        BY <1>0, <1>1, <1>5, <2>1, <2>5, <3>3 DEF ListsOfActions
      <4> QED
        BY <1>0, <2>5, <3>1, <4>1 DEF OrderOK
    <3> QED
      BY <3>2, <3>3
  <2> QED
    BY <1>4, <2>2, <2>3, <2>4, <2>5 DEF OrderOK
<1>11. OneShotsCalledOnce'
  <2>1. new \notin Range(called) /\ (InCall => First # new)
    BY <1>0, <1>2, <1>8 DEF ListsOfActions
  <2>2. \A a \in Actions' : kind'[a] # "Loop" =>
          (a \in Listed' <=> a \notin Range(called') \/ (InCall' /\ a = First'))
    BY <1>0, <1>1, <1>2, <1>4, <1>6, <2>1 DEF OneShotsCalledOnce
  <2> QED
    BY <1>0, <1>1, <2>2 DEF OneShotsCalledOnce
<1>12. ImmediateInOrder'
  <2>1. \A i \in DOMAIN called : called[i] \in Actions
    BY <1>0 DEF ListsOfActions, Range
  <2>2. \A i \in DOMAIN called : kind'[called[i]] = kind[called[i]]
    BY <1>2, <2>1
  <2> QED
    BY <1>0, <1>1, <2>2 DEF ImmediateInOrder
<1> QED
  BY <1>3, <1>7, <1>9, <1>10, <1>11, <1>12 DEF WorkerInv

\* The worker takes the pending actions over: none is lost, and those it has are older.
LEMMA RoundBeginsKeeps ==
  ASSUME WorkerInv, RoundBegins
  PROVE  WorkerInv'
<1>0. /\ Typed /\ ListsOK /\ CallOK /\ OrderOK /\ OneShotsCalledOnce /\ ImmediateInOrder
      /\ ListsOfActions
  BY Lists DEF WorkerInv
<1>1. /\ UNCHANGED <<kind, passed, called, stop, loop, mutex>>
      /\ worker = "idle" /\ worker' = "batch"
      /\ delayed' = delayed \o pending /\ pending' = <<>>
      /\ batch' = [due |-> passed, todo |-> delayed', kept |-> <<>>]
  BY DEF RoundBegins
<1>2. ~InRound /\ ~InCall /\ InRound' /\ ~InCall' /\ Actions' = Actions
  BY <1>1 DEF InRound, InCall, Actions
<1>3. delayed' \in Seq(Actions) /\ <<>> \in Seq(Actions)
  BY <1>0, <1>1, ConcatProperties, EmptySeq DEF Typed
<1>4. Typed'
  <2>1. batch' \in [due : SUBSET Actions, todo : Seq(Actions), kept : Seq(Actions)]
    BY <1>0, <1>1, <1>3 DEF Typed
  <2> QED
    BY <1>0, <1>1, <1>2, <1>3, <2>1 DEF Typed, WorkerStates
<1>5. ListsOfActions'
  BY <1>4, ListsNext
<1>6. Range(delayed') = Range(delayed) \cup Range(pending)
  BY <1>0, <1>1, RangeConcatenation DEF ListsOfActions
<1>7. batch'.todo = delayed' /\ batch'.kept = <<>> /\ Range(<<>>) = {}
  BY <1>1, RangeOfEmpty
<1>8. Listed' = Listed
  BY <1>0, <1>1, <1>2, <1>5, <1>6, <1>7 DEF ListsOfActions
<1>9. ListsOK'
  <2>1. Sorted(delayed')
    BY <1>0, <1>1, SortedConcat DEF ListsOK, ListsOfActions
  <2> QED
    BY <1>1, <1>2, <1>7, <2>1, SortedEmpty DEF ListsOK, Below
<1>10. CallOK'
  BY <1>0, <1>1, <1>2 DEF CallOK
<1>11. \A a : Immediate(a)' = Immediate(a)
  BY <1>1 DEF Immediate
<1>12. OrderOK'
  BY <1>0, <1>1, <1>2, <1>6, <1>7, <1>11 DEF OrderOK
<1>13. OneShotsCalledOnce'
  BY <1>0, <1>1, <1>2, <1>8 DEF OneShotsCalledOnce
<1>14. ImmediateInOrder'
  BY <1>0, <1>1 DEF ImmediateInOrder
<1> QED
  BY <1>4, <1>9, <1>10, <1>12, <1>13, <1>14 DEF WorkerInv

\* The first action of the round leaves what is before the worker, and is kept if it is not
\* an immediate one.
LEMMA FirstLeaves ==
  ASSUME WorkerInv, InRound, batch.todo # <<>>,
         UNCHANGED <<kind, pending, delayed, called, stop, loop, mutex>>,
         worker' = "batch", passed' \subseteq passed,
         \/ batch' = Kept /\ ~Immediate(First)
         \/ batch' = Erased
  PROVE  /\ Typed' /\ ListsOK' /\ CallOK' /\ OrderOK' /\ ImmediateInOrder'
         /\ Listed' = IF batch' = Kept THEN Listed ELSE Listed \ {First}
         /\ First \in Listed
<1> DEFINE rest == Tail(batch.todo)
<1>0. /\ Typed /\ ListsOK /\ CallOK /\ OrderOK /\ ImmediateInOrder
      /\ ListsOfActions /\ UNCHANGED Actions
  BY Lists DEF WorkerInv, Actions
<1>1. /\ Sorted(rest) /\ rest \in Seq(Actions)
      /\ Range(batch.todo) = {First} \cup Range(rest)
      /\ \A x \in Range(rest) : First < x
      /\ First \in Actions /\ First \in Nat /\ Range(rest) \subseteq Nat
  <2>1. batch.todo \in Seq(Nat) /\ batch.todo \in Seq(Actions) /\ Sorted(batch.todo)
    BY <1>0 DEF ListsOfActions, ListsOK, Typed
  <2>2. First \in Actions /\ rest \in Seq(Actions)
    BY <2>1, HeadTailProperties DEF First
  <2>3. /\ Sorted(rest) /\ First \in Nat
        /\ Range(batch.todo) = {First} \cup Range(rest)
        /\ \A x \in Range(rest) : First < x
    BY <2>1, SortedTail DEF First
  <2> QED
    BY <1>0, <2>2, <2>3 DEF ListsOfActions
<1>2. /\ ~InCall' /\ InRound'
      /\ batch'.todo = rest /\ batch'.due = batch.due
      /\ \/ batch'.kept = batch.kept /\ batch' = Erased
         \/ batch'.kept = Append(batch.kept, First) /\ ~Immediate(First) /\ batch' = Kept
  BY <1>0 DEF InCall, InRound, Kept, Erased, Typed
<1>a. batch' = Kept => batch'.kept = Append(batch.kept, First)
  BY <1>0 DEF Kept, Typed
<1>b. Range(Append(batch.kept, First)) = Range(batch.kept) \cup {First}
  <2>1. batch.kept \in Seq(Nat) /\ First \in Nat
    BY <1>0, <1>1 DEF ListsOfActions
  <2> QED
    BY <2>1, RangeOfAppend
<1>3. Range(batch'.kept) = IF batch'.kept = batch.kept THEN Range(batch.kept)
                                                       ELSE Range(batch.kept) \cup {First}
  BY <1>2, <1>b
<1> HIDE DEF rest
<1>4. \A x \in Range(batch.kept) : x < First /\ x \in Nat
  BY <1>0, <1>1 DEF ListsOK, Below, ListsOfActions
<1>5. Sorted(batch'.kept) /\ batch'.kept \in Seq(Actions)
  <2>1. batch.kept \in Seq(Nat) /\ batch.kept \in Seq(Actions) /\ Sorted(batch.kept)
    BY <1>0 DEF ListsOfActions, ListsOK, Typed
  <2>2. Append(batch.kept, First) \in Seq(Actions)
    BY <1>1, <2>1, AppendProperties
  <2>3. Sorted(Append(batch.kept, First))
    BY <1>1, <1>4, <2>1, SortedAppend
  <2> QED
    BY <1>2, <2>1, <2>2, <2>3
<1>6. Typed'
  <2>1. batch' \in [due : SUBSET Actions, todo : Seq(Actions), kept : Seq(Actions)]
    <3>1. DOMAIN batch' = {"due", "todo", "kept"} /\ batch' = [x \in {"due", "todo", "kept"} |-> batch'[x]]
      BY <1>0 DEF Kept, Erased, Typed
    <3> QED
      BY <1>0, <1>1, <1>2, <1>5, <3>1 DEF Typed
  <2> QED
    BY <1>0, <2>1 DEF Typed, WorkerStates
<1>7. ListsOfActions'
  BY <1>6, ListsNext
<1>8. ListsOK'
  <2>1. Below(batch'.kept, batch'.todo)
    BY <1>0, <1>1, <1>2, <1>3 DEF ListsOK, Below
  <2>2. Range(batch'.todo) \cup Range(batch'.kept) \subseteq Range(delayed')
    BY <1>0, <1>1, <1>2, <1>3 DEF ListsOK
  <2> QED
    BY <1>0, <1>1, <1>2, <1>5, <2>1, <2>2 DEF ListsOK
<1>9. CallOK'
  BY <1>0, <1>2 DEF CallOK, InRound, InCall
<1>10. OrderOK'
  <2>1. \A a : Immediate(a)' = Immediate(a)
    BY DEF Immediate
  <2>2. \A a \in Range(batch'.kept) : ~Immediate(a)
    BY <1>0, <1>2, <1>3 DEF OrderOK
  <2>3. \A a \in Range(batch'.todo) : a # First
    BY <1>1, <1>2
  <2>4. \A a \in Range(pending) : a # First
    <3>1. \A a \in Range(pending) : First < a
      BY <1>0, <1>1 DEF ListsOK, Below
    <3> QED
      BY <1>1, <3>1
  <2>5. \A c \in Range(called), a \in Range(batch'.todo) \cup Range(pending) :
          Immediate(c) /\ Immediate(a) => c < a
    BY <1>0, <1>1, <1>2, <2>3, <2>4 DEF OrderOK
  <2> QED
    BY <1>0, <1>2, <2>1, <2>2, <2>5 DEF OrderOK
<1>11. ImmediateInOrder'
  BY <1>0 DEF ImmediateInOrder
<1>12. First \in Listed
  BY <1>0, <1>1 DEF ListsOfActions
<1>13. Listed' = IF batch' = Kept THEN Listed ELSE Listed \ {First}
  <2>1. \A x \in Range(batch.kept) : x # First
    BY <1>1, <1>4
  <2>2. \A x \in Range(pending) : x # First
    <3>1. \A a \in Range(pending) : First < a
      BY <1>0, <1>1 DEF ListsOK, Below
    <3> QED
      BY <1>1, <3>1
  <2>3. First \notin Range(rest)
    BY <1>1
  <2>4. CASE batch' = Kept
    <3>1. Range(batch'.kept) = Range(batch.kept) \cup {First}
      BY <1>a, <1>b, <2>4
    <3> QED
      BY <1>0, <1>1, <1>2, <1>7, <2>4, <3>1 DEF ListsOfActions
  <2>5. CASE batch' # Kept
    <3>1. batch'.kept = batch.kept
      BY <1>2, <2>5
    <3> QED
      BY <1>0, <1>1, <1>2, <1>7, <2>1, <2>2, <2>3, <2>5, <3>1 DEF ListsOfActions
  <2> QED
    BY <2>4, <2>5
<1> QED
  BY <1>6, <1>8, <1>9, <1>10, <1>11, <1>12, <1>13

LEMMA KeepsKeeps ==
  ASSUME WorkerInv, Keeps
  PROVE  WorkerInv'
<1>0. OneShotsCalledOnce
  BY DEF WorkerInv
<1>1. /\ UNCHANGED <<kind, pending, delayed, passed, called, worker, stop, loop, mutex>>
      /\ worker = "batch" /\ batch.todo # <<>> /\ batch' = Kept /\ ~Immediate(First)
  BY DEF Keeps, asked, Due, Immediate
<1>2. InRound /\ ~InCall /\ ~InCall' /\ Actions' = Actions
  BY <1>1 DEF InRound, InCall, Actions
<1>3. Typed' /\ ListsOK' /\ CallOK' /\ OrderOK' /\ ImmediateInOrder' /\ Listed' = Listed
  BY <1>1, <1>2, FirstLeaves
<1>4. OneShotsCalledOnce'
  BY <1>0, <1>1, <1>2, <1>3 DEF OneShotsCalledOnce
<1> QED
  BY <1>3, <1>4 DEF WorkerInv

\* A callback is called: that of a one-shot for the first time, and an immediate one after
\* those of all the immediate actions that were asked for earlier.
LEMMA CallsKeeps ==
  ASSUME WorkerInv, Calls
  PROVE  WorkerInv'
<1>0. /\ Typed /\ ListsOK /\ CallOK /\ OrderOK /\ OneShotsCalledOnce /\ ImmediateInOrder
      /\ ListsOfActions
  BY Lists DEF WorkerInv
<1>1. /\ UNCHANGED <<kind, pending, delayed, passed, batch, stop, loop, mutex>>
      /\ worker = "batch" /\ worker' = "call" /\ batch.todo # <<>>
      /\ called' = IF kind[First] = "Loop" THEN called ELSE Append(called, First)
  BY DEF Calls, asked
<1>2. /\ InRound /\ ~InCall /\ InRound' /\ InCall' /\ Actions' = Actions /\ First' = First
      /\ loop # "closed" /\ \A a : Immediate(a)' = Immediate(a)
  BY <1>0, <1>1 DEF InRound, InCall, Actions, First, CallOK, Immediate
<1>3. /\ Range(batch.todo) = {First} \cup Range(Tail(batch.todo))
      /\ \A x \in Range(Tail(batch.todo)) : First < x
      /\ First \in Nat /\ First \in Actions /\ First \in Listed
  <2>1. batch.todo \in Seq(Nat) /\ Sorted(batch.todo)
    BY <1>0 DEF ListsOfActions, ListsOK
  <2>2. /\ Range(batch.todo) = {First} \cup Range(Tail(batch.todo))
        /\ \A x \in Range(Tail(batch.todo)) : First < x
        /\ First \in Nat
    BY <1>1, <2>1, SortedTail DEF First
  <2> QED
    BY <1>0, <1>2, <2>2 DEF ListsOfActions
<1>4. \A a \in Range(pending) : First < a
  BY <1>0, <1>3 DEF ListsOK, Below
<1>5. kind[First] # "Loop" => First \notin Range(called)
  BY <1>0, <1>2, <1>3 DEF OneShotsCalledOnce
<1>6. /\ called' \in Seq(Actions)
      /\ Range(called') = Range(called) \cup (IF kind[First] = "Loop" THEN {} ELSE {First})
      /\ IsInjective(called')
  <2>1. called \in Seq(Actions) /\ IsInjective(called)
    BY <1>0 DEF Typed, OneShotsCalledOnce
  <2>2. CASE kind[First] = "Loop"
    BY <1>1, <2>1, <2>2
  <2>3. CASE kind[First] # "Loop"
    <3>1. called' = Append(called, First) /\ First \notin Range(called)
      BY <1>1, <1>5, <2>3
    <3>2. Range(Append(called, First)) = Range(called) \cup {First}
      BY <1>3, <2>1, RangeOfAppend
    <3>3. IsInjective(Append(called, First))
      BY <1>3, <2>1, <3>1, AppendIsInjective
    <3>4. Append(called, First) \in Seq(Actions)
      BY <1>3, <2>1, AppendProperties
    <3> QED
      BY <2>3, <3>1, <3>2, <3>3, <3>4
  <2> QED
    BY <2>2, <2>3
<1>7. Typed'
  BY <1>0, <1>1, <1>2, <1>6 DEF Typed, WorkerStates
<1>8. ListsOfActions' /\ Listed' = Listed
  BY <1>0, <1>1, <1>2, <1>7, ListsNext DEF ListsOfActions
<1>9. ListsOK'
  BY <1>0, <1>1, <1>2 DEF ListsOK, Sorted, Below
<1>10. CallOK'
  BY <1>0, <1>1, <1>2, <1>6 DEF CallOK
<1>11. /\ \A i \in DOMAIN called' : kind[called'[i]] # "Loop"
       /\ ImmediateInOrder'
  <2>1. CASE kind[First] = "Loop"
    BY <1>0, <1>1, <2>1 DEF OrderOK, ImmediateInOrder
  <2>2. CASE kind[First] # "Loop"
    <3> DEFINE n == Len(called) + 1
    <3>1. /\ DOMAIN called = 1 .. Len(called) /\ Len(called) \in Nat
          /\ DOMAIN called' = 1 .. n
          /\ \A i \in DOMAIN called : called'[i] = called[i]
          /\ called'[n] = First
      <4>1. called \in Seq(Actions) /\ called' = Append(called, First)
        BY <1>0, <1>1, <2>2 DEF Typed
      <4>2. /\ Len(called') = n
            /\ \A i \in 1 .. Len(called) : called'[i] = called[i]
            /\ called'[n] = First
        BY <1>3, <4>1, AppendProperties
      <4> QED
        BY <1>6, <4>1, <4>2, LenProperties
    <3>2. \A i \in DOMAIN called' : i \in DOMAIN called \/ i = n
      BY <3>1
    <3>3. \A i \in DOMAIN called : called[i] \in Range(called)
      BY DEF Range
    <3>4. \A i \in DOMAIN called' : kind[called'[i]] # "Loop"
      BY <1>0, <2>2, <3>1, <3>2 DEF OrderOK
    <3>5. ASSUME NEW i \in DOMAIN called', NEW j \in DOMAIN called', i < j,
                 kind[called'[i]] = "Immediate", kind[called'[j]] = "Immediate"
          PROVE  called'[i] < called'[j]
      <4>1. i \in DOMAIN called
        BY <3>1, <3>5
      <4>2. CASE j \in DOMAIN called
        BY <1>0, <3>1, <3>5, <4>1, <4>2 DEF ImmediateInOrder
      <4>3. CASE j = n
        <5>1. Immediate(called[i]) /\ Immediate(First) /\ called[i] \in Range(called)
          BY <3>1, <3>3, <3>5, <4>1, <4>3 DEF Immediate
        <5>2. called[i] < First
          BY <1>0, <1>2, <1>3, <5>1 DEF OrderOK
        <5> QED
          BY <3>1, <4>1, <4>3, <5>2
      <4> QED
        BY <3>2, <4>2, <4>3
    <3> QED
      BY <1>1, <3>4, <3>5 DEF ImmediateInOrder
  <2> QED
    BY <2>1, <2>2
<1>12. OrderOK'
  <2>1. ASSUME NEW c \in Range(called'), NEW a \in Range(batch.todo) \cup Range(pending),
               Immediate(c), Immediate(a), a # First
        PROVE  c < a
    <3>1. CASE c \in Range(called)
      BY <1>0, <1>2, <2>1, <3>1 DEF OrderOK
    <3>2. CASE c = First
      BY <1>3, <1>4, <2>1, <3>2
    <3> QED
      BY <1>6, <2>1, <3>1, <3>2
  <2>2. \A c \in Range(called'), a \in Range(batch'.todo) \cup Range(pending') :
          Immediate(c)' /\ Immediate(a)' /\ ~(InCall' /\ a = First') => c < a
    BY <1>1, <1>2, <2>1
  <2> QED
    BY <1>0, <1>1, <1>2, <1>11, <2>2 DEF OrderOK
<1>13. OneShotsCalledOnce'
  BY <1>0, <1>1, <1>2, <1>3, <1>6, <1>8 DEF OneShotsCalledOnce
<1> QED
  BY <1>7, <1>9, <1>10, <1>11, <1>12, <1>13 DEF WorkerInv

\* A loop goes on; a one-shot, and a loop that fails, is gone.
LEMMA ReturnsKeeps ==
  ASSUME WorkerInv, Returns
  PROVE  WorkerInv'
<1>0. CallOK /\ OneShotsCalledOnce
  BY DEF WorkerInv
<1>1. /\ UNCHANGED <<kind, pending, delayed, called, stop, loop, mutex>>
      /\ InCall /\ worker' = "batch" /\ passed' \subseteq passed
      /\ \/ batch' = Kept /\ kind[First] = "Loop"
         \/ batch' = Erased
  BY DEF Returns, ReturnsTo, asked, InCall
<1>2. /\ InRound /\ ~InCall' /\ Actions' = Actions /\ batch.todo # <<>>
      /\ kind[First] = "Loop" => ~Immediate(First)
  BY <1>0, <1>1 DEF InRound, InCall, Actions, CallOK, Immediate
<1>3. /\ Typed' /\ ListsOK' /\ CallOK' /\ OrderOK' /\ ImmediateInOrder'
      /\ Listed' = IF batch' = Kept THEN Listed ELSE Listed \ {First}
      /\ First \in Listed
  BY <1>1, <1>2, FirstLeaves
<1>4. OneShotsCalledOnce'
  <2>1. IsInjective(called')
    BY <1>0, <1>1 DEF OneShotsCalledOnce
  <2>2. ASSUME loop # "closed", NEW a \in Actions, kind[a] # "Loop"
        PROVE  a \in Listed' <=> a \notin Range(called)
    <3>1. a \in Listed <=> a \notin Range(called) \/ a = First
      BY <1>0, <1>1, <2>2 DEF OneShotsCalledOnce
    <3>2. CASE a = First
      <4>1. batch' # Kept \/ batch' = Erased
        BY <1>1, <2>2, <3>2
      <4>2. a \in Range(called)
        BY <1>0, <1>1, <2>2, <3>2 DEF CallOK
      <4>3. Kept # Erased
        <5>1. batch \in [due : SUBSET Actions, todo : Seq(Actions), kept : Seq(Actions)]
          BY DEF WorkerInv, Typed
        <5>2. Kept.kept = Append(batch.kept, First) /\ Erased.kept = batch.kept
          BY <5>1 DEF Kept, Erased
        <5>3. First \in Actions
          BY <1>2, <5>1, HeadTailProperties DEF First
        <5>4. /\ Len(Append(batch.kept, First)) = Len(batch.kept) + 1
              /\ Len(batch.kept) \in Nat
          BY <5>1, <5>3, AppendProperties, LenProperties
        <5> QED
          BY <5>2, <5>4
      <4> QED
        BY <1>3, <3>2, <4>1, <4>2, <4>3
    <3>3. CASE a # First
      BY <1>3, <3>1, <3>3
    <3> QED
      BY <3>2, <3>3
  <2> QED
    BY <1>1, <1>2, <2>1, <2>2 DEF OneShotsCalledOnce
<1> QED
  BY <1>3, <1>4 DEF WorkerInv

LEMMA RoundEndsKeeps ==
  ASSUME WorkerInv, RoundEnds
  PROVE  WorkerInv'
<1>0. /\ Typed /\ ListsOK /\ CallOK /\ OrderOK /\ OneShotsCalledOnce /\ ImmediateInOrder
      /\ ListsOfActions
  BY Lists DEF WorkerInv
<1>1. /\ UNCHANGED <<kind, pending, passed, called, stop, loop, mutex>>
      /\ worker = "batch" /\ worker' = "idle" /\ batch.todo = <<>>
      /\ delayed' = batch.kept
      /\ batch'.todo = <<>> /\ batch'.kept = <<>> /\ batch'.due = {} /\ batch' = NoBatch
  BY DEF RoundEnds, asked, NoBatch
<1>2. InRound /\ ~InCall /\ ~InRound' /\ ~InCall' /\ Actions' = Actions
  BY <1>1 DEF InRound, InCall, Actions
<1>3. /\ batch.kept \in Seq(Actions) /\ <<>> \in Seq(Actions)
      /\ Range(batch.todo) = {} /\ Range(<<>>) = {}
  BY <1>0, <1>1, EmptySeq, RangeOfEmpty DEF Typed
<1>4. Typed'
  BY <1>0, <1>1, <1>2, <1>3 DEF Typed, WorkerStates, NoBatch
<1>5. ListsOfActions' /\ Listed' = Listed
  BY <1>0, <1>1, <1>2, <1>3, <1>4, ListsNext DEF ListsOfActions
<1>6. ListsOK'
  BY <1>0, <1>1, <1>2, <1>3, SortedEmpty DEF ListsOK, Below
<1>7. CallOK'
  BY <1>0, <1>1, <1>2 DEF CallOK
<1>8. OrderOK'
  BY <1>0, <1>1, <1>2, <1>3 DEF OrderOK, Immediate
<1>9. OneShotsCalledOnce'
  BY <1>0, <1>1, <1>2, <1>5 DEF OneShotsCalledOnce
<1>10. ImmediateInOrder'
  BY <1>0, <1>1 DEF ImmediateInOrder
<1> QED
  BY <1>4, <1>6, <1>7, <1>8, <1>9, <1>10 DEF WorkerInv

\* uninstall empties the lists when the thread has ended.
LEMMA UninstallClosesKeeps ==
  ASSUME WorkerInv, UninstallCloses
  PROVE  WorkerInv'
<1>0. /\ Typed /\ ListsOK /\ CallOK /\ OrderOK /\ OneShotsCalledOnce /\ ImmediateInOrder
      /\ ListsOfActions
  BY Lists DEF WorkerInv
<1>1. /\ UNCHANGED <<kind, passed, batch, called, worker, stop>>
      /\ loop = "close" /\ loop' = "closed" /\ mutex' = "free"
      /\ pending' = <<>> /\ delayed' = <<>>
  BY DEF UninstallCloses
<1>2. ~InRound /\ ~InRound' /\ ~InCall' /\ Actions' = Actions
  BY <1>0, <1>1 DEF CallOK, InRound, InCall, Actions
<1>3. batch.todo = <<>> /\ batch.kept = <<>> /\ <<>> \in Seq(Actions) /\ Range(<<>>) = {}
  BY <1>0, <1>2, EmptySeq, RangeOfEmpty DEF ListsOK
<1>4. Typed'
  BY <1>0, <1>1, <1>2, <1>3 DEF Typed
<1>5. ListsOK'
  BY <1>1, <1>2, <1>3, SortedEmpty DEF ListsOK, Below
<1>6. CallOK'
  BY <1>0, <1>1, <1>2 DEF CallOK
<1>7. OrderOK'
  BY <1>0, <1>1, <1>2, <1>3 DEF OrderOK, Immediate
<1>8. OneShotsCalledOnce' /\ ImmediateInOrder'
  BY <1>0, <1>1 DEF OneShotsCalledOnce, ImmediateInOrder
<1> QED
  BY <1>4, <1>5, <1>6, <1>7, <1>8 DEF WorkerInv

LEMMA NextKeeps == WorkerInv /\ [Next]_vars => WorkerInv'
<1> SUFFICES ASSUME WorkerInv, [Next]_vars
             PROVE  WorkerInv'
  OBVIOUS
<1> USE DEF asked, rounds, InRound, InCall
<1>0. Typed /\ CallOK
  BY DEF WorkerInv
<1>1. CASE \E k \in Kinds : Ask(k)
  BY <1>1, AskKeeps
<1>2. CASE \E a \in Actions : DelayPasses(a)
  BY <1>0, <1>2, QuietStep DEF DelayPasses, Typed, CallOK
<1>3. CASE Worker
  <2>1. CASE Wants \/ TakesMutex \/ Exits
    BY <1>0, <2>1, QuietStep DEF Wants, TakesMutex, Exits, Typed, CallOK, WorkerStates
  <2> QED
    BY <1>3, <2>1, RoundBeginsKeeps, KeepsKeeps, CallsKeeps, ReturnsKeeps, RoundEndsKeeps
       DEF Worker
<1>4. CASE GameTakesMutex \/ GameReleasesMutex
  BY <1>0, <1>4, QuietStep DEF GameTakesMutex, GameReleasesMutex, Typed, CallOK
<1>5. CASE Uninstall
  <2>1. CASE UninstallBegins \/ UninstallJoins
    BY <1>0, <2>1, QuietStep DEF UninstallBegins, UninstallJoins, Typed, CallOK
  <2> QED
    BY <1>5, <2>1, UninstallClosesKeeps DEF Uninstall
<1>6. CASE UNCHANGED vars
  BY <1>0, <1>6, QuietStep DEF vars, Typed, CallOK
<1> QED
  BY <1>1, <1>2, <1>3, <1>4, <1>5, <1>6 DEF Next

-----------------------------------------------------------------------------
(* What holds of the worker.                                               *)

\* The invariant of the worker: the order and the owners of its lists, and where the thread
\* and the uninstall are.
THEOREM WorkerInvariant == Spec => []WorkerInv
<1>1. Init => WorkerInv
  BY InvInitially
<1>2. WorkerInv /\ [Next]_vars => WorkerInv'
  BY NextKeeps
<1> QED
  BY <1>1, <1>2, PTL DEF Spec

\* Every variable of the worker keeps its type, and no action is in the lists twice.
THEOREM WorkerTypeCorrect == Spec => []TypeOK
<1>1. WorkerInv => TypeOK
  <2> SUFFICES ASSUME WorkerInv
               PROVE  TypeOK
    OBVIOUS
  <2>0. Typed /\ ListsOK /\ ListsOfActions
    BY Lists DEF WorkerInv
  <2>1. IsInjective(pending) /\ IsInjective(delayed)
    BY <2>0, SortedIsInjective DEF ListsOK, ListsOfActions
  <2>2. Range(pending) \cap Range(delayed) = {}
    <3>1. \A x \in Range(delayed), y \in Range(pending) : x < y /\ x \in Nat
      BY <2>0 DEF ListsOK, Below, ListsOfActions
    <3> QED
      BY <3>1
  <2>3. IsInjective(pending \o delayed)
    BY <2>0, <2>1, <2>2, ConcatIsInjective DEF ListsOfActions
  <2> QED
    BY <2>0, <2>3 DEF Typed, TypeOK
<1> QED
  BY <1>1, WorkerInvariant, PTL

\* Until the mod is uninstalled a one-shot action waits or has been called, and no one-shot is
\* called twice.
THEOREM OneShotsAreCalledOnce == Spec => []OneShotsCalledOnce
<1>1. WorkerInv => OneShotsCalledOnce
  BY DEF WorkerInv
<1> QED
  BY <1>1, WorkerInvariant, PTL

\* ExecuteAsync keeps the order of asking.
THEOREM AsyncKeepsOrder == Spec => []ImmediateInOrder
<1>1. WorkerInv => ImmediateInOrder
  BY DEF WorkerInv
<1> QED
  BY <1>1, WorkerInvariant, PTL

\* No callback of the worker runs once uninstall has begun to close the Lua state.
THEOREM CallbacksEndBeforeClose == Spec => []CallbackStateOpen
<1>1. WorkerInv => CallbackStateOpen
  BY DEF WorkerInv, Typed, CallOK, InCall, CallbackStateOpen
<1> QED
  BY <1>1, WorkerInvariant, PTL
=============================================================================
