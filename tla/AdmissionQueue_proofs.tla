----------------------- MODULE AdmissionQueue_proofs -----------------------
(***************************************************************************)
(* The waiting line of best_effort admission, for every set of requests    *)
(* and groups: it leaves no residue, warns once per request, and is the    *)
(* FIFO line of WaitingLine.  And what reject and serve promise instead,   *)
(* for every finite set of them.                                           *)
(***************************************************************************)
EXTENDS Admission, FiniteLemmas, SequenceTheorems, TLAPS

\* A request is in a queue at most once.
NoRepeat(q) == \A i, j \in 1..Len(q) : q[i] = q[j] => i = j

Sleeping == {w \in Waiters : place[w] = "waiting"}
Arrived  == {w \in Waiters : place[w] # "new"}

\* Requests that may have raised their signal: those that wait unsignalled have not.
Counted == {w \in Arrived : place[w] = "waiting" => w \in signalled}

\* NoResidue without its cardinality, which follows.
LineIsSleeping ==
  /\ Range(queue) = Sleeping
  /\ NoRepeat(queue)
  /\ waiting = Sleeping
  /\ signalled \subseteq Sleeping

SignalsCounted == IsFiniteSet(Arrived) /\ signals <= Cardinality(Counted)

IInv == TypeOK /\ LineIsSleeping /\ SignalsCounted

-----------------------------------------------------------------------------
\* Sequences.

LEMMA RemoveAtElements ==
  ASSUME NEW S, NEW q \in Seq(S), NEW k \in 1..Len(q)
  PROVE  /\ RemoveAt(q, k) \in Seq(S)
         /\ Len(RemoveAt(q, k)) = Len(q) - 1
         /\ \A i \in 1..(Len(q) - 1) :
              RemoveAt(q, k)[i] = IF i < k THEN q[i] ELSE q[i + 1]
<1> DEFINE a == SubSeq(q, 1, k - 1)
           b == SubSeq(q, k + 1, Len(q))
<1>1. a \in Seq(S) /\ Len(a) = k - 1 /\ \A i \in 1..(k - 1) : a[i] = q[i]
  BY SubSeqProperties
<1>2. b \in Seq(S) /\ Len(b) = Len(q) - k /\ \A i \in 1..(Len(q) - k) : b[i] = q[k + i]
  BY SubSeqProperties
<1>3. RemoveAt(q, k) = a \o b
  BY DEF RemoveAt
<1> HIDE DEF a, b
<1>4. /\ a \o b \in Seq(S)
      /\ Len(a \o b) = Len(a) + Len(b)
      /\ \A i \in 1..(Len(a) + Len(b)) :
           (a \o b)[i] = IF i <= Len(a) THEN a[i] ELSE b[i - Len(a)]
  BY <1>1, <1>2, ConcatProperties
<1>5. Len(q) \in Nat /\ Len(a) + Len(b) = Len(q) - 1
  BY <1>1, <1>2
<1>6. ASSUME NEW i \in 1..(Len(q) - 1)
      PROVE  (a \o b)[i] = IF i < k THEN q[i] ELSE q[i + 1]
  <2>1. CASE i < k
    BY <2>1, <1>1, <1>4, <1>5
  <2>2. CASE i >= k
    <3>1. (a \o b)[i] = b[i - Len(a)] /\ i - Len(a) = i + 1 - k
      BY <2>2, <1>1, <1>4, <1>5
    <3>2. i + 1 - k \in 1..(Len(q) - k) /\ k + (i + 1 - k) = i + 1
      BY <2>2, <1>5
    <3> QED
      BY <2>2, <3>1, <3>2, <1>2
  <2> QED
    BY <2>1, <2>2, <1>5
<1> QED
  BY <1>3, <1>4, <1>5, <1>6

LEMMA RemoveAtRange ==
  ASSUME NEW S, NEW q \in Seq(S), NEW k \in 1..Len(q), NoRepeat(q)
  PROVE  NoRepeat(RemoveAt(q, k)) /\ Range(RemoveAt(q, k)) = Range(q) \ {q[k]}
<1> DEFINE r == RemoveAt(q, k)
<1>1. /\ r \in Seq(S)
      /\ Len(r) = Len(q) - 1
      /\ \A i \in 1..(Len(q) - 1) : r[i] = IF i < k THEN q[i] ELSE q[i + 1]
  BY RemoveAtElements
<1> HIDE DEF r
<1>2. NoRepeat(r)
  BY <1>1 DEF NoRepeat
<1>3. Range(r) \subseteq Range(q) \ {q[k]}
  BY <1>1 DEF NoRepeat, Range
<1>4. ASSUME NEW i \in 1..Len(q), q[i] # q[k]
      PROVE  q[i] \in Range(r)
  <2>1. CASE i < k
    BY <2>1, <1>1 DEF Range
  <2>2. CASE i > k
    <3>1. i - 1 \in 1..Len(r) /\ r[i - 1] = q[i]
      BY <2>2, <1>1
    <3> QED
      BY <3>1, <1>1 DEF Range
  <2> QED
    BY <1>4, <2>1, <2>2
<1>5. Range(q) \ {q[k]} \subseteq Range(r)
  BY <1>4 DEF Range
<1> QED
  BY <1>2, <1>3, <1>5 DEF r

LEMMA RemoveFirstIsRemoveAt ==
  ASSUME NEW S, NEW q \in Seq(S), NEW k \in 1..Len(q), NoRepeat(q)
  PROVE  RemoveFirst(q, q[k]) = RemoveAt(q, k)
<1>1. {i \in 1..Len(q) : q[i] = q[k]} = {k}
  BY DEF NoRepeat
<1>2. Min({k}) = k
  BY DEF Min
<1> QED
  BY <1>1, <1>2 DEF RemoveFirst, SelectInSeq

\* _release of a request in the queue.
LEMMA RemoveFirstRange ==
  ASSUME NEW S, NEW q \in Seq(S), NEW e \in Range(q), NoRepeat(q)
  PROVE  /\ RemoveFirst(q, e) \in Seq(S)
         /\ NoRepeat(RemoveFirst(q, e))
         /\ Range(RemoveFirst(q, e)) = Range(q) \ {e}
<1>1. PICK k \in 1..Len(q) : q[k] = e
  BY DEF Range
<1> QED
  BY <1>1, RemoveFirstIsRemoveAt, RemoveAtElements, RemoveAtRange

LEMMA RemoveFirstOfHead ==
  ASSUME NEW S, NEW q \in Seq(S), q # <<>>, NoRepeat(q)
  PROVE  RemoveFirst(q, Head(q)) = Tail(q)
<1>1. 1 \in 1..Len(q) /\ Head(q) = q[1]
  BY EmptySeq
<1>2. RemoveFirst(q, Head(q)) = RemoveAt(q, 1)
  BY <1>1, RemoveFirstIsRemoveAt
<1>3. /\ RemoveAt(q, 1) \in Seq(S)
      /\ Len(RemoveAt(q, 1)) = Len(q) - 1
      /\ \A i \in 1..(Len(q) - 1) : RemoveAt(q, 1)[i] = q[i + 1]
  BY <1>1, RemoveAtElements
<1>4. /\ Tail(q) \in Seq(S)
      /\ Len(Tail(q)) = Len(q) - 1
      /\ \A i \in 1..(Len(q) - 1) : Tail(q)[i] = q[i + 1]
  BY HeadTailProperties
<1>5. RemoveAt(q, 1) = Tail(q)
  BY <1>1, <1>3, <1>4, SeqEqual
<1> QED
  BY <1>2, <1>5

LEMMA AppendRange ==
  ASSUME NEW S, NEW q \in Seq(S), NEW e \in S, NoRepeat(q), e \notin Range(q)
  PROVE  /\ Append(q, e) \in Seq(S)
         /\ NoRepeat(Append(q, e))
         /\ Range(Append(q, e)) = Range(q) \cup {e}
<1> DEFINE r == Append(q, e)
<1>1. /\ r \in Seq(S)
      /\ Len(r) = Len(q) + 1
      /\ \A i \in 1..Len(q) : r[i] = q[i]
      /\ r[Len(q) + 1] = e
  BY AppendProperties
<1> HIDE DEF r
<1>2. NoRepeat(r)
  BY <1>1 DEF NoRepeat, Range
<1>3. Range(r) = Range(q) \cup {e}
  BY <1>1 DEF Range
<1> QED
  BY <1>1, <1>2, <1>3 DEF r

LEMMA LengthIsCardinality ==
  ASSUME NEW S, NEW q \in Seq(S), NoRepeat(q)
  PROVE  Len(q) = Cardinality(Range(q))
<1>1. q \in Bijection(1..Len(q), Range(q))
  BY DEF NoRepeat, Range, Bijection, Injection, Surjection, IsInjective
<1>2. ExistsBijection(1..Len(q), Range(q))
  BY <1>1 DEF ExistsBijection
<1>3. IsFiniteSet(1..Len(q)) /\ Cardinality(1..Len(q)) = Len(q)
  <2>1. 1 \in Int /\ Len(q) \in Nat /\ Len(q) \in Int
    OBVIOUS
  <2>2. /\ IsFiniteSet(1..Len(q))
        /\ Cardinality(1..Len(q)) = IF 1 > Len(q) THEN 0 ELSE Len(q) - 1 + 1
    BY <2>1, FS_Interval, Zenon
  <2> QED
    BY <2>1, <2>2
<1> QED
  BY <1>2, <1>3, FS_Bijection

-----------------------------------------------------------------------------
\* The queue.

\* A request that polls: the queue it then stands in.
LEMMA EnqueuedRange ==
  ASSUME TypeOK, LineIsSleeping, NEW w \in Waiters
  PROVE  /\ Enqueued(w) \in Seq(Waiters)
         /\ NoRepeat(Enqueued(w))
         /\ Range(Enqueued(w)) = Sleeping \cup {w}
<1>1. CASE w \in Range(queue)
  BY <1>1 DEF Enqueued, TypeOK, LineIsSleeping
<1>2. CASE w \notin Range(queue)
  BY <1>2, AppendRange DEF Enqueued, TypeOK, LineIsSleeping
<1> QED
  BY <1>1, <1>2

\* One of the steps that move a request into or within the line, or out of it.
LEMMA LeavesLine ==
  ASSUME TypeOK, LineIsSleeping, NEW w \in Waiters, NEW q \in Seq(Waiters),
         NoRepeat(q), Range(q) = Sleeping \cup {w}, Released(w, q),
         NEW p \in Places \ {"waiting"}, place' = [place EXCEPT ![w] = p]
  PROVE  LineIsSleeping' /\ queue' \in Seq(Waiters)
<1>1. Sleeping' = Sleeping \ {w}
  BY DEF Sleeping, TypeOK
<1>2. /\ queue' \in Seq(Waiters)
      /\ NoRepeat(queue')
      /\ Range(queue') = (Sleeping \cup {w}) \ {w}
  BY RemoveFirstRange DEF Released
<1> QED
  BY <1>1, <1>2 DEF LineIsSleeping, Released

\* Steps that add nothing to the requests counted.
LEMMA CountedGrows ==
  ASSUME IsFiniteSet(Arrived'), SignalsCounted, Counted \subseteq Counted',
         signals \in Nat, signals' = signals
  PROVE  SignalsCounted'
<1>1. IsFiniteSet(Counted') /\ IsFiniteSet(Counted)
  BY FS_Subset DEF SignalsCounted, Counted
<1>2. Cardinality(Counted) <= Cardinality(Counted')
  BY <1>1, FS_Subset
<1>3. Cardinality(Counted) \in Nat /\ Cardinality(Counted') \in Nat
  BY <1>1, FS_CardinalityType
<1> QED
  BY <1>2, <1>3 DEF SignalsCounted

\* A warning counts one request that was not counted before.
LEMMA CountedWarns ==
  ASSUME IsFiniteSet(Arrived'), SignalsCounted, NEW w \in Counted', w \notin Counted,
         Counted \subseteq Counted', signals \in Nat, signals' = signals + 1
  PROVE  SignalsCounted'
<1>1. IsFiniteSet(Counted') /\ IsFiniteSet(Counted)
  BY FS_Subset DEF SignalsCounted, Counted
<1>2. /\ IsFiniteSet(Counted \cup {w})
      /\ Cardinality(Counted \cup {w}) = Cardinality(Counted) + 1
  BY <1>1, FS_AddElement
<1>3. Cardinality(Counted \cup {w}) <= Cardinality(Counted')
  <2>1. Counted \cup {w} \in SUBSET Counted'
    OBVIOUS
  <2> QED
    BY <1>1, <2>1, FS_Subset
<1>4. Cardinality(Counted) \in Nat /\ Cardinality(Counted') \in Nat
  BY <1>1, FS_CardinalityType
<1> QED
  BY <1>2, <1>3, <1>4 DEF SignalsCounted

LEMMA ArrivedFinite ==
  ASSUME SignalsCounted, TypeOK, NEW w \in Waiters, NEW p \in Places \ {"new"},
         place' = [place EXCEPT ![w] = p]
  PROVE  IsFiniteSet(Arrived') /\ Arrived' = Arrived \cup {w}
<1>1. Arrived' = Arrived \cup {w}
  BY DEF Arrived, TypeOK, Places
<1> QED
  BY <1>1, FS_AddElement DEF SignalsCounted

-----------------------------------------------------------------------------
\* The inductive invariant.

LEMMA InvInit == Init => IInv
<1> SUFFICES ASSUME Init PROVE IInv
  OBVIOUS
<1>1. TypeOK
  <2>1. queue \in Seq(Waiters)
    BY DEF Init
  <2> QED
    BY <2>1, QueueAssumption DEF Init, TypeOK, Places
<1>2. LineIsSleeping
  BY DEF Init, LineIsSleeping, Sleeping, NoRepeat, Range
<1>3. SignalsCounted
  <2>1. Arrived = {} /\ Counted = {}
    BY DEF Init, Arrived, Counted
  <2> QED
    BY <2>1, FS_EmptySet DEF Init, SignalsCounted
<1> QED
  BY <1>1, <1>2, <1>3 DEF IInv

LEMMA TakeGroupKeeps ==
  ASSUME IInv, NEW w \in Waiters, TakeGroup(w)
  PROVE  IInv'
<1> USE DEF IInv
<1>1. LineIsSleeping' /\ queue' \in Seq(Waiters)
  BY EnqueuedRange, LeavesLine DEF TakeGroup, Places
<1>2. TypeOK'
  BY <1>1 DEF TakeGroup, TypeOK, Places, Released, environment
<1>3. IsFiniteSet(Arrived') /\ Arrived' = Arrived \cup {w}
  BY ArrivedFinite DEF TakeGroup, Places
<1>4. w \in Counted' /\ Counted \subseteq Counted'
  BY <1>3 DEF TakeGroup, Counted, Arrived, Released, TypeOK
<1>5. CASE Warns(w) /\ signals' = signals + 1
  <2>1. w \notin Counted
    BY <1>5 DEF Warns, Counted, Arrived, TakeGroup
  <2> QED
    BY <1>1, <1>2, <1>3, <1>4, <1>5, <2>1, CountedWarns DEF TypeOK
<1>6. CASE signals' = signals
  BY <1>1, <1>2, <1>3, <1>4, <1>6, CountedGrows DEF TypeOK
<1> QED
  BY <1>5, <1>6 DEF TakeGroup

LEMMA KeepWaitingKeeps ==
  ASSUME IInv, NEW w \in Waiters, KeepWaiting(w)
  PROVE  IInv'
<1> USE DEF IInv
<1>1. Sleeping' = Sleeping \cup {w}
  BY DEF KeepWaiting, Sleeping, TypeOK
<1>2. LineIsSleeping' /\ queue' \in Seq(Waiters)
  BY <1>1, EnqueuedRange DEF KeepWaiting, LineIsSleeping
<1>3. TypeOK'
  BY <1>2 DEF KeepWaiting, TypeOK, Places, environment
<1>4. IsFiniteSet(Arrived') /\ Arrived' = Arrived \cup {w}
  BY ArrivedFinite DEF KeepWaiting, Places
<1>5. Counted \subseteq Counted'
  <2>1. signalled \subseteq signalled' /\ place' = [place EXCEPT ![w] = "waiting"]
    BY DEF KeepWaiting
  <2>2. ~(place[w] = "new" /\ w \in Counted) /\ place[w] \in {"new", "waiting"}
    BY DEF KeepWaiting, Counted, Arrived
  <2> QED
    BY <1>4, <2>1, <2>2 DEF Counted, TypeOK
<1>6. CASE Warns(w) /\ signals' = signals + 1 /\ signalled' = signalled \cup {w}
  <2>1. w \notin Counted
    BY <1>6 DEF Warns, Counted, Arrived, KeepWaiting
  <2>2. w \in Counted'
    BY <1>4, <1>6 DEF Counted
  <2> QED
    BY <1>2, <1>3, <1>4, <1>5, <1>6, <2>1, <2>2, CountedWarns DEF TypeOK
<1>7. CASE UNCHANGED <<signals, signalled>>
  BY <1>2, <1>3, <1>4, <1>5, <1>7, CountedGrows DEF TypeOK
<1> QED
  BY <1>6, <1>7 DEF KeepWaiting

\* TimeOut and Cancel.
LEMMA LeavingKeeps ==
  ASSUME IInv, NEW w \in Waiters, TimeOut(w) \/ Cancel(w)
  PROVE  IInv'
<1> USE DEF IInv
<1>1. Range(queue) = Sleeping \cup {w} /\ NoRepeat(queue) /\ queue \in Seq(Waiters)
  BY DEF LineIsSleeping, Sleeping, TimeOut, Cancel, TypeOK
<1>2. PICK p \in {"rejected", "gone"} : place' = [place EXCEPT ![w] = p]
  BY DEF TimeOut, Cancel
<1>3. Released(w, queue) /\ signals' = signals
  BY DEF TimeOut, Cancel, counts
<1>4. LineIsSleeping' /\ queue' \in Seq(Waiters)
  BY <1>1, <1>2, <1>3, LeavesLine DEF Places
<1>5. TypeOK'
  BY <1>2, <1>3, <1>4 DEF TimeOut, Cancel, TypeOK, Places, Released, environment, counts
<1>6. IsFiniteSet(Arrived') /\ Arrived' = Arrived \cup {w}
  BY <1>2, ArrivedFinite DEF Places
<1>7. Counted \subseteq Counted'
  BY <1>2, <1>3, <1>6 DEF Counted, Released, TypeOK
<1> QED
  BY <1>3, <1>4, <1>5, <1>6, <1>7, CountedGrows DEF TypeOK

\* Requests past admission leave the line alone.
LEMMA RequestKeeps ==
  ASSUME IInv, NEW w \in Waiters, RequestStep(w)
  PROVE  IInv'
<1> USE DEF IInv
<1>1. PICK p \in {"transfer", "done"} : place' = [place EXCEPT ![w] = p]
  BY DEF RequestStep, PrefillDone, PrefillFails, KvArrived
<1>2. UNCHANGED <<group, line, counts, environment>> /\ place[w] \in {"prefill", "transfer"}
  BY DEF RequestStep, PrefillDone, PrefillFails, KvArrived
<1>3. kv' \in [Groups -> Nat]
  <2>1. ASSUME NEW n \in Int
        PROVE  Max({0, n}) \in Nat
    <3>1. \E x \in {0, n} : \A y \in {0, n} : x >= y
      <4>1. CASE n >= 0
        BY <4>1
      <4>2. CASE ~(n >= 0)
        BY <4>2
      <4> QED
        BY <4>1, <4>2
    <3>2. Max({0, n}) \in {0, n} /\ Max({0, n}) >= 0
      BY <3>1 DEF Max
    <3> QED
      BY <3>2
  <2>2. CASE PrefillDone(w)
    <3>1. kv' = [kv EXCEPT ![group[w]] = kv[group[w]] + Size[w]]
      BY <2>2 DEF PrefillDone
    <3>2. \A g \in Groups : kv[g] + Size[w] \in Nat
      BY QueueAssumption DEF TypeOK
    <3> QED
      BY <3>1, <3>2 DEF TypeOK
  <2>3. CASE PrefillFails(w)
    BY <2>3 DEF PrefillFails, TypeOK
  <2>4. CASE KvArrived(w)
    <3>1. ASSUME NEW g \in Groups
          PROVE  kv[g] - Size[w] \in Int
      BY QueueAssumption DEF TypeOK
    <3>2. kv' = [kv EXCEPT ![group[w]] = Max({0, kv[group[w]] - Size[w]})]
      BY <2>4 DEF KvArrived
    <3>3. \A g \in Groups : Max({0, kv[g] - Size[w]}) \in Nat
      BY <2>1, <3>1
    <3> QED
      BY <3>2, <3>3 DEF TypeOK
  <2> QED
    BY <2>2, <2>3, <2>4 DEF RequestStep
<1>4. TypeOK'
  BY <1>1, <1>2, <1>3 DEF TypeOK, Places, line, counts, environment
<1>5. Sleeping' = Sleeping
  BY <1>1, <1>2 DEF Sleeping, TypeOK
<1>6. LineIsSleeping'
  BY <1>2, <1>5 DEF LineIsSleeping, line
<1>7. IsFiniteSet(Arrived') /\ Arrived' = Arrived \cup {w}
  BY <1>1, ArrivedFinite DEF Places
<1>8. Counted \subseteq Counted'
  BY <1>1, <1>2, <1>7 DEF Counted, TypeOK, line
<1> QED
  BY <1>2, <1>4, <1>6, <1>7, <1>8, CountedGrows DEF TypeOK, counts

\* The groups, the mode and the table change around the queue.
LEMMA EnvironmentKeeps ==
  ASSUME IInv, (\E g \in Groups : GroupChanges(g)) \/ ModeChanges \/ Publish
  PROVE  IInv'
<1> USE DEF IInv
<1>1. UNCHANGED <<tasks, line, counts>>
  BY DEF GroupChanges, ModeChanges, Publish
<1>2. TypeOK'
  BY <1>1, QueueAssumption DEF GroupChanges, ModeChanges, Publish, TypeOK, tasks, line, counts
<1>3. LineIsSleeping' /\ SignalsCounted'
  BY <1>1 DEF LineIsSleeping, SignalsCounted, Sleeping, Arrived, Counted, tasks, line, counts
<1> QED
  BY <1>2, <1>3

LEMMA InvNext == IInv /\ [Next]_vars => IInv'
<1> SUFFICES ASSUME IInv, [Next]_vars PROVE IInv'
  OBVIOUS
<1>1. CASE UNCHANGED vars
  BY <1>1 DEF vars, tasks, line, counts, environment, IInv, TypeOK, LineIsSleeping,
              SignalsCounted, Sleeping, Arrived, Counted
<1>2. CASE Next
  BY <1>2, TakeGroupKeeps, KeepWaitingKeeps, LeavingKeeps, RequestKeeps, EnvironmentKeeps
     DEF Next, WaiterStep
<1> QED
  BY <1>1, <1>2

\* The inductive invariant holds in every reachable state.
THEOREM Invariance == Spec => []IInv
  BY InvInit, InvNext, PTL DEF Spec

\* Every structure of the line holds exactly the requests whose task waits: nothing
\* a served, timed-out or cancelled request leaves can block the front (_release).
THEOREM LeavesNoResidue == Spec => []NoResidue
<1>1. ASSUME IInv PROVE NoResidue
  <2>1. Len(queue) = Cardinality(Range(queue))
    BY <1>1, LengthIsCardinality DEF IInv, TypeOK, LineIsSleeping
  <2> QED
    BY <1>1, <2>1 DEF IInv, LineIsSleeping, NoResidue, Sleeping
<1> QED
  BY <1>1, Invariance, PTL

\* However often it polls, a request raises at most one risk signal (step).
THEOREM WarnsOnce == Spec => []OneSignalPerRequest
<1>1. ASSUME IInv PROVE OneSignalPerRequest
  <2>1. IsFiniteSet(Counted) /\ IsFiniteSet(Arrived) /\ Cardinality(Counted) <= Cardinality(Arrived)
    BY <1>1, FS_Subset DEF IInv, SignalsCounted, Counted
  <2>2. Cardinality(Counted) \in Nat /\ Cardinality(Arrived) \in Nat
    BY <2>1, FS_CardinalityType
  <2> QED
    BY <1>1, <2>1, <2>2 DEF IInv, TypeOK, SignalsCounted, OneSignalPerRequest, Arrived
<1> QED
  BY <1>1, Invariance, PTL

-----------------------------------------------------------------------------
\* Refinement: what became of each request, as the line sees it.

Outcome == [w \in Waiters |->
              CASE place[w] = "new" -> "outside"
                [] place[w] = "waiting" -> "in_line"
                [] place[w] \in {"rejected", "gone"} -> "left"
                [] OTHER -> "served"]

OutcomeOf(p) ==
  CASE p = "new" -> "outside"
    [] p = "waiting" -> "in_line"
    [] p \in {"rejected", "gone"} -> "left"
    [] OTHER -> "served"

LEMMA OutcomeMoves ==
  ASSUME TypeOK, NEW w \in Waiters, NEW p \in Places, place' = [place EXCEPT ![w] = p]
  PROVE  Outcome' = [Outcome EXCEPT ![w] = OutcomeOf(p)]
  BY DEF Outcome, OutcomeOf, TypeOK

\* Whoever finds itself at the front is alone or heads the queue.
LEMMA FrontOfQueue ==
  ASSUME TypeOK, LineIsSleeping, NEW w \in Waiters, IsFront(w),
         place[w] \in {"new", "waiting"}
  PROVE  /\ place[w] = "new" => queue = <<>> /\ Enqueued(w) = Append(<<>>, w)
         /\ place[w] = "waiting" => queue # <<>> /\ Enqueued(w) = queue /\ Head(queue) = w
<1>1. w \in Range(queue) <=> place[w] = "waiting"
  BY DEF LineIsSleeping, Sleeping
<1>2. ASSUME place[w] = "new", queue # <<>>
      PROVE  FALSE
  <2>1. Head(Append(queue, w)) = w
    BY <1>1, <1>2 DEF IsFront, Enqueued
  <2>2. Head(Append(queue, w)) = Head(queue) /\ Head(queue) \in Range(queue)
    BY <1>2 DEF TypeOK, Range
  <2> QED
    BY <1>1, <1>2, <2>1, <2>2
<1>3. ASSUME place[w] = "waiting"
      PROVE  queue # <<>> /\ Enqueued(w) = queue /\ Head(queue) = w
  BY <1>1, <1>3 DEF IsFront, Enqueued, Range
<1> QED
  BY <1>1, <1>2, <1>3 DEF Enqueued

LEMMA TakeGroupServes ==
  ASSUME IInv, NEW w \in Waiters, TakeGroup(w)
  PROVE  Line!ServeFront \/ Line!ServedAtOnce(w)
<1> USE DEF IInv
<1>1. Outcome' = [Outcome EXCEPT ![w] = "served"]
  BY OutcomeMoves DEF TakeGroup, OutcomeOf, Places
<1>2. queue' = RemoveFirst(Enqueued(w), w)
  BY DEF TakeGroup, Released
<1>3. CASE place[w] = "new"
  <2>1. queue = <<>> /\ Enqueued(w) = Append(<<>>, w)
    BY <1>3, FrontOfQueue DEF TakeGroup
  <2>2. Append(<<>>, w) \in Seq(Waiters) /\ Append(<<>>, w) # <<>> /\ Head(Append(<<>>, w)) = w
        /\ Tail(Append(<<>>, w)) = <<>> /\ NoRepeat(Append(<<>>, w))
    BY DEF NoRepeat
  <2>3. queue' = <<>>
    BY <1>2, <2>1, <2>2, RemoveFirstOfHead
  <2>4. Outcome[w] = "outside"
    BY <1>3 DEF Outcome
  <2> QED
    BY <1>1, <2>1, <2>3, <2>4 DEF Line!ServedAtOnce, Outcome
<1>4. CASE place[w] = "waiting"
  <2>1. queue # <<>> /\ Enqueued(w) = queue /\ Head(queue) = w
    BY <1>4, FrontOfQueue DEF TakeGroup
  <2>2. queue' = Tail(queue)
    BY <1>2, <2>1, RemoveFirstOfHead DEF TypeOK, LineIsSleeping
  <2> QED
    BY <1>1, <2>1, <2>2 DEF Line!ServeFront, Outcome
<1> QED
  BY <1>3, <1>4 DEF TakeGroup

LEMMA KeepWaitingJoins ==
  ASSUME IInv, NEW w \in Waiters, KeepWaiting(w)
  PROVE  Line!Join(w) \/ UNCHANGED Line!lvars
<1> USE DEF IInv
<1>1. Outcome' = [Outcome EXCEPT ![w] = "in_line"]
  BY OutcomeMoves DEF KeepWaiting, OutcomeOf, Places
<1>2. w \in Range(queue) <=> place[w] = "waiting"
  BY DEF LineIsSleeping, Sleeping
<1>3. CASE place[w] = "new"
  <2>1. queue' = Append(queue, w) /\ Outcome[w] = "outside"
    BY <1>2, <1>3 DEF KeepWaiting, Enqueued, Outcome
  <2> QED
    BY <1>1, <2>1 DEF Line!Join, Outcome
<1>4. CASE place[w] = "waiting"
  <2>1. queue' = queue
    BY <1>2, <1>4 DEF KeepWaiting, Enqueued
  <2>2. Outcome' = Outcome
    BY <1>4 DEF KeepWaiting, Outcome, TypeOK
  <2> QED
    BY <2>1, <2>2 DEF Line!lvars, Outcome
<1> QED
  BY <1>3, <1>4 DEF KeepWaiting

LEMMA LeavingLeaves ==
  ASSUME IInv, NEW w \in Waiters, TimeOut(w) \/ Cancel(w)
  PROVE  Line!Leave(w)
<1> USE DEF IInv
<1>1. PICK p \in {"rejected", "gone"} : place' = [place EXCEPT ![w] = p]
  BY DEF TimeOut, Cancel
<1>2. Outcome' = [Outcome EXCEPT ![w] = "left"]
  BY <1>1, OutcomeMoves DEF OutcomeOf, Places
<1>3. Outcome[w] = "in_line"
  BY DEF TimeOut, Cancel, Outcome
<1>4. w \in Range(queue)
  BY DEF TimeOut, Cancel, LineIsSleeping, Sleeping
<1>5. PICK k \in 1..Len(queue) : queue[k] = w
  BY <1>4 DEF Range, TypeOK
<1>6. queue' = RemoveAt(queue, k)
  BY <1>5, RemoveFirstIsRemoveAt DEF TimeOut, Cancel, Released, TypeOK, LineIsSleeping
<1>7. k \in DOMAIN queue /\ queue' = Line!RemoveAt(queue, k)
  BY <1>5, <1>6 DEF RemoveAt, Line!RemoveAt, TypeOK
<1> QED
  BY <1>2, <1>3, <1>5, <1>7 DEF Line!Leave, Outcome

\* Everything else does not concern the line.
LEMMA OthersStutter ==
  ASSUME IInv,
         \/ \E w \in Waiters : RequestStep(w)
         \/ (\E g \in Groups : GroupChanges(g)) \/ ModeChanges \/ Publish
         \/ UNCHANGED vars
  PROVE  UNCHANGED Line!lvars
<1> USE DEF IInv
<1>1. UNCHANGED queue
  BY DEF RequestStep, PrefillDone, PrefillFails, KvArrived, GroupChanges, ModeChanges, Publish,
         vars, line
<1>2. CASE \E w \in Waiters : RequestStep(w)
  <2>1. PICK w \in Waiters : RequestStep(w)
    BY <1>2
  <2>2. PICK p \in {"transfer", "done"} : place' = [place EXCEPT ![w] = p]
    BY <2>1 DEF RequestStep, PrefillDone, PrefillFails, KvArrived
  <2>3. Outcome' = [Outcome EXCEPT ![w] = "served"]
    BY <2>2, OutcomeMoves DEF OutcomeOf, Places
  <2>4. Outcome[w] = "served"
    BY <2>1 DEF RequestStep, PrefillDone, PrefillFails, KvArrived, Outcome
  <2> QED
    BY <1>1, <2>3, <2>4 DEF Line!lvars, Outcome
<1>3. CASE UNCHANGED place
  BY <1>1, <1>3 DEF Line!lvars
<1> QED
  BY <1>2, <1>3 DEF GroupChanges, ModeChanges, Publish, vars, tasks

\* best_effort admission is one FIFO line that anybody may leave: served from the
\* front only, in every mode and across its changes (admit, step, _release).
THEOREM ImplementsLine == Spec => ServesLine
<1>1. Init => Line!LineInit
  BY DEF Init, Line!LineInit
<1>2. IInv /\ [Next]_vars => [Line!LineNext]_(Line!lvars)
  BY TakeGroupServes, KeepWaitingJoins, LeavingLeaves, OthersStutter
     DEF Next, WaiterStep, Line!LineNext
<1> QED
  BY <1>1, <1>2, Invariance, PTL DEF Spec, ServesLine, Line!LineSpec

-----------------------------------------------------------------------------
(* The waiting requests of reject and serve (ServeQueue), for every finite  *)
(* set of requests and groups and any lengths, slacks and limits.           *)

Sleepers == {w \in Callers : at[w] = "waiting"}

\* NoResidue of ServeQueue.
SetsPartWaiters ==
  /\ fresh \cap Range(holding) = {}
  /\ fresh \cup Range(holding) = Sleepers
  /\ NoRepeat(holding)

\* A request is fresh through the short budget; one that has not polled yet has no age.
FreshIsYoung ==
  /\ \A w \in Callers : at[w] = "new" => age[w] = 0
  /\ \A w \in fresh : age[w] <= MaxWait /\ (w \in polled => age[w] + 1 <= MaxWait)

\* A holder waited for the short budget, and is turned away at the limit.
HolderIsOld ==
  /\ holding # <<>> => policy.overload = "serve" /\ ~cold
  /\ \A w \in Range(holding) :
       /\ MaxWait <= age[w] /\ age[w] <= HoldMax
       /\ w \in polled => age[w] + 1 <= HoldMax

\* What is left of a holder's time is what it has not waited of its deadline.
ExpiryAgrees == \A w \in Range(holding) : expires[w] = Max({0, SQ!Deadline(w) - age[w]})

Elders(q) == \A i, j \in 1..Len(q) : i <= j => age[q[j]] <= age[q[i]]

ServeInv ==
  /\ SQ!TypeOK
  /\ SetsPartWaiters
  /\ FreshIsYoung
  /\ HolderIsOld
  /\ ExpiryAgrees
  /\ Elders(holding)

-----------------------------------------------------------------------------
\* The operators.

LEMMA ServeOperators ==
  /\ \A q : SQ!Range(q) = Range(q)
  /\ \A q, e : SQ!RemoveFirst(q, e) = RemoveFirst(q, e)
  /\ \A T : SQ!Max(T) = Max(T)
  /\ \A T : SQ!Cardinality(T) = Cardinality(T)
<1>1. \A q : SQ!Range(q) = Range(q)
  BY DEF SQ!Range, Range
<1>2. \A q, e : SQ!RemoveFirst(q, e) = RemoveFirst(q, e)
  BY DEF SQ!RemoveFirst, RemoveFirst, SQ!RemoveAt, RemoveAt, SQ!SelectInSeq, SelectInSeq,
         SQ!Min, Min
<1>3. \A T : SQ!Max(T) = Max(T)
  BY DEF SQ!Max, Max
<1>4. \A T : SQ!Cardinality(T) = Cardinality(T)
  BY DEF SQ!Cardinality, Cardinality
<1> QED BY <1>1, <1>2, <1>3, <1>4

LEMMA AtLeastZero ==
  ASSUME NEW n \in Int
  PROVE  Max({0, n}) = IF n < 0 THEN 0 ELSE n
<1>1. \E x \in {0, n} : \A y \in {0, n} : x >= y
  <2>1. CASE n >= 0
    BY <2>1
  <2>2. CASE ~(n >= 0)
    BY <2>2
  <2> QED BY <2>1, <2>2
<1>2. Max({0, n}) \in {0, n} /\ \A y \in {0, n} : Max({0, n}) >= y
  BY <1>1 DEF Max
<1> QED BY <1>2

LEMMA DeadlineWithinSlo ==
  ASSUME NEW w \in Callers
  PROVE  SQ!Deadline(w) \in Nat /\ SQ!Deadline(w) <= Slo
<1>1. Slo \in Nat /\ Idle[w] \in Nat
  BY ServeAssumption
<1>2. SQ!Deadline(w) = Max({0, Slo - Idle[w]})
  BY ServeOperators DEF SQ!Deadline
<1> QED BY <1>1, <1>2, AtLeastZero

\* The queue of holders once one of them has gone.
LEMMA WithoutOne ==
  ASSUME NEW T, NEW q \in Seq(T), NoRepeat(q), NEW e, Elders(q)
  PROVE  /\ RemoveFirst(q, e) \in Seq(T)
         /\ NoRepeat(RemoveFirst(q, e))
         /\ Range(RemoveFirst(q, e)) = Range(q) \ {e}
         /\ Elders(RemoveFirst(q, e))
<1>1. CASE e \in Range(q)
  <2>1. PICK k \in 1..Len(q) : q[k] = e
    BY <1>1 DEF Range
  <2>2. RemoveFirst(q, e) = RemoveAt(q, k)
    BY <2>1, RemoveFirstIsRemoveAt
  <2> DEFINE r == RemoveAt(q, k)
  <2>3. /\ r \in Seq(T)
        /\ Len(r) = Len(q) - 1
        /\ \A i \in 1..(Len(q) - 1) : r[i] = IF i < k THEN q[i] ELSE q[i + 1]
    BY RemoveAtElements
  <2> HIDE DEF r
  <2>4. Elders(r)
    BY <2>3 DEF Elders
  <2> QED BY <1>1, <2>2, <2>4, RemoveFirstRange DEF r
<1>2. CASE e \notin Range(q)
  <2>1. ~\E i \in 1..Len(q) : q[i] = e
    BY <1>2 DEF Range
  <2>2. RemoveFirst(q, e) = q
    BY <2>1 DEF RemoveFirst
  <2> QED BY <1>2, <2>2
<1> QED BY <1>1, <1>2

\* The queue of holders with a new one, no older than the others.
LEMMA WithOneMore ==
  ASSUME NEW T, NEW q \in Seq(T), NEW e \in T, Elders(q), age[e] \in Nat,
         \A i \in 1..Len(q) : age[e] <= age[q[i]]
  PROVE  Elders(Append(q, e))
<1> DEFINE r == Append(q, e)
<1>1. /\ r \in Seq(T)
      /\ Len(r) = Len(q) + 1
      /\ \A i \in 1..Len(q) : r[i] = q[i]
      /\ r[Len(q) + 1] = e
  BY AppendProperties
<1> HIDE DEF r
<1>2. ASSUME NEW i \in 1..Len(r), NEW j \in 1..Len(r), i <= j
      PROVE  age[r[j]] <= age[r[i]]
  <2>1. CASE j \in 1..Len(q)
    <3>1. i \in 1..Len(q)
      BY <1>2, <2>1
    <3> QED BY <1>1, <1>2, <2>1, <3>1 DEF Elders
  <2>2. CASE j = Len(q) + 1 /\ i \in 1..Len(q)
    BY <1>1, <2>2
  <2>3. CASE j = Len(q) + 1 /\ i = Len(q) + 1
    BY <1>1, <2>3
  <2> QED BY <1>1, <1>2, <2>1, <2>2, <2>3
<1> QED BY <1>2 DEF Elders, r

\* The age of whoever begins to hold is the short budget.
LEMMA BeginsAtBudget ==
  ASSUME ServeInv, NEW w \in Callers, SQ!MayPoll(w), SQ!BeginsToHold(w)
  PROVE  age[w] = MaxWait
<1>1. age[w] + 1 > MaxWait /\ w \notin Range(holding)
  BY ServeOperators DEF SQ!BeginsToHold, SQ!IsHolder, SQ!PastWait
<1>2. age[w] <= MaxWait
  <2>1. CASE at[w] = "new"
    BY <2>1, ServeAssumption DEF ServeInv, FreshIsYoung
  <2>2. CASE at[w] = "waiting"
    BY <1>1, <2>2 DEF ServeInv, FreshIsYoung, SetsPartWaiters, Sleepers
  <2> QED BY <2>1, <2>2 DEF SQ!MayPoll, SQ!Waits
<1> QED BY <1>1, <1>2, ServeAssumption DEF ServeInv, SQ!TypeOK

\* What step knows once a poll of w is noted, before anything is admitted: the holders
\* h, what is left of their times x, and the fresh ones y.
PollNoted(w, h, x, y) ==
  /\ h \in Seq(Callers) /\ NoRepeat(h) /\ Elders(h)
  /\ Range(h) \ {w} = Range(holding) \ {w}
  /\ y \ {w} = fresh \ {w} /\ y \cap Range(h) = {} /\ y \subseteq Callers
  /\ SQ!IsHolder(w) => w \in Range(h) /\ w \notin y
  /\ w \in Range(h) => SQ!Serving /\ MaxWait <= age[w]
  /\ ~SQ!PastWait(w) => w \in y
  /\ x \in [Callers -> Nat]
  /\ \A v \in Range(h) : x[v] = Max({0, SQ!Deadline(v) - age[v]})

LEMMA PollNotes ==
  ASSUME ServeInv, NEW w \in Callers, SQ!MayPoll(w)
  PROVE  PollNoted(w, SQ!HoldingNow(w), SQ!ExpiresNow(w), SQ!FreshNow(w))
<1> DEFINE h == SQ!HoldingNow(w)
           x == SQ!ExpiresNow(w)
           y == SQ!FreshNow(w)
<1>0. h = SQ!HoldingNow(w) /\ x = SQ!ExpiresNow(w) /\ y = SQ!FreshNow(w)
  OBVIOUS
<1> HIDE DEF h, x, y
<1> SUFFICES PollNoted(w, h, x, y)
  BY <1>0
<1> USE DEF PollNoted
<1>1. holding \in Seq(Callers) /\ fresh \subseteq Callers /\ age \in [Callers -> Nat]
      /\ expires \in [Callers -> Nat]
  BY DEF ServeInv, SQ!TypeOK
<1>2. NoRepeat(holding) /\ Elders(holding) /\ fresh \cap Range(holding) = {}
  BY DEF ServeInv, SetsPartWaiters
<1>3. CASE SQ!BeginsToHold(w)
  <2>1. h = Append(holding, w) /\ y = fresh \ {w}
        /\ x = [expires EXCEPT ![w] = SQ!Max({0, SQ!Deadline(w) - age[w]})]
    BY <1>0, <1>3 DEF SQ!HoldingNow, SQ!FreshNow, SQ!ExpiresNow
  <2>2. age[w] = MaxWait /\ SQ!IsHolder(w) /\ SQ!Serving /\ w \notin Range(holding)
    BY <1>3, BeginsAtBudget, ServeOperators DEF SQ!BeginsToHold, SQ!IsHolder
  <2>3. h \in Seq(Callers) /\ NoRepeat(h) /\ Range(h) = Range(holding) \cup {w}
    BY <1>1, <1>2, <2>1, <2>2, AppendRange
  <2>4. Elders(h)
    <3>1. \A i \in 1..Len(holding) : age[w] <= age[holding[i]]
      BY <1>1, <2>2 DEF ServeInv, HolderIsOld, Range
    <3> QED BY <1>1, <1>2, <2>1, <3>1, WithOneMore
  <2>5. SQ!Max({0, SQ!Deadline(w) - age[w]}) \in Nat
    <3>1. SQ!Deadline(w) - age[w] \in Int
      BY <1>1, DeadlineWithinSlo
    <3>2. Max({0, SQ!Deadline(w) - age[w]}) \in Nat
      BY <3>1, AtLeastZero
    <3> QED BY <3>2, ServeOperators
  <2>6. SQ!PastWait(w)
    BY <2>2 DEF SQ!IsHolder
  <2>7. x \in [Callers -> Nat] /\ x[w] = Max({0, SQ!Deadline(w) - age[w]})
        /\ \A v \in Callers \ {w} : x[v] = expires[v]
    BY <1>1, <2>1, <2>5, ServeOperators
  <2>8. \A v \in Range(h) : x[v] = Max({0, SQ!Deadline(v) - age[v]})
    <3>1. \A v \in Range(holding) : v \in Callers
      BY <1>1 DEF Range
    <3> QED BY <2>2, <2>3, <2>7, <3>1 DEF ServeInv, ExpiryAgrees
  <2>9. Range(h) \ {w} = Range(holding) \ {w} /\ y \ {w} = fresh \ {w}
        /\ y \cap Range(h) = {} /\ y \subseteq Callers /\ w \in Range(h) /\ w \notin y
    BY <1>1, <1>2, <2>1, <2>3
  <2>10. MaxWait <= age[w]
    BY <2>2, ServeAssumption
  <2> QED BY <2>2, <2>3, <2>4, <2>6, <2>7, <2>8, <2>9, <2>10
<1>4. CASE ~SQ!BeginsToHold(w)
  <2>1. h = holding /\ x = expires
        /\ y = IF ~SQ!PastWait(w) THEN fresh \cup {w} ELSE fresh
    BY <1>0, <1>4 DEF SQ!HoldingNow, SQ!FreshNow, SQ!ExpiresNow
  <2>2. SQ!IsHolder(w) => w \in Range(holding)
    BY <1>4, ServeOperators DEF SQ!BeginsToHold
  <2>3. w \in Range(holding) => SQ!Serving /\ MaxWait <= age[w]
    <3>1. w \in Range(holding) => holding # <<>>
      BY <1>1 DEF Range
    <3> QED BY <3>1 DEF ServeInv, HolderIsOld, SQ!Serving
  <2>4. ~SQ!PastWait(w) => w \notin Range(holding)
    BY <1>1, <2>3, ServeAssumption DEF SQ!PastWait
  <2> QED BY <1>1, <1>2, <2>1, <2>2, <2>3, <2>4 DEF ServeInv, ExpiryAgrees
<1> QED BY <1>3, <1>4

-----------------------------------------------------------------------------
\* The steps.

LEMMA ServeStarts == AdmissionInit => ServeInv
<1> SUFFICES ASSUME AdmissionInit PROVE ServeInv
  OBVIOUS
<1>1. SQ!Init
  BY DEF AdmissionInit
<1>2. SQ!TypeOK
  <2>1. holding \in Seq(Callers)
    BY <1>1 DEF SQ!Init
  <2> QED BY <1>1, <2>1 DEF SQ!Init, SQ!TypeOK, SQ!Places
<1>3. Range(holding) = {} /\ NoRepeat(holding) /\ Elders(holding)
  BY <1>1 DEF SQ!Init, Range, NoRepeat, Elders
<1> QED
  BY <1>1, <1>2, <1>3 DEF ServeInv, SQ!Init, SetsPartWaiters, Sleepers, FreshIsYoung,
     HolderIsOld, ExpiryAgrees

\* A request that is served, turned away or cancelled leaves the sets and the rest of
\* them as they were (_release).
LEMMA LeavesSets ==
  ASSUME ServeInv, NEW w \in Callers, NEW h \in Seq(Callers), NoRepeat(h), Elders(h),
         Range(h) \ {w} = Range(holding) \ {w}, SQ!Released(w, h),
         NEW p \in SQ!Places \ {"new", "waiting"}, at' = [at EXCEPT ![w] = p],
         UNCHANGED <<age, polled, policy, serving, cold>>,
         on' \in [Callers -> Pairs \cup {NoGroup}], pressure' \in Nat
  PROVE  ServeInv'
<1>1. /\ holding \in Seq(Callers) /\ fresh \subseteq Callers /\ age \in [Callers -> Nat]
      /\ expires \in [Callers -> Nat] /\ at \in [Callers -> SQ!Places]
  BY DEF ServeInv, SQ!TypeOK
<1>2. /\ holding' = RemoveFirst(h, w)
      /\ expires' = [expires EXCEPT ![w] = 0]
      /\ fresh' = fresh \ {w}
  BY ServeOperators DEF SQ!Released
<1>3. /\ holding' \in Seq(Callers) /\ NoRepeat(holding')
      /\ Range(holding') = Range(holding) \ {w}
      /\ Elders(RemoveFirst(h, w))
  BY <1>2, WithoutOne
<1>4. Elders(holding)'
  BY <1>2, <1>3 DEF Elders
<1>5. Sleepers' = Sleepers \ {w}
  BY <1>1 DEF Sleepers
<1>6. SetsPartWaiters'
  BY <1>2, <1>3, <1>5 DEF ServeInv, SetsPartWaiters
<1>7. FreshIsYoung'
  BY <1>1, <1>2 DEF ServeInv, FreshIsYoung
<1>8. HolderIsOld'
  <2>1. holding' # <<>> => holding # <<>>
    <3>1. ASSUME holding' # <<>> PROVE holding # <<>>
      <4>1. 1 \in 1..Len(holding')
        BY <1>3, <3>1, EmptySeq
      <4>2. holding'[1] \in Range(holding')
        BY <4>1, <1>3 DEF Range
      <4>3. holding'[1] \in Range(holding)
        BY <1>3, <4>2
      <4> QED BY <4>3 DEF Range
    <3> QED BY <3>1
  <2> QED BY <1>3, <2>1 DEF ServeInv, HolderIsOld
<1>9. ExpiryAgrees'
  <2>1. \A v \in Range(holding) : v \in Callers
    BY <1>1 DEF Range
  <2> QED BY <1>1, <1>2, <1>3, <2>1 DEF ServeInv, ExpiryAgrees, SQ!Deadline
<1>10. SQ!TypeOK'
  <2>1. expires' \in [Callers -> Nat] /\ at' \in [Callers -> SQ!Places]
    BY <1>1, <1>2
  <2> QED BY <1>1, <1>2, <1>3, <2>1 DEF ServeInv, SQ!TypeOK
<1> QED BY <1>4, <1>6, <1>7, <1>8, <1>9, <1>10 DEF ServeInv

LEMMA OffersKind ==
  ASSUME NEW w \in Callers, NEW offer \in SQ!Offers(w), ServeInv
  PROVE  offer[2] \in Pairs
<1>1. serving \subseteq Pairs
  BY DEF ServeInv, SQ!TypeOK
<1>2. SQ!WithinLimits \subseteq serving
  BY DEF SQ!WithinLimits
<1>3. \A t : SQ!Feasible(w, t) \subseteq serving
  BY <1>2 DEF SQ!Feasible
<1>4. \A T : SQ!Nearest(w, T) \subseteq T
  BY DEF SQ!Nearest
<1> QED BY <1>1, <1>2, <1>3, <1>4 DEF SQ!Offers

LEMMA DispatchServes ==
  ASSUME ServeInv, NEW w \in Callers, SQ!Dispatch(w)
  PROVE  ServeInv'
<1>1. /\ SQ!HoldingNow(w) \in Seq(Callers) /\ NoRepeat(SQ!HoldingNow(w))
      /\ Elders(SQ!HoldingNow(w)) /\ Range(SQ!HoldingNow(w)) \ {w} = Range(holding) \ {w}
  BY PollNotes DEF SQ!Dispatch, PollNoted
<1>2. PICK offer \in SQ!Offers(w) :
        /\ on' = [on EXCEPT ![w] = offer[2]]
        /\ pressure' = pressure + SQ!HeldCount(w) + (IF offer[1] = "fits" THEN 0 ELSE 1)
  BY DEF SQ!Dispatch
<1>3. on' \in [Callers -> Pairs \cup {NoGroup}] /\ pressure' \in Nat
  <2>1. offer[2] \in Pairs
    BY OffersKind
  <2> QED BY <1>2, <2>1 DEF ServeInv, SQ!TypeOK, SQ!HeldCount
<1>4. "prefill" \in SQ!Places \ {"new", "waiting"}
  BY DEF SQ!Places
<1> QED BY <1>1, <1>3, <1>4, LeavesSets DEF SQ!Dispatch, SQ!time, SQ!environment

LEMMA RejectServes ==
  ASSUME ServeInv, NEW w \in Callers, SQ!Reject(w)
  PROVE  ServeInv'
<1>1. /\ SQ!HoldingNow(w) \in Seq(Callers) /\ NoRepeat(SQ!HoldingNow(w))
      /\ Elders(SQ!HoldingNow(w)) /\ Range(SQ!HoldingNow(w)) \ {w} = Range(holding) \ {w}
  BY PollNotes DEF SQ!Reject, PollNoted
<1>2. on' \in [Callers -> Pairs \cup {NoGroup}] /\ pressure' \in Nat
  BY DEF SQ!Reject, ServeInv, SQ!TypeOK, SQ!HeldCount
<1>3. "rejected" \in SQ!Places \ {"new", "waiting"}
  BY DEF SQ!Places
<1> QED BY <1>1, <1>2, <1>3, LeavesSets DEF SQ!Reject, SQ!time, SQ!environment

LEMMA CancelServes ==
  ASSUME ServeInv, NEW w \in Callers, SQ!Cancel(w)
  PROVE  ServeInv'
<1>1. holding \in Seq(Callers) /\ NoRepeat(holding) /\ Elders(holding)
  BY DEF ServeInv, SQ!TypeOK, SetsPartWaiters
<1>2. on' \in [Callers -> Pairs \cup {NoGroup}] /\ pressure' \in Nat
  BY DEF SQ!Cancel, ServeInv, SQ!TypeOK
<1>3. "gone" \in SQ!Places \ {"new", "waiting"}
  BY DEF SQ!Places
<1> QED BY <1>1, <1>2, <1>3, LeavesSets DEF SQ!Cancel, SQ!time, SQ!environment

\* A poll that ends in "wait".
LEMMA KeepWaitingServes ==
  ASSUME ServeInv, NEW w \in Callers, SQ!KeepWaiting(w)
  PROVE  ServeInv'
<1> DEFINE h == SQ!HoldingNow(w)
           x == SQ!ExpiresNow(w)
           y == SQ!FreshNow(w)
<1>1. /\ holding \in Seq(Callers) /\ fresh \subseteq Callers /\ age \in [Callers -> Nat]
      /\ polled \subseteq Callers /\ at \in [Callers -> SQ!Places]
  BY DEF ServeInv, SQ!TypeOK
<1>2. PollNoted(w, h, x, y)
  BY PollNotes DEF SQ!KeepWaiting
<1>3. /\ at' = [at EXCEPT ![w] = "waiting"] /\ polled' = polled \cup {w}
      /\ fresh' = y /\ holding' = h /\ expires' = x
      /\ UNCHANGED <<on, age, policy, serving, cold>>
      /\ pressure' = pressure + SQ!HeldCount(w)
      /\ ~SQ!GivesUp(w) /\ SQ!MayPoll(w)
  BY DEF SQ!KeepWaiting, SQ!environment
<1> HIDE DEF h, x, y
<1> USE DEF PollNoted
<1>4. SQ!TypeOK'
  <2>1. at' \in [Callers -> SQ!Places] /\ polled' \subseteq Callers /\ pressure' \in Nat
    BY <1>1, <1>3 DEF SQ!Places, SQ!HeldCount, ServeInv, SQ!TypeOK
  <2> QED BY <1>2, <1>3, <2>1 DEF ServeInv, SQ!TypeOK
<1>5. w \in y \cup Range(h) /\ (w \in y => ~SQ!PastWait(w) \/ w \notin Range(h))
      /\ (w \in Range(h) => SQ!Serving /\ age[w] + 1 <= HoldMax)
      /\ (w \in y => age[w] + 1 <= MaxWait)
  <2>1. CASE SQ!PastWait(w)
    <3>1. SQ!Serving /\ age[w] + 1 <= HoldMax
      BY <1>1, <1>3, <2>1, ServeAssumption DEF SQ!GivesUp
    <3>2. SQ!IsHolder(w)
      BY <2>1, <3>1 DEF SQ!IsHolder
    <3> QED BY <1>2, <3>1, <3>2
  <2>2. CASE ~SQ!PastWait(w)
    BY <1>1, <1>2, <2>2, ServeAssumption DEF SQ!PastWait
  <2> QED BY <2>1, <2>2
<1>6. Sleepers' = Sleepers \cup {w}
  BY <1>1, <1>3 DEF Sleepers
<1>7. SetsPartWaiters'
  BY <1>2, <1>3, <1>5, <1>6 DEF ServeInv, SetsPartWaiters
<1>8. FreshIsYoung'
  <2>1. \A v \in Callers : at'[v] = "new" => at[v] = "new"
    BY <1>1, <1>3
  <2>2. ASSUME NEW v \in y
        PROVE  age[v] <= MaxWait /\ (v \in polled' => age[v] + 1 <= MaxWait)
    <3>1. CASE v = w
      BY <1>1, <1>2, <1>5, <3>1, ServeAssumption
    <3>2. CASE v # w
      BY <1>2, <1>3, <3>2 DEF ServeInv, FreshIsYoung
    <3> QED BY <3>1, <3>2
  <2> QED BY <1>3, <2>1, <2>2 DEF ServeInv, FreshIsYoung
<1>9. HolderIsOld'
  <2>1. ASSUME NEW v \in Range(h)
        PROVE  /\ MaxWait <= age[v] /\ age[v] <= HoldMax
               /\ v \in polled' => age[v] + 1 <= HoldMax
               /\ policy.overload = "serve" /\ ~cold
    <3>1. CASE v = w
      BY <1>1, <1>2, <1>5, <2>1, <3>1, ServeAssumption DEF SQ!Serving
    <3>2. CASE v # w
      <4>1. v \in Range(holding)
        BY <1>2, <2>1, <3>2
      <4>2. holding # <<>>
        BY <4>1 DEF Range
      <4> QED BY <1>3, <3>2, <4>1, <4>2 DEF ServeInv, HolderIsOld
    <3> QED BY <3>1, <3>2
  <2>2. ASSUME h # <<>> PROVE policy.overload = "serve" /\ ~cold
    <3>1. 1 \in 1..Len(h)
      BY <1>2, <2>2, EmptySeq
    <3>2. h[1] \in Range(h)
      BY <3>1 DEF Range
    <3> QED BY <2>1, <3>2
  <2> QED BY <1>3, <2>1, <2>2 DEF HolderIsOld
<1>10. ExpiryAgrees'
  BY <1>2, <1>3 DEF ExpiryAgrees, SQ!Deadline
<1>11. Elders(holding)'
  BY <1>2, <1>3 DEF Elders
<1> QED BY <1>4, <1>7, <1>8, <1>9, <1>10, <1>11 DEF ServeInv

\* A period ends: everybody that waits has polled, and grows older.
LEMMA TickServes ==
  ASSUME ServeInv, SQ!Tick
  PROVE  ServeInv'
<1>1. /\ holding \in Seq(Callers) /\ fresh \subseteq Callers /\ age \in [Callers -> Nat]
      /\ polled \subseteq Callers /\ at \in [Callers -> SQ!Places]
      /\ expires \in [Callers -> Nat]
  BY DEF ServeInv, SQ!TypeOK
<1>2. /\ \A v \in Callers : at[v] = "waiting" => v \in polled
      /\ polled' = {}
      /\ age' = [v \in Callers |-> IF SQ!Waits(v) THEN age[v] + 1 ELSE age[v]]
      /\ expires' = [v \in Callers |-> SQ!Max({0, expires[v] - 1})]
      /\ UNCHANGED <<at, on, fresh, holding, pressure, policy, serving, cold>>
  BY DEF SQ!Tick, SQ!Waits, SQ!tasks, SQ!environment
<1>3. \A v \in fresh \cup Range(holding) :
        v \in Callers /\ at[v] = "waiting" /\ v \in polled /\ age'[v] = age[v] + 1
  BY <1>1, <1>2 DEF ServeInv, SetsPartWaiters, Sleepers, SQ!Waits
<1>4. age' \in [Callers -> Nat]
  BY <1>1, <1>2
<1>5. ASSUME NEW v \in Callers
      PROVE  expires'[v] = IF expires[v] = 0 THEN 0 ELSE expires[v] - 1
  <2>1. expires[v] - 1 \in Int /\ expires[v] \in Nat
    BY <1>1
  <2>2. expires'[v] = Max({0, expires[v] - 1})
    BY <1>2, ServeOperators
  <2> QED BY <2>1, <2>2, AtLeastZero
<1>6. expires' \in [Callers -> Nat]
  <2>1. \A v \in Callers : (IF expires[v] = 0 THEN 0 ELSE expires[v] - 1) \in Nat
    BY <1>1
  <2>2. \A v \in Callers : SQ!Max({0, expires[v] - 1}) \in Nat
    BY <1>2, <1>5, <2>1
  <2> QED BY <1>2, <2>2
<1>7. SQ!TypeOK'
  BY <1>2, <1>4, <1>6 DEF ServeInv, SQ!TypeOK
<1>8. SetsPartWaiters'
  BY <1>2 DEF ServeInv, SetsPartWaiters, Sleepers
<1>9. FreshIsYoung'
  <2>1. \A v \in Callers : at[v] = "new" => age'[v] = age[v]
    BY <1>2 DEF SQ!Waits
  <2>2. \A v \in fresh : age'[v] <= MaxWait
    BY <1>3 DEF ServeInv, FreshIsYoung
  <2> QED BY <1>2, <2>1, <2>2 DEF ServeInv, FreshIsYoung
<1>10. HolderIsOld'
  <2>1. \A v \in Range(holding) : MaxWait <= age'[v] /\ age'[v] <= HoldMax
    BY <1>1, <1>3, ServeAssumption DEF ServeInv, HolderIsOld
  <2> QED BY <1>2, <2>1 DEF ServeInv, HolderIsOld
<1>11. ExpiryAgrees'
  <2>1. ASSUME NEW v \in Range(holding)
        PROVE  expires'[v] = Max({0, SQ!Deadline(v) - age'[v]})
    <3> DEFINE d == SQ!Deadline(v)
               n == age[v]
    <3>1. d \in Nat /\ n \in Nat /\ v \in Callers /\ age'[v] = n + 1
      BY <1>1, <1>3, DeadlineWithinSlo
    <3>2. expires[v] = Max({0, d - n})
      BY DEF ServeInv, ExpiryAgrees
    <3> HIDE DEF d, n
    <3>3. d - n \in Int /\ d - (n + 1) \in Int
      BY <3>1
    <3>4. expires[v] = IF d - n < 0 THEN 0 ELSE d - n
      BY <3>2, <3>3, AtLeastZero
    <3>5. Max({0, d - (n + 1)}) = IF d - (n + 1) < 0 THEN 0 ELSE d - (n + 1)
      BY <3>3, AtLeastZero
    <3>6. expires'[v] = IF expires[v] = 0 THEN 0 ELSE expires[v] - 1
      BY <1>5, <3>1
    <3>7. expires'[v] = IF d - (n + 1) < 0 THEN 0 ELSE d - (n + 1)
      BY <3>1, <3>4, <3>6
    <3> QED BY <3>1, <3>5, <3>7 DEF d
  <2> QED BY <1>2, <2>1 DEF ExpiryAgrees, SQ!Deadline
<1>12. Elders(holding)'
  <2>1. \A i \in 1..Len(holding) : holding[i] \in Range(holding)
    BY <1>1 DEF Range
  <2>2. \A i \in 1..Len(holding) : age'[holding[i]] = age[holding[i]] + 1
                                   /\ age[holding[i]] \in Nat
    BY <1>1, <1>3, <2>1
  <2> QED BY <1>2, <2>2 DEF ServeInv, Elders
<1> QED BY <1>7, <1>8, <1>9, <1>10, <1>11, <1>12 DEF ServeInv

LEMMA ServeKeeps == ServeInv /\ [AdmissionNext]_<<bestEffort, vars, serveVars>> => ServeInv'
<1> SUFFICES ASSUME ServeInv, [AdmissionNext]_<<bestEffort, vars, serveVars>> PROVE ServeInv'
  OBVIOUS
<1>1. CASE UNCHANGED serveVars
  <2>1. UNCHANGED <<policy, at, on, age, polled, fresh, holding, expires, pressure, serving, cold>>
    BY <1>1 DEF serveVars
  <2>2. Range(holding)' = Range(holding) /\ Sleepers' = Sleepers
    BY <2>1 DEF Sleepers
  <2> QED BY <2>1, <2>2 DEF ServeInv, SQ!TypeOK, SetsPartWaiters, FreshIsYoung, HolderIsOld,
             ExpiryAgrees, Elders, SQ!Deadline
<1>2. ASSUME NEW w \in Callers, SQ!Progress(w) PROVE ServeInv'
  <2>1. PICK p \in {"decoding", "done"} : at' = [at EXCEPT ![w] = p]
    BY <1>2 DEF SQ!Progress
  <2>2. at[w] \in {"prefill", "decoding"}
        /\ UNCHANGED <<on, age, polled, fresh, holding, expires, pressure, policy, serving, cold>>
    BY <1>2 DEF SQ!Progress, SQ!time, SQ!line, SQ!environment
  <2>3. SQ!TypeOK'
    BY <2>1, <2>2 DEF ServeInv, SQ!TypeOK, SQ!Places
  <2>4. Sleepers' = Sleepers /\ (\A v \in Callers : at'[v] = "new" => at[v] = "new")
    BY <2>1, <2>2 DEF Sleepers, ServeInv, SQ!TypeOK
  <2> QED BY <2>2, <2>3, <2>4 DEF ServeInv, SetsPartWaiters, FreshIsYoung, HolderIsOld,
             ExpiryAgrees, Elders, SQ!Deadline
<1>3. ASSUME (\E g \in Pairs : SQ!GroupChanges(g)) \/ SQ!Publish PROVE ServeInv'
  <2>1. UNCHANGED <<at, on, age, polled, fresh, holding, expires, pressure, policy>>
        /\ (~cold => ~cold')
    BY <1>3 DEF SQ!GroupChanges, SQ!Publish, SQ!tasks, SQ!time, SQ!line
  <2>2. SQ!TypeOK'
    BY <1>3, <2>1, ServeAssumption DEF ServeInv, SQ!TypeOK, SQ!GroupChanges, SQ!Publish
  <2> QED BY <2>1, <2>2 DEF ServeInv, SetsPartWaiters, FreshIsYoung, HolderIsOld,
             ExpiryAgrees, Elders, SQ!Deadline, Sleepers
<1>4. CASE SQ!Next
  BY <1>2, <1>3, <1>4, DispatchServes, RejectServes, KeepWaitingServes, CancelServes, TickServes
     DEF SQ!Next
<1> QED BY <1>1, <1>4 DEF AdmissionNext, LineStep, ServeStep

-----------------------------------------------------------------------------
\* What a poll may take.

LEMMA PredictedIsNat ==
  ASSUME NEW w \in Callers, NEW g
  PROVE  /\ SQ!Predicted(w, g) \in Nat
         /\ SQ!Served(g, {"prefill"}) = {} => SQ!Predicted(w, g) = Own[w]
<1> DEFINE A == SQ!Served(g, {"prefill"})
<1>1. IsFiniteSet(A) /\ A \subseteq Callers
  <2>1. A \in SUBSET Callers
    BY DEF SQ!Served
  <2> QED BY <2>1, ServeAssumption, FS_Subset
<1>2. SQ!Predicted(w, g) = TotalOf(Own, A) + Own[w]
  BY DEF SQ!Predicted, TotalOf, MapThenSumSet, MapThenFoldSet, SQ!MapThenSumSet,
         SQ!MapThenFoldSet
<1> HIDE DEF A
<1>3. \A v \in A : Own[v] \in Nat
  BY <1>1, ServeAssumption
<1>4. TotalOf(Own, A) \in Nat
  BY <1>1, <1>3, TotalIsNat
<1>5. TotalOf(Own, {}) = 0
  BY TotalOfNone
<1>6. Own[w] \in Nat
  BY ServeAssumption
<1>7. SQ!Predicted(w, g) \in Nat
  BY <1>2, <1>4, <1>6
<1>8. A = {} => SQ!Predicted(w, g) = Own[w]
  <2>1. ASSUME A = {} PROVE TotalOf(Own, A) = 0
    BY <1>5, <2>1
  <2> QED BY <1>2, <1>6, <2>1
<1> QED BY <1>7, <1>8 DEF A

LEMMA NearestExists ==
  ASSUME NEW w \in Callers, NEW T \in SUBSET Pairs, T # {}
  PROVE  SQ!Nearest(w, T) # {}
<1> DEFINE f == [g \in T |-> SQ!Predicted(w, g)]
<1>1. IsFiniteSet(T) /\ \A g \in T : f[g] \in Int
  BY ServeAssumption, FS_Subset, PredictedIsNat
<1>2. PICK m \in T : \A g \in T : f[m] <= f[g]
  <2> HIDE DEF f
  <2> QED BY <1>1, LeastMember
<1> QED BY <1>2 DEF SQ!Nearest

-----------------------------------------------------------------------------
\* The promises.

\* A late request that takes a group not judged safe for it is the oldest of the
\* waiting ones, which are all late.
LEMMA DispatchLast ==
  ASSUME ServeInv, NEW w \in Callers, SQ!Dispatch(w), policy.doomed = "backfill", ~cold,
         age[w] + SQ!Predicted(w, on'[w]) > Slo, on'[w] \notin SQ!Feasible(w, age[w]),
         NEW v \in Callers \ {w}, at[v] = "waiting"
  PROVE  age[v] >= SQ!Deadline(v) /\ age[v] <= age[w]
<1> DEFINE h == SQ!HoldingNow(w)
           x == SQ!ExpiresNow(w)
           y == SQ!FreshNow(w)
           nearest == SQ!Nearest(w, SQ!WithinLimits)
<1>1. SQ!MayPoll(w) /\ age \in [Callers -> Nat]
  BY DEF SQ!Dispatch, ServeInv, SQ!TypeOK
<1>2. PollNoted(w, h, x, y)
  BY <1>1, PollNotes
<1>3. PICK offer \in SQ!Offers(w) : on'[w] = offer[2]
  BY DEF SQ!Dispatch, ServeInv, SQ!TypeOK
<1>4. age[w] + SQ!Predicted(w, offer[2]) > Slo /\ offer[2] \notin SQ!Feasible(w, age[w])
  BY <1>3
<1>5. ~(\A g \in nearest : age[w] + SQ!Predicted(w, g) <= Slo) \/ offer[2] \notin nearest
  <2>1. Slo \in Nat /\ age[w] \in Nat /\ SQ!Predicted(w, offer[2]) \in Nat
    BY <1>1, ServeAssumption, PredictedIsNat
  <2> QED BY <1>4, <2>1
<1>6. SQ!IsHead(w)
  BY <1>3, <1>4, <1>5 DEF SQ!Offers
<1>7. y = {} /\ Head(h) = w /\ \A u \in Range(h) : x[u] <= 0
  BY <1>6, ServeOperators DEF SQ!IsHead
<1>8. v \in Range(h)
  <2>1. v \in fresh \cup Range(holding)
    BY DEF ServeInv, SetsPartWaiters, Sleepers
  <2> HIDE DEF y, h
  <2> QED BY <1>2, <1>7, <2>1 DEF PollNoted
<1> HIDE DEF h, x, y, nearest
<1> USE DEF PollNoted
<1>9. age[v] <= age[w]
  <2>1. PICK j \in 1..Len(h) : h[j] = v
    BY <1>2, <1>8 DEF Range
  <2>2. 1 \in 1..Len(h) /\ h[1] = w /\ 1 <= j
    BY <1>2, <1>7, <2>1
  <2> QED BY <1>2, <2>1, <2>2 DEF Elders
<1>10. age[v] >= SQ!Deadline(v)
  <2>1. SQ!Deadline(v) \in Nat /\ age[v] \in Nat
    BY <1>1, DeadlineWithinSlo
  <2>2. SQ!Deadline(v) - age[v] \in Int
    BY <2>1
  <2>3. Max({0, SQ!Deadline(v) - age[v]}) <= 0
    BY <1>2, <1>7, <1>8
  <2> QED BY <2>1, <2>2, <2>3, AtLeastZero
<1> QED BY <1>9, <1>10

\* The head of the holders is offered nothing only if there is nothing spare.
LEMMA NothingOffered ==
  ASSUME NEW w \in Callers, SQ!Offers(w) = {}, SQ!IsHolder(w), SQ!IsHead(w),
         SQ!WithinLimits # {}, SQ!Nearest(w, SQ!WithinLimits) # {}
  PROVE  policy.doomed # "dispatch" /\ SQ!Nearest(w, SQ!Feasible(w, BackfillSlack)) = {}
<1> DEFINE nearest == SQ!Nearest(w, SQ!WithinLimits)
           spare == SQ!Nearest(w, SQ!Feasible(w, BackfillSlack))
           fits == SQ!Feasible(w, age[w])
           inTime == \A g \in nearest : age[w] + SQ!Predicted(w, g) <= Slo
<1>1. ASSUME NEW k, NEW T, {k} \X T = {} PROVE T = {}
  <2>1. ASSUME NEW g \in T PROVE <<k, g>> \in {k} \X T
    OBVIOUS
  <2> QED BY <1>1, <2>1
<1>2. SQ!Offers(w) =
        IF fits # {} THEN {"fits"} \X fits
        ELSE IF inTime THEN {"rescue"} \X nearest
        ELSE IF policy.doomed = "dispatch" THEN {"doomed"} \X nearest
        ELSE {"backfill"} \X spare
  BY DEF SQ!Offers
<1>3. nearest # {}
  OBVIOUS
<1> HIDE DEF nearest, spare, fits, inTime
<1>4. fits = {}
  BY <1>1, <1>2
<1>5. ~inTime
  BY <1>1, <1>2, <1>3, <1>4
<1>6. policy.doomed # "dispatch"
  BY <1>1, <1>2, <1>3, <1>4, <1>5
<1>7. spare = {}
  BY <1>1, <1>2, <1>4, <1>5, <1>6
<1> QED BY <1>6, <1>7 DEF spare

\* A holder that is turned away had a rival, or no idle group it could take.
LEMMA RejectsForCause ==
  ASSUME ServeInv, NEW w \in Callers, SQ!Reject(w), SQ!Serving, at[w] = "waiting",
         \A v \in Callers \ {w} : at[v] # "waiting", NEW g \in SQ!WithinLimits,
         SQ!Served(g, {"prefill", "decoding"}) = {}
  PROVE  policy.doomed = "backfill" /\ Slo - BackfillSlack - Own[w] < SafeSlack
<1> DEFINE h == SQ!HoldingNow(w)
           x == SQ!ExpiresNow(w)
           y == SQ!FreshNow(w)
           nearest == SQ!Nearest(w, SQ!WithinLimits)
           spare == SQ!Nearest(w, SQ!Feasible(w, BackfillSlack))
<1>1. SQ!MayPoll(w) /\ age \in [Callers -> Nat] /\ SQ!Offers(w) = {} /\ SQ!GivesUp(w)
  BY DEF SQ!Reject, ServeInv, SQ!TypeOK
<1>2. SQ!IsHolder(w) /\ ~cold /\ policy.overload = "serve" /\ age[w] + 1 > HoldMax
  BY <1>1 DEF SQ!GivesUp, SQ!IsHolder, SQ!Serving
<1>3. PollNoted(w, h, x, y)
  BY <1>1, PollNotes
<1> HIDE DEF h, x, y
<1> USE DEF PollNoted
<1>4. Range(h) = {w} /\ y = {}
  <2>1. fresh \cup Range(holding) = {w}
    BY DEF ServeInv, SetsPartWaiters, Sleepers
  <2> QED BY <1>2, <1>3, <2>1
<1>5. Head(h) = w
  <2>1. PICK j \in 1..Len(h) : h[j] = w
    BY <1>2, <1>3 DEF Range
  <2>2. 1 \in 1..Len(h)
    BY <1>3, <2>1
  <2>3. h[1] \in Range(h)
    BY <2>2 DEF Range
  <2> QED BY <1>3, <1>4, <2>2, <2>3
<1>6. \A u \in Range(h) : x[u] <= 0
  <2>1. SQ!Deadline(w) \in Nat /\ SQ!Deadline(w) <= Slo /\ age[w] \in Nat
    BY <1>1, DeadlineWithinSlo
  <2>2. SQ!Deadline(w) - age[w] \in Int /\ SQ!Deadline(w) - age[w] <= 0
    BY <1>2, <2>1, ServeAssumption
  <2>3. Max({0, SQ!Deadline(w) - age[w]}) <= 0
    BY <2>2, AtLeastZero
  <2> QED BY <1>3, <1>4, <2>3
<1>7. SQ!IsHead(w)
  BY <1>2, <1>4, <1>5, <1>6, ServeOperators DEF SQ!IsHead, h, x, y
<1>8. SQ!WithinLimits \in SUBSET Pairs /\ SQ!WithinLimits # {} /\ g \in Pairs
  BY DEF SQ!WithinLimits, ServeInv, SQ!TypeOK
<1>9. nearest # {}
  BY <1>8, NearestExists
<1>11. policy.doomed # "dispatch" /\ spare = {}
  BY <1>1, <1>2, <1>7, <1>8, <1>9, NothingOffered
<1>12. SQ!Feasible(w, BackfillSlack) = {}
  <2>1. SQ!Feasible(w, BackfillSlack) \in SUBSET Pairs
    BY <1>2, <1>8 DEF SQ!Feasible
  <2> QED BY <1>11, <2>1, NearestExists
<1>13. ~(Slo - BackfillSlack - SQ!Predicted(w, g) >= SafeSlack)
  BY <1>2, <1>12 DEF SQ!Feasible
<1>14. SQ!Predicted(w, g) = Own[w]
  <2>1. SQ!Served(g, {"prefill"}) = {}
    BY DEF SQ!Served
  <2> QED BY <2>1, PredictedIsNat
<1>15. Slo - BackfillSlack - Own[w] \in Int /\ SafeSlack \in Int
  BY ServeAssumption
<1>16. policy.doomed = "backfill"
  BY <1>11 DEF ServeInv, SQ!TypeOK, SQ!Policies
<1> QED BY <1>13, <1>14, <1>15, <1>16

\* The step that admits or refuses a request is its own poll.
LEMMA ServeStepOf ==
  ASSUME ServeInv, AdmissionNext \/ UNCHANGED serveVars, NEW w \in Callers, at'[w] # at[w]
  PROVE  /\ at'[w] = "prefill" => SQ!Dispatch(w)
         /\ at'[w] = "rejected" => SQ!Reject(w)
<1>1. at \in [Callers -> SQ!Places]
  BY DEF ServeInv, SQ!TypeOK
<1>2. SQ!Next
  BY DEF AdmissionNext, LineStep, ServeStep, serveVars
<1>3. PICK v \in Callers :
        SQ!Dispatch(v) \/ SQ!Reject(v) \/ SQ!KeepWaiting(v) \/ SQ!Cancel(v) \/ SQ!Progress(v)
  BY <1>2 DEF SQ!Next, SQ!GroupChanges, SQ!Publish, SQ!Tick, SQ!tasks
<1>4. CASE SQ!Dispatch(v)
  BY <1>1, <1>4 DEF SQ!Dispatch
<1>5. CASE SQ!Reject(v)
  BY <1>1, <1>5 DEF SQ!Reject
<1>6. CASE SQ!KeepWaiting(v)
  BY <1>1, <1>6 DEF SQ!KeepWaiting
<1>7. CASE SQ!Cancel(v)
  BY <1>1, <1>7 DEF SQ!Cancel
<1>8. CASE SQ!Progress(v)
  BY <1>1, <1>8 DEF SQ!Progress
<1> QED BY <1>3, <1>4, <1>5, <1>6, <1>7, <1>8

\* Late requests go last and oldest first; nobody is refused whom nobody was in the way
\* of; waiting is bounded; nobody leaves a trace in _fresh or _holding (step, try_admit,
\* _release under overload: reject and serve).
THEOREM PromisesKept == AdmissionSpec => ServePromises
<1>1. ASSUME ServeInv PROVE SQ!WaitBounded /\ SQ!NoResidue
  <2>1. SQ!NoResidue
    <3>1. SQ!IsInjective(holding)
      BY <1>1 DEF ServeInv, SQ!TypeOK, SetsPartWaiters, NoRepeat, SQ!IsInjective
    <3> QED BY <1>1, <3>1, ServeOperators
            DEF ServeInv, SetsPartWaiters, Sleepers, SQ!NoResidue, SQ!Waits
  <2>2. ASSUME NEW w \in Callers, SQ!Waits(w)
        PROVE  age[w] <= IF policy.overload = "serve" THEN HoldMax ELSE MaxWait
    <3>1. age[w] \in Nat /\ (w \in fresh \/ w \in Range(holding))
      BY <1>1, <2>2 DEF ServeInv, SQ!TypeOK, SetsPartWaiters, Sleepers, SQ!Waits
    <3>2. CASE w \in fresh
      BY <1>1, <3>1, <3>2, ServeAssumption DEF ServeInv, FreshIsYoung
    <3>3. CASE w \in Range(holding)
      <4>1. holding # <<>>
        BY <3>3 DEF Range
      <4> QED BY <1>1, <3>1, <3>3, <4>1 DEF ServeInv, HolderIsOld
    <3> QED BY <3>1, <3>2, <3>3
  <2> QED BY <2>1, <2>2 DEF SQ!WaitBounded
<1>2. ASSUME ServeInv, [AdmissionNext]_<<bestEffort, vars, serveVars>>
      PROVE  [\A w \in Callers :
                /\ policy.doomed = "backfill" /\ ~cold
                /\ at[w] \in {"new", "waiting"} /\ at'[w] = "prefill"
                /\ age[w] + SQ!Predicted(w, on'[w]) > Slo
                /\ on'[w] \notin SQ!Feasible(w, age[w])
                => \A v \in Callers \ {w} :
                     SQ!Waits(v) => age[v] >= SQ!Deadline(v) /\ age[v] <= age[w]]_(SQ!vars)
  BY <1>2, ServeStepOf, DispatchLast DEF SQ!Waits
<1>3. ASSUME ServeInv, [AdmissionNext]_<<bestEffort, vars, serveVars>>
      PROVE  [\A w \in Callers :
                SQ!Serving /\ SQ!Waits(w) /\ at'[w] = "rejected" =>
                  \/ \E v \in Callers \ {w} : SQ!Waits(v)
                  \/ \A g \in SQ!WithinLimits :
                       \/ SQ!Served(g, {"prefill", "decoding"}) # {}
                       \/ policy.doomed = "backfill"
                          /\ Slo - BackfillSlack - Own[w] < SafeSlack]_(SQ!vars)
  BY <1>3, ServeStepOf, RejectsForCause DEF SQ!Waits
<1> QED BY <1>1, <1>2, <1>3, ServeStarts, ServeKeeps, PTL
        DEF AdmissionSpec, ServePromises, SQ!DoomedLast, SQ!NoIdleReject
=============================================================================
