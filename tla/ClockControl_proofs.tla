------------------------- MODULE ClockControl_proofs -------------------------
(***************************************************************************)
(* What set_tier promises for any number of overlapping calls, points and   *)
(* queued commands: as long as no two calls of one tier overlap, the Router *)
(* never assumes a clock that a GPU lacks or is about to lose, and a lock   *)
(* that failed is not forgotten.  The inductive invariant is about the call *)
(* that is still current.  Since nothing began after it, its commands are   *)
(* the last of their queues, and one that was answered well left its GPU at *)
(* the target with nothing to do.                                           *)
(*                                                                          *)
(* What the plan promises for any clocks, tables, demands and groups: it    *)
(* avoids the rates that failed, lowers nothing the recent peak needs, and  *)
(* keeps what it woke.  PlanInv, inductive, is about how long the target has*)
(* been held; the lemmas before it are about the solver.                    *)
(***************************************************************************)
EXTENDS ClockPlans, FiniteLemmas, SequenceTheorems, TLAPS

\* A queue in which a caller waits for one command at most.
Once(q) ==
  \A i, j \in 1..Len(q) : q[i].caller = q[j].caller /\ q[i].caller # Nobody => i = j

Has(q, c) == \E i \in 1..Len(q) : q[i].caller = c

\* A call waits for exactly the GPUs whose queues hold its command.
Posted ==
  \A g \in Gpus :
    /\ Once(queue[g])
    /\ \A c \in Calls : Has(queue[g], c) <=> g \in call[c].waits

Aims == \A c \in Calls : InFlight(c) => call[c].target \in Targets(call[c].tier)

Current(c) == InFlight(c) /\ call[c].tier = tier

\* The point set_tier showed the Router while it waits.
Shown(k) == IF k.tier = "PARK" \/ k.old = NoPoint THEN NoPoint ELSE Slower(k.old, k.target)

LastPosted(k, c, g) ==
  queue[g] # <<>> /\ queue[g][Len(queue[g])] = [caller |-> c, mhz |-> k.target[g]]

AtTarget(k, g) == queue[g] = <<>> /\ clock[g] = k.target[g]

\* Nothing began after the call.
Latest(c) ==
  /\ effective = Shown(call[c])
  /\ \A g \in call[c].waits : LastPosted(call[c], c, g)
  /\ call[c].ok => \A g \in Gpus \ call[c].waits : AtTarget(call[c], g)

Ordered ==
  ~rivals =>
    \A c \in Calls : Current(c) => Latest(c) /\ \A d \in Calls : Current(d) => d = c

\* A group that nobody is about to settle is settled, or is to be locked again.
Settled ==
  ~gaveUp =>
    \/ \E c \in Calls : Current(c)
    \/ retry \/ tier = "PARK" \/ effective \in Targets(tier)

IInv == TypeOK /\ Posted /\ Aims /\ Ordered /\ SafeWithoutRivals /\ Settled

-----------------------------------------------------------------------------
\* Points.

LEMMA PointTypes ==
  /\ Points \subseteq Reached
  /\ Reached \subseteq [Gpus -> Nat]
  /\ NoPoint \notin Reached
  /\ \A t \in Tiers : Targets(t) \subseteq Points
<1>1. Points \subseteq [Gpus -> Nat] /\ NoPoint \notin [Gpus -> Nat]
  BY ClocksAssumption
<1>2. Mhz \subseteq Nat
  BY <1>1 DEF Mhz
<1>3. Points \subseteq Reached
  <2> SUFFICES ASSUME NEW p \in Points
               PROVE  p \in Reached
    OBVIOUS
  <2>1. p \in [Gpus -> Nat] /\ \A g \in Gpus : p[g] \in Mhz
    BY <1>1 DEF Mhz
  <2> QED
    BY <2>1 DEF Reached
<1>4. \A t \in Tiers : Targets(t) \subseteq Points
  BY DEF Tiers, Targets, Points
<1> QED
  BY <1>1, <1>2, <1>3, <1>4 DEF Reached

\* The slower of two points is a point, no faster than either.
LEMMA SlowerIs ==
  ASSUME NEW p \in Reached, NEW q \in Reached
  PROVE  /\ Slower(p, q) \in Reached
         /\ \A g \in Gpus : Slower(p, q)[g] <= p[g] /\ Slower(p, q)[g] <= q[g]
<1>1. \A g \in Gpus : p[g] \in Mhz /\ q[g] \in Mhz /\ p[g] \in Nat /\ q[g] \in Nat
  BY PointTypes DEF Reached
<1> QED
  BY <1>1 DEF Slower, Lower, Reached

-----------------------------------------------------------------------------
\* Queues.

\* What a queue keeps when the command of one caller leaves it, in whatever way.
Lost(c, q, r) ==
  /\ r \in Seq(Command) /\ Once(r)
  /\ \A j \in 1..Len(r) : \E i \in 1..Len(q) : r[j].mhz = q[i].mhz
  /\ c \in Calls => ~Has(r, c)
  /\ \A d \in Calls \ {c} : Has(r, d) <=> Has(q, d)
  /\ q # <<>> /\ q[Len(q)].caller # c => r # <<>> /\ r[Len(r)] = q[Len(q)]

LEMMA RemoveAtElements ==
  ASSUME NEW S, NEW q \in Seq(S), NEW k \in 1..Len(q)
  PROVE  /\ RemoveAt(q, k) \in Seq(S)
         /\ Len(RemoveAt(q, k)) = Len(q) - 1
         /\ \A i \in 1..(Len(q) - 1) :
              RemoveAt(q, k)[i] = IF i < k THEN q[i] ELSE q[i + 1]
<1> DEFINE a == SubSeq(q, 1, k - 1)
           b == SubSeq(q, k + 1, Len(q))
<1>1. a \in Seq(S) /\ Len(a) = k - 1 /\ \A i \in 1..(k - 1) : a[i] = q[i]
  BY SubSeqProperties
<1>2. b \in Seq(S) /\ Len(b) = Len(q) - k /\ \A i \in 1..(Len(q) - k) : b[i] = q[k + i]
  BY SubSeqProperties
<1>3. RemoveAt(q, k) = a \o b
  BY DEF RemoveAt
<1> HIDE DEF a, b
<1>4. /\ a \o b \in Seq(S)
      /\ Len(a \o b) = Len(a) + Len(b)
      /\ \A i \in 1..(Len(a) + Len(b)) :
           (a \o b)[i] = IF i <= Len(a) THEN a[i] ELSE b[i - Len(a)]
  BY <1>1, <1>2, ConcatProperties
<1>5. Len(q) \in Nat /\ Len(a) + Len(b) = Len(q) - 1
  BY <1>1, <1>2
<1>6. ASSUME NEW i \in 1..(Len(q) - 1)
      PROVE  (a \o b)[i] = IF i < k THEN q[i] ELSE q[i + 1]
  <2>1. CASE i < k
    BY <2>1, <1>1, <1>4, <1>5
  <2>2. CASE i >= k
    <3>1. (a \o b)[i] = b[i - Len(a)] /\ i - Len(a) = i + 1 - k
      BY <2>2, <1>1, <1>4, <1>5
    <3>2. i + 1 - k \in 1..(Len(q) - k) /\ k + (i + 1 - k) = i + 1
      BY <2>2, <1>5
    <3> QED
      BY <2>2, <3>1, <3>2, <1>2
  <2> QED
    BY <2>1, <2>2, <1>5
<1> QED
  BY <1>3, <1>4, <1>5, <1>6

\* Taking out the only command of a caller, wherever it stands.
LEMMA RemovedIsLost ==
  ASSUME NEW q \in Seq(Command), Once(q), NEW k \in 1..Len(q), NEW r \in Seq(Command),
         Len(r) = Len(q) - 1,
         \A i \in 1..(Len(q) - 1) : r[i] = IF i < k THEN q[i] ELSE q[i + 1]
  PROVE  Lost(q[k].caller, q, r)
<1> DEFINE c == q[k].caller
           At(j) == IF j < k THEN j ELSE j + 1
<1>1. \A j \in 1..Len(r) : At(j) \in 1..Len(q) /\ At(j) # k /\ r[j] = q[At(j)]
  OBVIOUS
<1>2. \A i \in 1..Len(q) : i # k => \E j \in 1..Len(r) : At(j) = i
  <2> SUFFICES ASSUME NEW i \in 1..Len(q), i # k
               PROVE  \E j \in 1..Len(r) : At(j) = i
    OBVIOUS
  <2>1. CASE i < k
    <3>1. i \in 1..Len(r) /\ At(i) = i
      BY <2>1
    <3> QED
      BY <3>1
  <2>2. CASE i > k
    <3>1. i - 1 \in 1..Len(r) /\ At(i - 1) = i
      BY <2>2
    <3> QED
      BY <3>1
  <2> QED
    BY <2>1, <2>2
<1>3. \A i, j \in 1..Len(r) : At(i) = At(j) => i = j
  OBVIOUS
<1>4. q # <<>> /\ q[Len(q)].caller # c => r # <<>> /\ At(Len(r)) = Len(q) /\ Len(r) \in 1..Len(r)
  OBVIOUS
<1> HIDE DEF At
<1>5. Once(r)
  BY <1>1, <1>3 DEF Once
<1>6. c \in Calls => ~Has(r, c)
  BY <1>1, ClocksAssumption DEF Once, Has
<1>7. \A d \in Calls \ {c} : Has(r, d) <=> Has(q, d)
  <2> SUFFICES ASSUME NEW d \in Calls \ {c}
               PROVE  Has(r, d) <=> Has(q, d)
    OBVIOUS
  <2>1. Has(r, d) => Has(q, d)
    BY <1>1 DEF Has
  <2>2. ASSUME NEW i \in 1..Len(q), q[i].caller = d
        PROVE  Has(r, d)
    BY <2>2, <1>1, <1>2 DEF Has
  <2> QED
    BY <2>1, <2>2 DEF Has
<1> QED
  BY <1>1, <1>4, <1>5, <1>6, <1>7 DEF Lost

\* The command at the head is executed.
LEMMA TailIsLost ==
  ASSUME NEW q \in Seq(Command), Once(q), q # <<>>
  PROVE  Head(q) = q[1] /\ q[1] \in Command /\ Lost(q[1].caller, q, Tail(q))
<1>1. 1 \in 1..Len(q) /\ Head(q) = q[1]
  BY EmptySeq
<1>2. /\ Tail(q) \in Seq(Command) /\ Len(Tail(q)) = Len(q) - 1
      /\ \A i \in 1..Len(Tail(q)) : Tail(q)[i] = q[i + 1]
  BY HeadTailProperties
<1>3. \A i \in 1..(Len(q) - 1) : Tail(q)[i] = IF i < 1 THEN q[i] ELSE q[i + 1]
  BY <1>2
<1>4. q[1] \in Command
  BY <1>1
<1>5. Lost(q[1].caller, q, Tail(q))
  BY <1>1, <1>2, <1>3, RemovedIsLost
<1> QED
  BY <1>1, <1>4, <1>5

\* The command is lost on its way to the agent.
LEMMA DroppedIsLost ==
  ASSUME NEW q \in Seq(Command), Once(q), NEW c \in Calls, Has(q, c)
  PROVE  Lost(c, q, Dropped(c, q))
<1> DEFINE k == CHOOSE i \in DOMAIN q : q[i].caller = c
<1>1. k \in 1..Len(q) /\ q[k].caller = c
  <2>1. \E i \in DOMAIN q : q[i].caller = c
    BY DEF Has
  <2>2. k \in DOMAIN q /\ q[k].caller = c
    BY <2>1
  <2> QED
    BY <2>2
<1>2. Dropped(c, q) = RemoveAt(q, k)
  BY DEF Dropped
<1> HIDE DEF k
<1>3. /\ RemoveAt(q, k) \in Seq(Command)
      /\ Len(RemoveAt(q, k)) = Len(q) - 1
      /\ \A i \in 1..(Len(q) - 1) :
           RemoveAt(q, k)[i] = IF i < k THEN q[i] ELSE q[i + 1]
  BY <1>1, RemoveAtElements
<1> QED
  BY <1>1, <1>2, <1>3, RemovedIsLost

\* The command is executed, but its caller has gone.
LEMMA DisownedIsLost ==
  ASSUME NEW q \in Seq(Command), Once(q), NEW c \in Calls
  PROVE  Lost(c, q, Disowned(c, q))
<1> DEFINE r == Disowned(c, q)
<1>1. DOMAIN q = 1..Len(q) /\ \A i \in 1..Len(q) : q[i] \in Command
  OBVIOUS
<1>2. r \in Seq(Command) /\ Len(r) = Len(q)
  <2>1. \A i \in 1..Len(q) : [q[i] EXCEPT !.caller = Nobody] \in Command
    BY <1>1 DEF Command
  <2>2. r \in [1..Len(q) -> Command]
    BY <1>1, <2>1 DEF Disowned
  <2>3. Len(q) \in Nat
    OBVIOUS
  <2> HIDE DEF r
  <2> QED
    BY <2>2, <2>3
<1>3. \A i \in 1..Len(q) :
        /\ r[i].mhz = q[i].mhz
        /\ q[i].caller # c => r[i] = q[i]
        /\ q[i].caller = c => r[i].caller = Nobody
  BY <1>1 DEF Disowned, Command
<1> HIDE DEF r
<1>4. Once(r)
  BY <1>2, <1>3 DEF Once
<1>5. ~Has(r, c)
  BY <1>2, <1>3, ClocksAssumption DEF Has
<1>6. \A d \in Calls \ {c} : Has(r, d) <=> Has(q, d)
  BY <1>2, <1>3, ClocksAssumption DEF Has
<1>7. q # <<>> /\ q[Len(q)].caller # c => r # <<>> /\ r[Len(r)] = q[Len(q)]
  <2>1. q # <<>> => Len(q) \in 1..Len(q)
    BY EmptySeq
  <2> QED
    BY <2>1, <1>2, <1>3
<1> QED
  BY <1>2, <1>3, <1>4, <1>5, <1>6, <1>7 DEF Lost, r

-----------------------------------------------------------------------------
\* A step in which commands of one caller, or of nobody, leave the queues of some GPUs,
\* executed or not.
Leaves(c, on) ==
  /\ queue' \in [Gpus -> Seq(Command)] /\ clock' \in Reached
  /\ \A g \in Gpus :
       /\ IF g \in on THEN Lost(c, queue[g], queue'[g]) ELSE queue'[g] = queue[g]
       /\ clock'[g] # clock[g] =>
            g \in on /\ \E i \in 1..Len(queue[g]) : clock'[g] = queue[g][i].mhz

\* Each queue still has one command per waiting call, but for the caller's own.
LEMMA LeavesPosted ==
  ASSUME IInv, NEW c \in Calls \cup {Nobody}, NEW on \in SUBSET Gpus, Leaves(c, on),
         NEW g \in Gpus
  PROVE  /\ Once(queue'[g])
         /\ \A d \in Calls :
              Has(queue'[g], d) <=> g \in call[d].waits /\ ~(d = c /\ g \in on)
<1>1. Once(queue[g]) /\ \A d \in Calls : Has(queue[g], d) <=> g \in call[d].waits
  BY DEF IInv, Posted
<1>2. CASE g \in on
  BY <1>1, <1>2 DEF Leaves, Lost
<1>3. CASE g \notin on
  BY <1>1, <1>3 DEF Leaves
<1> QED
  BY <1>2, <1>3

\* The clocks and what is queued stay above what they were above.
LEMMA LeavesCovered ==
  ASSUME IInv, NEW c \in Calls \cup {Nobody}, NEW on \in SUBSET Gpus, Leaves(c, on),
         UNCHANGED <<effective, rivals>>
  PROVE  SafeWithoutRivals'
<1> SUFFICES ASSUME ~rivals, effective # NoPoint, NEW g \in Gpus
             PROVE  /\ effective[g] <= clock'[g]
                    /\ \A j \in DOMAIN queue'[g] : effective[g] <= queue'[g][j].mhz
  BY DEF SafeWithoutRivals, PointIsSafe, Covered
<1>1. effective[g] <= clock[g] /\ \A i \in DOMAIN queue[g] : effective[g] <= queue[g][i].mhz
  BY DEF IInv, SafeWithoutRivals, PointIsSafe, Covered
<1>2. DOMAIN queue[g] = 1..Len(queue[g]) /\ DOMAIN queue'[g] = 1..Len(queue'[g])
  BY DEF Leaves, IInv, TypeOK
<1>3. effective[g] <= clock'[g]
  BY <1>1, <1>2 DEF Leaves
<1>4. ASSUME NEW j \in 1..Len(queue'[g])
      PROVE  effective[g] <= queue'[g][j].mhz
  <2>1. \E i \in 1..Len(queue[g]) : queue'[g][j].mhz = queue[g][i].mhz
    BY <1>4 DEF Leaves, Lost
  <2> QED
    BY <2>1, <1>1, <1>2
<1> QED
  BY <1>2, <1>3, <1>4

\* Another call is the latest if it was.
LEMMA LeavesLatest ==
  ASSUME IInv, NEW c \in Calls \cup {Nobody}, NEW on \in SUBSET Gpus, Leaves(c, on),
         NEW d \in Calls \ {c}, call'[d] = call[d], effective' = effective, Latest(d)
  PROVE  Latest(d)'
<1>1. ASSUME NEW g \in call[d].waits
      PROVE  /\ queue'[g] # <<>>
             /\ queue'[g][Len(queue'[g])] = [caller |-> d, mhz |-> call[d].target[g]]
  <2>1. g \in Gpus
    BY <1>1 DEF IInv, TypeOK
  <2>2. queue[g] # <<>> /\ queue[g][Len(queue[g])] = [caller |-> d, mhz |-> call[d].target[g]]
    BY <1>1 DEF Latest, LastPosted
  <2>3. queue[g][Len(queue[g])].caller # c
    BY <2>2
  <2>4. CASE g \in on
    BY <2>1, <2>2, <2>3, <2>4 DEF Leaves, Lost
  <2>5. CASE g \notin on
    BY <2>1, <2>2, <2>5 DEF Leaves
  <2> QED
    BY <2>4, <2>5
<1>2. ASSUME call[d].ok, NEW g \in Gpus \ call[d].waits
      PROVE  queue'[g] = <<>> /\ clock'[g] = call[d].target[g]
  <2>1. queue[g] = <<>> /\ clock[g] = call[d].target[g]
    BY <1>2 DEF Latest, AtTarget
  <2>2. ~ \E i \in 1..Len(queue[g]) : TRUE
    BY <2>1
  <2>3. clock'[g] = clock[g]
    BY <2>2 DEF Leaves
  <2>4. queue'[g] \in Seq(Command) /\ ~ \E j \in 1..Len(queue'[g]) : TRUE
    <3>1. CASE g \in on
      BY <3>1, <2>2 DEF Leaves, Lost
    <3>2. CASE g \notin on
      BY <3>2, <2>2 DEF Leaves
    <3> QED
      BY <3>1, <3>2
  <2>5. queue'[g] = <<>>
    BY <2>4, EmptySeq
  <2> QED
    BY <2>1, <2>3, <2>5
<1> QED
  BY <1>1, <1>2 DEF Latest, LastPosted, AtTarget

-----------------------------------------------------------------------------
\* Cold start: nothing is queued, and the clocks are the maximum.
LEMMA InitIInv == Init => IInv
<1> SUFFICES ASSUME Init
             PROVE  IInv
  OBVIOUS
<1>1. MaxPoint \in Reached /\ ParkPoint \in Points
  BY PointTypes DEF Points
<1>2. \A c \in Calls : call[c] = Idle /\ ~InFlight(c)
  BY DEF Init, InFlight, Idle
<1>3. \A g \in Gpus : queue[g] = <<>> /\ Len(queue[g]) = 0 /\ DOMAIN queue[g] = {}
  BY DEF Init
<1>4. TypeOK
  <2>1. Idle \in [tier : Tiers, target : Points, old : Reached \cup {NoPoint},
                  ok : BOOLEAN, waits : SUBSET Gpus]
    BY <1>1 DEF Idle, Tiers
  <2>2. call \in [Calls -> [tier : Tiers, target : Points, old : Reached \cup {NoPoint},
                            ok : BOOLEAN, waits : SUBSET Gpus]]
    BY <2>1 DEF Init
  <2>3. queue \in [Gpus -> Seq(Command)]
    <3>1. <<>> \in Seq(Command)
      OBVIOUS
    <3> QED
      BY <3>1 DEF Init
  <2> QED
    BY <2>2, <2>3, <1>1 DEF Init, TypeOK, Tiers
<1>5. Posted
  BY <1>2, <1>3 DEF Posted, Once, Has, InFlight
<1>6. \A g \in Gpus : effective[g] <= clock[g]
  <2>1. \A g \in Gpus : MaxPoint[g] \in Nat
    BY <1>1, PointTypes
  <2> QED
    BY <2>1 DEF Init
<1>7. SafeWithoutRivals
  BY <1>3, <1>6 DEF SafeWithoutRivals, PointIsSafe, Covered
<1>8. Settled
  BY DEF Settled, Init, Targets
<1> QED
  BY <1>2, <1>4, <1>5, <1>7, <1>8 DEF IInv, Aims, Ordered, Current

-----------------------------------------------------------------------------
\* The Router's point is the slower one before the commands leave, and the new call is
\* the only one of its tier, or there are rivals from now on.
LEMMA BeginIInv ==
  ASSUME IInv, NEW c \in Calls, NEW t \in Tiers, NEW p \in Targets(t), Begin(c, t, p)
  PROVE  IInv'
<1> DEFINE k == [tier |-> t, target |-> p, old |-> effective, ok |-> TRUE, waits |-> Gpus]
           cmd(g) == [caller |-> c, mhz |-> p[g]]
<1>1. /\ p \in Points /\ p \in Reached
      /\ effective \in Reached \cup {NoPoint}
      /\ queue \in [Gpus -> Seq(Command)]
      /\ call[c].waits = {}
  BY PointTypes DEF IInv, TypeOK, Begin, InFlight
<1>2. /\ tier' = t /\ effective' = PointWhileChanging(t, p)
      /\ call' = [call EXCEPT ![c] = k]
      /\ queue' = [g \in Gpus |-> Append(queue[g], cmd(g))]
      /\ rivals' = (rivals \/ \E d \in Calls : InFlight(d) /\ call[d].tier = t)
      /\ UNCHANGED <<retry, clock, gaveUp>>
  BY DEF Begin
<1>3. \A d \in Calls : call'[d] = IF d = c THEN k ELSE call[d]
  BY <1>2 DEF IInv, TypeOK
<1>4. effective' \in Reached \cup {NoPoint} /\ effective' = Shown(k)
  <2>1. effective' = Shown(k)
    BY <1>2 DEF PointWhileChanging, Shown
  <2>2. Shown(k) \in Reached \cup {NoPoint}
    BY <1>1, SlowerIs DEF Shown
  <2> QED
    BY <2>1, <2>2
<1>5. \A g \in Gpus : cmd(g) \in Command
  BY <1>1 DEF Command, Reached
<1>6. \A g \in Gpus :
        /\ queue'[g] \in Seq(Command) /\ queue'[g] # <<>>
        /\ Len(queue'[g]) = Len(queue[g]) + 1 /\ Len(queue[g]) \in Nat
        /\ \A i \in 1..Len(queue[g]) : queue'[g][i] = queue[g][i]
        /\ queue'[g][Len(queue[g]) + 1] = cmd(g)
  BY <1>1, <1>2, <1>5, AppendProperties
<1>7. TypeOK'
  <2>1. k \in [tier : Tiers, target : Points, old : Reached \cup {NoPoint},
               ok : BOOLEAN, waits : SUBSET Gpus]
    BY <1>1
  <2>2. call' \in [Calls -> [tier : Tiers, target : Points, old : Reached \cup {NoPoint},
                             ok : BOOLEAN, waits : SUBSET Gpus]]
    BY <2>1, <1>2 DEF IInv, TypeOK
  <2>3. queue' \in [Gpus -> Seq(Command)]
    BY <1>2, <1>6
  <2>4. tier' \in Tiers /\ rivals' \in BOOLEAN /\ retry' \in BOOLEAN /\ gaveUp' \in BOOLEAN
        /\ clock' \in Reached
    BY <1>2 DEF IInv, TypeOK
  <2> QED
    BY <2>2, <2>3, <2>4, <1>4 DEF TypeOK
<1> HIDE DEF cmd
<1>8. \A g \in Gpus : cmd(g).caller = c /\ cmd(g).mhz = p[g]
  BY DEF cmd
<1>9. Posted'
  <2> SUFFICES ASSUME NEW g \in Gpus
               PROVE  /\ Once(queue'[g])
                      /\ \A d \in Calls : Has(queue'[g], d) <=> g \in call'[d].waits
    BY DEF Posted
  <2>1. Once(queue[g]) /\ \A d \in Calls : Has(queue[g], d) <=> g \in call[d].waits
    BY DEF IInv, Posted
  <2>2. \A i \in 1..Len(queue[g]) : queue[g][i].caller # c
    BY <1>1, <2>1 DEF Has
  <2>3. Once(queue'[g])
    <3> SUFFICES ASSUME NEW i \in 1..Len(queue'[g]), NEW j \in 1..Len(queue'[g]),
                        queue'[g][i].caller = queue'[g][j].caller,
                        queue'[g][i].caller # Nobody
                 PROVE  i = j
      BY DEF Once
    <3>1. \A m \in 1..Len(queue'[g]) :
            \/ m \in 1..Len(queue[g]) /\ queue'[g][m] = queue[g][m]
            \/ m = Len(queue[g]) + 1 /\ queue'[g][m].caller = c
      BY <1>6, <1>8
    <3> QED
      BY <3>1, <2>1, <2>2 DEF Once
  <2>4. Has(queue'[g], c) /\ g \in call'[c].waits
    BY <1>3, <1>6, <1>8 DEF Has
  <2>5. ASSUME NEW d \in Calls \ {c}
        PROVE  Has(queue'[g], d) <=> g \in call'[d].waits
    <3>1. Has(queue'[g], d) <=> Has(queue[g], d)
      BY <1>6, <1>8 DEF Has
    <3> QED
      BY <3>1, <2>1, <1>3
  <2> QED
    BY <2>3, <2>4, <2>5
<1>10. Aims'
  BY <1>3 DEF IInv, Aims, InFlight
<1>11. Ordered'
  <2> SUFFICES ASSUME ~rivals'
               PROVE  Latest(c)' /\ \A d \in Calls : Current(d)' => d = c
    BY DEF Ordered
  <2>1. \A d \in Calls : Current(d)' => d = c
    BY <1>2, <1>3 DEF Current, InFlight
  <2>2. call'[c] = k
    BY <1>3
  <2>3. \A g \in Gpus :
          queue'[g] # <<>> /\ queue'[g][Len(queue'[g])] = [caller |-> c, mhz |-> p[g]]
    BY <1>6 DEF cmd
  <2>4. Latest(c)'
    BY <2>2, <2>3, <1>4 DEF Latest, LastPosted
  <2> QED
    BY <2>1, <2>4
<1>12. SafeWithoutRivals'
  <2> SUFFICES ASSUME ~rivals, effective' # NoPoint, NEW g \in Gpus
               PROVE  /\ effective'[g] <= clock[g]
                      /\ \A j \in DOMAIN queue'[g] : effective'[g] <= queue'[g][j].mhz
    BY <1>2 DEF SafeWithoutRivals, PointIsSafe, Covered
  <2>1. effective # NoPoint /\ effective' = Slower(effective, p)
    BY <1>2 DEF PointWhileChanging
  <2>2. effective \in Reached
    BY <2>1, <1>1
  <2>3. effective'[g] <= effective[g] /\ effective'[g] <= p[g]
    BY <2>1, <2>2, <1>1, SlowerIs
  <2>4. effective[g] <= clock[g] /\ \A i \in 1..Len(queue[g]) : effective[g] <= queue[g][i].mhz
    BY <2>1, <1>1 DEF IInv, SafeWithoutRivals, PointIsSafe, Covered
  <2>5. effective'[g] \in Nat /\ effective[g] \in Nat /\ clock[g] \in Nat /\ p[g] \in Nat
    BY <1>1, <1>4, <2>2, PointTypes, SlowerIs, <2>1 DEF IInv, TypeOK
  <2>6. \A i \in 1..Len(queue[g]) : queue[g][i].mhz \in Nat
    <3>1. \A i \in 1..Len(queue[g]) : queue[g][i] \in Command
      BY <1>1
    <3>2. Mhz \subseteq Nat
      BY ClocksAssumption DEF Mhz
    <3> QED
      BY <3>1, <3>2 DEF Command
  <2>7. DOMAIN queue'[g] = 1..(Len(queue[g]) + 1)
    BY <1>6
  <2>8. ASSUME NEW j \in 1..(Len(queue[g]) + 1)
        PROVE  effective'[g] <= queue'[g][j].mhz
    <3>1. CASE j \in 1..Len(queue[g])
      <4>1. queue'[g][j] = queue[g][j]
        BY <3>1, <1>6
      <4>2. effective[g] <= queue[g][j].mhz /\ queue[g][j].mhz \in Nat
        BY <3>1, <2>4, <2>6
      <4> QED BY <4>1, <4>2, <2>3, <2>5
    <3>2. CASE j = Len(queue[g]) + 1
      BY <3>2, <2>3, <1>6, <1>8
    <3> QED
      BY <3>1, <3>2, <1>6
  <2> QED
    BY <2>3, <2>4, <2>5, <2>7, <2>8
<1>13. Settled'
  <2>1. call'[c] = k /\ k.waits # {} /\ k.tier = tier'
    BY <1>2, <1>3 DEF Gpus
  <2>2. Current(c)'
    BY <2>1 DEF Current, InFlight
  <2> QED
    BY <2>2 DEF Settled
<1> QED
  BY <1>7, <1>9, <1>10, <1>11, <1>12, <1>13 DEF IInv

-----------------------------------------------------------------------------
\* A GPU that answers the current call well has nothing else to execute.
LEMMA LastOfQueue ==
  ASSUME IInv, ~rivals, NEW c \in Calls, Current(c), NEW g \in call[c].waits,
         queue[g] # <<>>, queue[g][1].caller = c
  PROVE  Tail(queue[g]) = <<>> /\ queue[g][1].mhz = call[c].target[g]
<1>1. g \in Gpus /\ queue[g] \in Seq(Command)
  BY DEF IInv, TypeOK
<1>2. Once(queue[g]) /\ LastPosted(call[c], c, g)
  BY <1>1 DEF IInv, Posted, Ordered, Latest
<1>3. Len(queue[g]) \in Nat /\ Len(queue[g]) > 0
  BY <1>1, EmptySeq
<1>4. queue[g][Len(queue[g])].caller = c /\ queue[g][Len(queue[g])].mhz = call[c].target[g]
  BY <1>2 DEF LastPosted
<1>5. Len(queue[g]) = 1
  <2>1. 1 \in 1..Len(queue[g]) /\ Len(queue[g]) \in 1..Len(queue[g]) /\ c # Nobody
    BY <1>3, ClocksAssumption
  <2> QED
    BY <2>1, <1>2, <1>4 DEF Once
<1>6. Tail(queue[g]) \in Seq(Command) /\ Len(Tail(queue[g])) = 0
  BY <1>1, <1>5, HeadTailProperties
<1> QED
  BY <1>4, <1>5, <1>6, EmptySeq

\* What the point is after a call.
LEMMA PointAfterIs ==
  ASSUME NEW k, k.ok \in BOOLEAN
  PROVE  /\ k.tier = "PARK" => PointAfter(k) = effective
         /\ k.tier # "PARK" /\ k.ok => PointAfter(k) = k.target
         /\ k.tier # "PARK" /\ ~k.ok /\ k.old # NoPoint =>
              PointAfter(k) = Slower(k.old, k.target)
         /\ k.tier # "PARK" /\ ~k.ok /\ k.old = NoPoint => PointAfter(k) = effective
<1>1. CASE k.tier = "PARK"
  BY <1>1 DEF PointAfter
<1>2. CASE k.tier # "PARK" /\ k.ok
  BY <1>2 DEF PointAfter
<1>3. CASE k.tier # "PARK" /\ ~k.ok /\ k.old # NoPoint
  BY <1>3 DEF PointAfter
<1>4. CASE k.tier # "PARK" /\ ~k.ok /\ k.old = NoPoint
  BY <1>4 DEF PointAfter
<1> QED
  BY <1>1, <1>2, <1>3, <1>4

\* An answer to a call: the call waits for one GPU less, or concludes.
LEMMA AnswerIInv ==
  ASSUME IInv, NEW c \in Calls, NEW g \in call[c].waits, NEW ok \in BOOLEAN,
         Answer(c, g, ok), Leaves(c, {g}), UNCHANGED <<tier, rivals, gaveUp>>,
         ok => /\ queue[g] # <<>> /\ queue[g][1].caller = c
               /\ queue'[g] = Tail(queue[g]) /\ clock'[g] = queue[g][1].mhz
  PROVE  IInv'
<1> DEFINE o == call[c]
           k == [o EXCEPT !.ok = @ /\ ok, !.waits = @ \ {g}]
<1>1. /\ o \in [tier : Tiers, target : Points, old : Reached \cup {NoPoint},
               ok : BOOLEAN, waits : SUBSET Gpus]
      /\ g \in Gpus /\ c # Nobody
  BY ClocksAssumption DEF IInv, TypeOK
<1>2. /\ k \in [tier : Tiers, target : Points, old : Reached \cup {NoPoint},
               ok : BOOLEAN, waits : SUBSET Gpus]
      /\ k.tier = o.tier /\ k.target = o.target /\ k.old = o.old
      /\ k.ok = (o.ok /\ ok) /\ k.waits = o.waits \ {g}
  BY <1>1
<1>3. /\ call' = [call EXCEPT ![c] = IF k.waits = {} THEN Idle ELSE k]
      /\ IF k.waits = {} THEN Conclude(k) ELSE UNCHANGED <<effective, retry>>
  BY DEF Answer
<1> HIDE DEF k
<1>4. \A d \in Calls : call'[d] = IF d # c THEN call[d] ELSE IF k.waits = {} THEN Idle ELSE k
  BY <1>3 DEF IInv, TypeOK
<1>5. InFlight(c) /\ o.target \in Targets(o.tier) /\ o.target \in Reached
  <2>1. InFlight(c)
    BY DEF InFlight
  <2>2. o.target \in Targets(o.tier)
    BY <2>1 DEF IInv, Aims
  <2> QED
    BY <2>1, <2>2, <1>1, PointTypes
<1>6. Idle \in [tier : Tiers, target : Points, old : Reached \cup {NoPoint},
                ok : BOOLEAN, waits : SUBSET Gpus] /\ Idle.waits = {}
  BY PointTypes DEF Idle, Tiers, Points
<1>7. call' \in [Calls -> [tier : Tiers, target : Points, old : Reached \cup {NoPoint},
                           ok : BOOLEAN, waits : SUBSET Gpus]]
  BY <1>2, <1>3, <1>6 DEF IInv, TypeOK
<1>8. Posted'
  <2> SUFFICES ASSUME NEW h \in Gpus
               PROVE  /\ Once(queue'[h])
                      /\ \A d \in Calls : Has(queue'[h], d) <=> h \in call'[d].waits
    BY DEF Posted
  <2>1. /\ Once(queue'[h])
        /\ \A d \in Calls : Has(queue'[h], d) <=> h \in call[d].waits /\ ~(d = c /\ h \in {g})
    BY <1>1, LeavesPosted
  <2>2. \A d \in Calls : h \in call'[d].waits <=> h \in call[d].waits /\ ~(d = c /\ h = g)
    BY <1>2, <1>4, <1>6
  <2> QED
    BY <2>1, <2>2
<1>9. Aims'
  BY <1>2, <1>4, <1>5, <1>6 DEF IInv, Aims, InFlight
<1>10. ASSUME NEW d \in Calls \ {c}
       PROVE  Current(d)' <=> Current(d)
  BY <1>4 DEF Current, InFlight
<1>11. ASSUME ~rivals, Current(c), k.ok
       PROVE  \A h \in Gpus \ k.waits : queue'[h] = <<>> /\ clock'[h] = o.target[h]
  <2>1. Latest(c)
    BY <1>11 DEF IInv, Ordered
  <2>2. o.ok /\ ok
    BY <1>2, <1>11
  <2>3. queue'[g] = <<>> /\ clock'[g] = o.target[g]
    BY <2>2, <1>11, LastOfQueue
  <2>4. ASSUME NEW h \in Gpus \ o.waits
        PROVE  queue'[h] = <<>> /\ clock'[h] = o.target[h]
    BY <2>1, <2>2, <2>4 DEF Latest, AtTarget, Leaves
  <2> QED
    BY <2>3, <2>4, <1>2
<1>12. CASE k.waits # {}
  <2>1. UNCHANGED <<effective, retry>> /\ call'[c] = k
    BY <1>3, <1>4, <1>12
  <2>2. Current(c)' <=> Current(c)
    BY <1>2, <1>5, <1>12, <2>1 DEF Current, InFlight
  <2>3. TypeOK'
    BY <1>7, <2>1 DEF IInv, TypeOK, Leaves
  <2>4. ASSUME ~rivals, Current(c)
        PROVE  Latest(c)'
    <3>1. Latest(c)
      BY <2>4 DEF IInv, Ordered
    <3>2. effective' = Shown(k)
      BY <3>1, <2>1, <1>2 DEF Latest, Shown
    <3>3. ASSUME NEW h \in k.waits
          PROVE  queue'[h] # <<>> /\ queue'[h][Len(queue'[h])] = [caller |-> c, mhz |-> k.target[h]]
      <4>1. h \in o.waits /\ h \in Gpus /\ h # g
        BY <3>3, <1>1, <1>2
      <4> QED
        BY <4>1, <3>1, <1>2 DEF Latest, LastPosted, Leaves
    <3>4. \A h \in call'[c].waits : LastPosted(call[c], c, h)'
      BY <3>3, <2>1 DEF LastPosted
    <3>5. call'[c].ok => \A h \in Gpus \ call'[c].waits : AtTarget(call[c], h)'
      BY <1>11, <1>2, <2>1, <2>4 DEF AtTarget
    <3>6. effective' = Shown(call'[c])
      BY <3>2, <2>1
    <3> QED
      BY <3>4, <3>5, <3>6 DEF Latest, Shown
  <2>5. Ordered'
    <3> SUFFICES ASSUME ~rivals, NEW d \in Calls, Current(d)'
                 PROVE  Latest(d)' /\ \A e \in Calls : Current(e)' => e = d
      BY DEF Ordered
    <3>1. Current(d) /\ \A e \in Calls : Current(e)' => Current(e)
      BY <1>10, <2>2
    <3>2. Latest(d) /\ \A e \in Calls : Current(e)' => e = d
      BY <3>1 DEF IInv, Ordered
    <3>3. CASE d = c
      BY <3>1, <3>2, <3>3, <2>4
    <3>4. CASE d # c
      BY <3>2, <3>4, <1>1, <1>4, <2>1, LeavesLatest
    <3> QED
      BY <3>2, <3>3, <3>4
  <2>6. SafeWithoutRivals'
    BY <2>1, <1>1, LeavesCovered
  <2>7. Settled'
    BY <1>10, <2>1, <2>2 DEF IInv, Settled
  <2> QED
    BY <2>3, <2>5, <2>6, <2>7, <1>8, <1>9 DEF IInv
<1>13. CASE k.waits = {}
  <2>1. call'[c] = Idle /\ ~Current(c)' /\ Conclude(k)
    BY <1>3, <1>4, <1>6, <1>13 DEF Current, InFlight
  <2>2. CASE ~Current(c)
    <3>1. UNCHANGED <<effective, retry>>
      BY <2>1, <2>2, <1>2, <1>5 DEF Conclude, StillCurrent, Current
    <3>2. TypeOK'
      BY <1>7, <3>1 DEF IInv, TypeOK, Leaves
    <3>3. Ordered'
      <4> SUFFICES ASSUME ~rivals, NEW d \in Calls, Current(d)'
                   PROVE  Latest(d)' /\ \A e \in Calls : Current(e)' => e = d
        BY DEF Ordered
      <4>1. d # c /\ Current(d) /\ \A e \in Calls : Current(e)' => Current(e)
        BY <1>10, <2>1
      <4>2. Latest(d) /\ \A e \in Calls : Current(e)' => e = d
        BY <4>1 DEF IInv, Ordered
      <4> QED
        BY <4>1, <4>2, <1>1, <1>4, <3>1, LeavesLatest
    <3>4. SafeWithoutRivals'
      BY <3>1, <1>1, LeavesCovered
    <3>5. Settled'
      BY <1>10, <2>1, <2>2, <3>1 DEF IInv, Settled
    <3> QED
      BY <3>2, <3>3, <3>4, <3>5, <1>8, <1>9 DEF IInv
  <2>3. CASE Current(c)
    <3>1. effective' = PointAfter(k) /\ retry' = ~k.ok /\ k.tier = tier
      BY <2>1, <2>3, <1>2 DEF Conclude, StillCurrent, RetryAfter, Current
    <3>2. PointAfter(k) \in Reached \cup {NoPoint}
      <4>1. effective \in Reached \cup {NoPoint} /\ k.ok \in BOOLEAN
        BY <1>2 DEF IInv, TypeOK
      <4> QED
        BY <4>1, <1>2, <1>5, PointAfterIs, SlowerIs
    <3>3. TypeOK'
      BY <1>2, <1>7, <3>1, <3>2 DEF IInv, TypeOK, Leaves
    <3>4. ASSUME ~rivals
          PROVE  Latest(c) /\ \A d \in Calls : ~Current(d)'
      BY <3>4, <1>10, <2>1, <2>3 DEF IInv, Ordered
    <3>5. Ordered'
      BY <3>4 DEF Ordered
    <3>6. SafeWithoutRivals'
      <4>1. CASE rivals
        BY <4>1 DEF SafeWithoutRivals
      <4>2. CASE ~rivals /\ k.ok /\ k.tier # "PARK"
        <5>1. effective' = o.target
          BY <4>2, <3>1, <1>2, PointAfterIs
        <5>2. \A h \in Gpus : queue'[h] = <<>> /\ clock'[h] = o.target[h]
          BY <4>2, <1>11, <1>13, <2>3
        <5>3. \A h \in Gpus : o.target[h] \in Nat /\ DOMAIN queue'[h] = {}
          BY <5>2, <1>5, PointTypes
        <5> QED
          BY <5>1, <5>2, <5>3 DEF SafeWithoutRivals, PointIsSafe, Covered
      <4>3. CASE ~rivals /\ ~(k.ok /\ k.tier # "PARK")
        <5>1. effective = Shown(o)
          BY <4>3, <3>4 DEF Latest
        <5>2. effective' = effective
          BY <4>3, <5>1, <3>1, <1>2, PointAfterIs DEF Shown
        <5> QED
          BY <5>2, <1>1, LeavesCovered
      <4> QED
        BY <4>1, <4>2, <4>3
    <3>7. Settled'
      <4>1. CASE k.ok /\ k.tier # "PARK"
        <5>1. effective' = o.target
          BY <4>1, <3>1, <1>2, PointAfterIs
        <5> QED
          BY <5>1, <3>1, <1>2, <1>5 DEF Settled
      <4>2. CASE ~k.ok \/ k.tier = "PARK"
        BY <4>2, <3>1, <1>2 DEF Settled
      <4> QED
        BY <4>1, <4>2
    <3> QED
      BY <3>3, <3>5, <3>6, <3>7, <1>8, <1>9 DEF IInv
  <2> QED
    BY <2>2, <2>3
<1> QED
  BY <1>12, <1>13

\* The agent executes a command: the clock is the command's, or it failed.
LEMMA ExecuteIInv ==
  ASSUME IInv, NEW g \in Gpus, Execute(g)
  PROVE  IInv'
<1> DEFINE q == queue[g]
           cmd == Head(q)
<1>1. q \in Seq(Command) /\ Once(q) /\ q # <<>>
  BY DEF IInv, TypeOK, Posted, Execute
<1>2. cmd = q[1] /\ cmd \in Command /\ Lost(cmd.caller, q, Tail(q))
  BY <1>1, TailIsLost
<1>3. /\ queue' = [queue EXCEPT ![g] = Tail(q)]
      /\ UNCHANGED <<tier, rivals, gaveUp>>
  BY DEF Execute
<1>4. PICK ok \in BOOLEAN :
        /\ clock' \in {[clock EXCEPT ![g] = cmd.mhz]} \cup (IF ok THEN {} ELSE {clock})
        /\ IF cmd.caller = Nobody THEN UNCHANGED <<call, effective, retry>>
                                  ELSE Answer(cmd.caller, g, ok)
  BY DEF Execute
<1>5. 1 \in 1..Len(q) /\ cmd.mhz \in Mhz /\ cmd.caller \in Calls \cup {Nobody}
  BY <1>1, <1>2, EmptySeq DEF Command
<1> HIDE DEF cmd
<1>6. /\ clock \in Reached /\ queue \in [Gpus -> Seq(Command)]
      /\ clock' = clock \/ clock' = [clock EXCEPT ![g] = cmd.mhz]
      /\ ok => clock'[g] = cmd.mhz
  BY <1>4 DEF IInv, TypeOK, Reached
<1>7. Leaves(cmd.caller, {g})
  <2>1. clock' \in Reached /\ \A h \in Gpus : clock'[h] # clock[h] => h = g /\ clock'[h] = q[1].mhz
    BY <1>2, <1>5, <1>6 DEF Reached
  <2>2. \A h \in Gpus : queue'[h] = IF h = g THEN Tail(q) ELSE queue[h]
    BY <1>3, <1>6
  <2>3. Tail(q) \in Seq(Command)
    BY <1>2 DEF Lost
  <2>4. queue' \in [Gpus -> Seq(Command)]
    BY <1>3, <1>6, <2>3
  <2> QED
    BY <2>1, <2>2, <2>4, <1>2, <1>5 DEF Leaves
<1>8. CASE cmd.caller = Nobody
  <2>1. UNCHANGED <<call, effective, retry, tier, rivals, gaveUp>>
    BY <1>3, <1>4, <1>8
  <2>2. TypeOK'
    BY <2>1, <1>7 DEF IInv, TypeOK, Leaves
  <2>3. Posted'
    BY <2>1, <1>7, <1>8, LeavesPosted, ClocksAssumption DEF Posted
  <2>4. \A d \in Calls : Current(d)' <=> Current(d)
    BY <2>1 DEF Current, InFlight
  <2>5. Ordered'
    <3> SUFFICES ASSUME ~rivals, NEW d \in Calls, Current(d)
                 PROVE  Latest(d)' /\ \A e \in Calls : Current(e) => e = d
      BY <2>1, <2>4 DEF Ordered
    <3>1. Latest(d) /\ d # cmd.caller /\ \A e \in Calls : Current(e) => e = d
      BY <1>8, ClocksAssumption DEF IInv, Ordered
    <3> QED
      BY <3>1, <2>1, <1>5, <1>7, LeavesLatest
  <2>6. SafeWithoutRivals'
    BY <2>1, <1>5, <1>7, LeavesCovered
  <2>7. Aims' /\ Settled'
    BY <2>1, <2>4 DEF IInv, Aims, Settled, InFlight
  <2> QED
    BY <2>2, <2>3, <2>5, <2>6, <2>7 DEF IInv
<1>9. CASE cmd.caller # Nobody
  <2>1. cmd.caller \in Calls /\ Answer(cmd.caller, g, ok)
    BY <1>4, <1>5, <1>9
  <2>2. g \in call[cmd.caller].waits
    BY <2>1, <1>2, <1>5 DEF IInv, Posted, Has
  <2>3. ok => /\ queue[g] # <<>> /\ queue[g][1].caller = cmd.caller
              /\ queue'[g] = Tail(queue[g]) /\ clock'[g] = queue[g][1].mhz
    BY <1>1, <1>2, <1>3, <1>6
  <2> QED
    BY <2>1, <2>2, <2>3, <1>3, <1>7, AnswerIInv
<1> QED
  BY <1>8, <1>9

\* The command is lost, or is left to the agent by a caller that does not wait any more.
LEMMA NoAnswerIInv ==
  ASSUME IInv, NEW c \in Calls, NEW g \in Gpus, NoAnswer(c, g)
  PROVE  IInv'
<1>1. g \in call[c].waits /\ queue[g] \in Seq(Command) /\ Once(queue[g]) /\ Has(queue[g], c)
  BY DEF IInv, TypeOK, Posted, NoAnswer
<1>2. PICK left \in {Disowned(c, queue[g]), Dropped(c, queue[g])} :
        queue' = [queue EXCEPT ![g] = left]
  BY DEF NoAnswer
<1>3. Lost(c, queue[g], left)
  BY <1>1, DroppedIsLost, DisownedIsLost
<1>4. Answer(c, g, FALSE) /\ UNCHANGED <<tier, clock, rivals, gaveUp>>
  BY DEF NoAnswer
<1>5. Leaves(c, {g})
  <2>1. queue \in [Gpus -> Seq(Command)] /\ left \in Seq(Command) /\ clock \in Reached
    BY <1>3 DEF IInv, TypeOK, Lost
  <2>2. queue' \in [Gpus -> Seq(Command)]
        /\ \A h \in Gpus : queue'[h] = IF h = g THEN left ELSE queue[h]
    BY <2>1, <1>2
  <2> QED
    BY <2>1, <2>2, <1>3, <1>4 DEF Leaves
<1> QED
  BY <1>1, <1>4, <1>5, AnswerIInv

\* The caller is gone with both of its commands.
LEMMA CancelIInv ==
  ASSUME IInv, NEW c \in Calls, Cancel(c)
  PROVE  IInv'
<1>1. PICK lost \in SUBSET call[c].waits :
        queue' = [g \in Gpus |-> IF g \in lost THEN Dropped(c, queue[g])
                                               ELSE Disowned(c, queue[g])]
  BY DEF Cancel
<1>2. /\ call' = [call EXCEPT ![c] = Idle] /\ gaveUp' = TRUE
      /\ UNCHANGED <<tier, effective, retry, clock, rivals>>
  BY DEF Cancel
<1>3. \A g \in Gpus : Lost(c, queue[g], queue'[g])
  <2> SUFFICES ASSUME NEW g \in Gpus
               PROVE  Lost(c, queue[g], queue'[g])
    OBVIOUS
  <2>1. /\ queue[g] \in Seq(Command) /\ Once(queue[g])
        /\ g \in lost => Has(queue[g], c)
    BY <1>1 DEF IInv, TypeOK, Posted
  <2>2. CASE g \in lost
    BY <2>1, <2>2, <1>1, DroppedIsLost
  <2>3. CASE g \notin lost
    BY <2>1, <2>3, <1>1, DisownedIsLost
  <2> QED
    BY <2>2, <2>3
<1>4. Leaves(c, Gpus)
  <2>1. \A g \in Gpus : queue'[g] \in Seq(Command)
    BY <1>3 DEF Lost
  <2>2. queue' \in [Gpus -> Seq(Command)]
    BY <2>1, <1>1
  <2> QED
    BY <2>2, <1>2, <1>3 DEF Leaves, IInv, TypeOK
<1>5. Idle \in [tier : Tiers, target : Points, old : Reached \cup {NoPoint},
                ok : BOOLEAN, waits : SUBSET Gpus] /\ Idle.waits = {}
  BY PointTypes DEF Idle, Tiers, Points
<1>6. \A d \in Calls : call'[d] = IF d = c THEN Idle ELSE call[d]
  BY <1>2 DEF IInv, TypeOK
<1>7. TypeOK'
  BY <1>2, <1>4, <1>5 DEF IInv, TypeOK, Leaves
<1>8. Posted'
  <2> SUFFICES ASSUME NEW g \in Gpus
               PROVE  /\ Once(queue'[g])
                      /\ \A d \in Calls : Has(queue'[g], d) <=> g \in call'[d].waits
    BY DEF Posted
  <2>1. /\ Once(queue'[g])
        /\ \A d \in Calls : Has(queue'[g], d) <=> g \in call[d].waits /\ ~(d = c /\ g \in Gpus)
    BY <1>4, LeavesPosted
  <2> QED
    BY <2>1, <1>5, <1>6
<1>9. Aims' /\ Settled'
  BY <1>2, <1>5, <1>6 DEF IInv, Aims, InFlight, Settled
<1>10. SafeWithoutRivals'
  BY <1>2, <1>4, LeavesCovered
<1>11. Ordered'
  <2> SUFFICES ASSUME ~rivals, NEW d \in Calls, Current(d)'
               PROVE  Latest(d)' /\ \A e \in Calls : Current(e)' => e = d
    BY <1>2 DEF Ordered
  <2>1. d # c /\ Current(d) /\ \A e \in Calls : Current(e)' => Current(e)
    BY <1>2, <1>5, <1>6 DEF Current, InFlight
  <2>2. Latest(d) /\ \A e \in Calls : Current(e)' => e = d
    BY <2>1 DEF IInv, Ordered
  <2> QED
    BY <2>1, <2>2, <1>2, <1>4, <1>6, LeavesLatest
<1> QED
  BY <1>7, <1>8, <1>9, <1>10, <1>11 DEF IInv

\* Every step keeps the invariant.
LEMMA NextIInv == IInv /\ [Next]_vars => IInv'
<1> SUFFICES ASSUME IInv, [Next]_vars
             PROVE  IInv'
  OBVIOUS
<1>1. ASSUME NEW c \in Calls, NEW t \in Tiers, NEW p \in Targets(t), Begin(c, t, p)
      PROVE  IInv'
  BY <1>1, BeginIInv
<1>2. ASSUME NEW g \in Gpus, Execute(g)
      PROVE  IInv'
  BY <1>2, ExecuteIInv
<1>3. ASSUME NEW c \in Calls, Cancel(c)
      PROVE  IInv'
  BY <1>3, CancelIInv
<1>4. ASSUME NEW c \in Calls, NEW g \in Gpus, NoAnswer(c, g)
      PROVE  IInv'
  BY <1>4, NoAnswerIInv
<1>5. CASE UNCHANGED vars
  BY <1>5 DEF vars, IInv, TypeOK, Posted, Aims, InFlight, Ordered, Current, Latest, LastPosted,
              AtTarget, SafeWithoutRivals, PointIsSafe, Covered, Settled
<1> QED
  BY <1>1, <1>2, <1>3, <1>4, <1>5 DEF Next

\* The inductive invariant holds.
LEMMA AlwaysIInv == Spec => []IInv
BY InitIInv, NextIInv, PTL DEF Spec

-----------------------------------------------------------------------------
\* Group.effective never promises a clock the GPUs lack or are about to lose, unless two
\* calls of one tier overlap: not through refused, lost or late commands, time-outs,
\* cancelled calls or overlapping calls of different tiers (set_tier).
THEOREM NeverTooFast == Spec => []SafeWithoutRivals
<1>1. IInv => SafeWithoutRivals
  BY DEF IInv
<1> QED
  BY <1>1, AlwaysIInv, PTL

\* A group whose calls are over, none of them cancelled, has a point of its tier or an
\* entry in _retry (set_tier).
THEOREM FailuresRemembered == Spec => []FailuresRetried
<1>1. IInv => FailuresRetried
  BY DEF IInv, Settled, FailuresRetried, Current
<1> QED
  BY <1>1, AlwaysIInv, PTL
-----------------------------------------------------------------------------
(***************************************************************************)
(* The plan (Planner).                                                      *)
(***************************************************************************)

Caps == Nat \cup {None}

LEMMA PlannerOperators ==
  /\ \A T : PL!Max(T) = Max(T) /\ PL!Min(T) = Min(T)
  /\ \A q : PL!Range(q) = Range(q) /\ PL!Last(q) = Last(q)
<1>1. \A T : PL!Max(T) = Max(T) /\ PL!Min(T) = Min(T)
  BY DEF PL!Max, Max, PL!Min, Min
<1>2. \A q : PL!Range(q) = Range(q) /\ PL!Last(q) = Last(q)
  BY DEF PL!Range, Range, PL!Last, Last
<1> QED BY <1>1, <1>2

LEMMA LargestRate ==
  /\ Max(Rates) \in Nat
  /\ \A r \in Rates : r \in Nat /\ r <= Max(Rates)
<1>1. Rates \in SUBSET Int /\ IsFiniteSet(Rates) /\ Rates # {} /\ Rates \subseteq Nat
  BY PlannerAssumption
<1> QED BY <1>1, MaxIsLargest

\* The use of a decode GPU is infinite only where it is no number.
LEMMA InfiniteIs ==
  /\ PL!Infinite \in Nat
  /\ \A r \in 0..Max(Rates), f \in DClocks :
       100 * (r * (Tokens * Alpha[f])) <= PL!Infinite
<1>1. Max({Work[f] : f \in PClocks}) \in Nat
  <2>1. \A f \in PClocks : Work[f] \in Int /\ Work[f] >= 0
    BY PlannerAssumption
  <2>2. IsFiniteSet(PClocks) /\ PClocks # {}
    BY PlannerAssumption
  <2>3. Max({Work[f] : f \in PClocks}) \in Int
    BY <2>1, <2>2, MaxOfImage
  <2>4. \A f \in PClocks : Work[f] <= Max({Work[x] : x \in PClocks})
    BY <2>1, <2>2, MaxOfImage
  <2>5. PICK f \in PClocks : TRUE
    BY <2>2
  <2> QED BY <2>1, <2>3, <2>4, <2>5
<1>2. /\ Max({Alpha[f] : f \in DClocks}) \in Nat
      /\ \A f \in DClocks : Alpha[f] <= Max({Alpha[x] : x \in DClocks})
  <2>1. \A f \in DClocks : Alpha[f] \in Int /\ Alpha[f] >= 0
    BY PlannerAssumption
  <2>2. IsFiniteSet(DClocks) /\ DClocks # {}
    BY PlannerAssumption
  <2>3. Max({Alpha[f] : f \in DClocks}) \in Int
    BY <2>1, <2>2, MaxOfImage
  <2>4. \A f \in DClocks : Alpha[f] <= Max({Alpha[x] : x \in DClocks})
    BY <2>1, <2>2, MaxOfImage
  <2>5. PICK f \in DClocks : TRUE
    BY <2>2
  <2> QED BY <2>1, <2>3, <2>4, <2>5
<1> DEFINE W == Max({Work[f] : f \in PClocks})
           A == Max({Alpha[f] : f \in DClocks})
           M == Max(Rates)
<1>3. PL!Infinite = 100 * (M + 1) * (W + Tokens * A + 1)
  BY PlannerOperators DEF PL!Infinite
<1> HIDE DEF W, A, M
<1>4. M \in Nat /\ W \in Nat /\ A \in Nat /\ Tokens \in Nat
  BY <1>1, <1>2, LargestRate, PlannerAssumption DEF W, A, M
<1>5. Tokens * A \in Nat
  BY <1>4
<1>6. ASSUME NEW r \in 0..M, NEW f \in DClocks
      PROVE  100 * (r * (Tokens * Alpha[f])) <= PL!Infinite
  <2>1. Alpha[f] \in Nat /\ Alpha[f] <= A
    BY <1>2, PlannerAssumption DEF A
  <2> DEFINE a == Alpha[f]
             t == Tokens * a
             T == Tokens * A
             X == W + T + 1
  <2> HIDE DEF a
  <2>2. t \in Nat /\ t <= T /\ T \in Nat
    <3>1. a \in Nat /\ a <= A
      BY <2>1 DEF a
    <3> QED BY <3>1, <1>4
  <2> HIDE DEF t, T
  <2>3. t <= X /\ X \in Nat /\ r \in Nat /\ r <= M + 1 /\ M + 1 \in Nat
    BY <2>2, <1>4
  <2> HIDE DEF X
  <2>4. r * t <= (M + 1) * t
    BY <2>2, <2>3
  <2>5. (M + 1) * t <= (M + 1) * X
    BY <2>2, <2>3
  <2>6. r * t \in Int /\ (M + 1) * t \in Int /\ (M + 1) * X \in Int
    BY <2>2, <2>3
  <2>7. 100 * (r * t) <= 100 * ((M + 1) * X)
    BY <2>4, <2>5, <2>6
  <2>8. PL!Infinite = 100 * ((M + 1) * X)
    BY <1>3, <1>4, <2>2, <2>3 DEF X, T
  <2> QED BY <2>7, <2>8 DEF t, a
<1>7. PL!Infinite \in Nat
  <2>1. M + 1 \in Nat /\ W + Tokens * A + 1 \in Nat
    BY <1>4, <1>5
  <2> QED BY <1>3, <2>1
<1> QED BY <1>6, <1>7 DEF M
-----------------------------------------------------------------------------
\* The constants at a point.
LEMMA PointFacts ==
  ASSUME NEW pt \in PL!Points
  PROVE  /\ pt[1] \in PClocks /\ pt[2] \in DClocks /\ pt = <<pt[1], pt[2]>>
         /\ Work[pt[1]] \in Nat /\ Alpha[pt[2]] \in Nat /\ Delta[pt[2]] \in Nat
         /\ Running[pt[2]] \in Nat /\ Running[pt[2]] > 0
         /\ Tokens \in Nat
<1>1. pt[1] \in PClocks /\ pt[2] \in DClocks /\ pt = <<pt[1], pt[2]>>
  BY DEF PL!Points
<1>2. Running[pt[2]] \in Nat \ {0}
  BY <1>1, PlannerAssumption
<1> QED BY <1>1, <1>2, PlannerAssumption

\* The running sequences grow with the rate, up to where D is saturated.
LEMMA DecodeGrows ==
  ASSUME NEW pt \in PL!Points, NEW q \in Nat, NEW r \in Nat, q <= r
  PROVE  /\ PL!Saturated(q, pt) => PL!Saturated(r, pt)
         /\ ~PL!Saturated(r, pt) =>
              /\ PL!RunningPct(q, pt) \in Nat /\ PL!RunningPct(r, pt) \in Nat
              /\ PL!RunningPct(q, pt) <= PL!RunningPct(r, pt)
              /\ PL!RunningPct(r, pt) <= 100 * (r * (Tokens * Alpha[pt[2]]))
<1> DEFINE A == Tokens * Alpha[pt[2]]
           D == Tokens * Delta[pt[2]]
<1>1. A \in Nat /\ D \in Nat
  BY PointFacts
<1>2. \A x \in Nat : /\ x * Tokens * Delta[pt[2]] = x * D
                     /\ 100 * x * Tokens * Alpha[pt[2]] = 100 * (x * A)
  <2>1. Tokens \in Nat /\ Alpha[pt[2]] \in Nat /\ Delta[pt[2]] \in Nat
    BY PointFacts
  <2> SUFFICES ASSUME NEW x \in Nat
               PROVE  /\ x * Tokens * Delta[pt[2]] = x * D
                      /\ 100 * x * Tokens * Alpha[pt[2]] = 100 * (x * A)
    OBVIOUS
  <2> DEFINE t == Tokens
             a == Alpha[pt[2]]
             d == Delta[pt[2]]
  <2>2. t \in Nat /\ a \in Nat /\ d \in Nat
    BY <2>1
  <2>3. A = t * a /\ D = t * d
    OBVIOUS
  <2> SUFFICES x * t * d = x * D /\ 100 * x * t * a = 100 * (x * A)
    OBVIOUS
  <2> HIDE DEF t, a, d, A, D
  <2>4. x * t * d = x * (t * d) /\ 100 * x * t * a = 100 * (x * (t * a))
    BY <2>2
  <2> QED BY <2>3, <2>4
<1>3. \A x \in Nat : /\ PL!Saturated(x, pt) <=> x * D >= 1000
                     /\ PL!RunningPct(x, pt) = (100 * (x * A)) \div (1000 - x * D)
  BY <1>2 DEF PL!Saturated, PL!RunningPct
<1> HIDE DEF A, D
<1>4. q * D <= r * D /\ q * A <= r * A /\ q * D \in Nat /\ r * D \in Nat
        /\ q * A \in Nat /\ r * A \in Nat
  BY <1>1
<1>5. ASSUME ~PL!Saturated(r, pt)
      PROVE  /\ PL!RunningPct(q, pt) \in Nat /\ PL!RunningPct(r, pt) \in Nat
             /\ PL!RunningPct(q, pt) <= PL!RunningPct(r, pt)
             /\ PL!RunningPct(r, pt) <= 100 * (r * A)
  <2> DEFINE x == 100 * (q * A)
             y == 100 * (r * A)
             d == 1000 - q * D
             e == 1000 - r * D
  <2>1. x \in Nat /\ y \in Nat /\ d \in Nat /\ e \in Nat /\ 0 < e /\ e <= d /\ x <= y
    BY <1>3, <1>4, <1>5
  <2>2. PL!RunningPct(q, pt) = x \div d /\ PL!RunningPct(r, pt) = y \div e
    BY <1>3
  <2> HIDE DEF x, y, d, e
  <2>3. x \div d \in Nat /\ y \div e \in Nat /\ x \div d <= y \div e
    BY <2>1, QuotientGrows
  <2>4. y \div e <= y \div 1
    BY <2>1, QuotientGrows
  <2>5. y \div 1 = y
    BY <2>1
  <2> QED BY <2>2, <2>3, <2>4, <2>5 DEF y
<1>6. PL!Saturated(q, pt) => PL!Saturated(r, pt)
  BY <1>3, <1>4
<1> QED BY <1>5, <1>6 DEF A

LEMMA UseDGrows ==
  ASSUME NEW pt \in PL!Points, NEW q \in Nat, NEW r \in Nat, q <= r, r <= Max(Rates)
  PROVE  PL!UseD(q, pt) \in Nat /\ PL!UseD(r, pt) \in Nat /\ PL!UseD(q, pt) <= PL!UseD(r, pt)
<1> DEFINE run == Running[pt[2]]
<1>1. run \in Nat /\ run > 0
  BY PointFacts
<1> HIDE DEF run
<1>2. \A x \in Nat : PL!UseD(x, pt) = IF PL!Saturated(x, pt) THEN PL!Infinite
                                      ELSE PL!RunningPct(x, pt) \div run
  BY DEF PL!UseD, run
<1>3. ASSUME NEW x \in Nat, x <= Max(Rates), ~PL!Saturated(x, pt)
      PROVE  /\ PL!RunningPct(x, pt) \div run \in Nat
             /\ PL!RunningPct(x, pt) \div run <= PL!Infinite
  <2> DEFINE z == PL!RunningPct(x, pt)
  <2>1. z \in Nat /\ z <= 100 * (x * (Tokens * Alpha[pt[2]]))
    BY <1>3, DecodeGrows
  <2>2. 100 * (x * (Tokens * Alpha[pt[2]])) <= PL!Infinite
    <3>1. x \in 0..Max(Rates) /\ pt[2] \in DClocks
      BY <1>3, LargestRate, PointFacts
    <3> QED BY <3>1, InfiniteIs
  <2>3. 100 * (x * (Tokens * Alpha[pt[2]])) \in Nat
    BY PointFacts
  <2> HIDE DEF z
  <2>4. z \div run \in Nat /\ z \div run <= z \div 1 /\ z \div 1 = z
    <3>1. 1 <= run
      BY <1>1
    <3>2. z \div run \in Nat /\ z \div run <= z \div 1
      BY <1>1, <2>1, <3>1, QuotientGrows
    <3> QED BY <2>1, <3>2
  <2>5. z \div run <= PL!Infinite
    BY <2>1, <2>2, <2>3, <2>4, InfiniteIs
  <2> QED BY <2>4, <2>5 DEF z
<1>4. CASE PL!Saturated(r, pt)
  BY <1>2, <1>3, <1>4, InfiniteIs, LargestRate
<1>5. CASE ~PL!Saturated(r, pt)
  <2>1. ~PL!Saturated(q, pt)
    BY <1>5, DecodeGrows
  <2> DEFINE x == PL!RunningPct(q, pt)
             y == PL!RunningPct(r, pt)
  <2>2. x \in Nat /\ y \in Nat /\ x <= y
    BY <1>5, DecodeGrows
  <2>3. PL!UseD(q, pt) = x \div run /\ PL!UseD(r, pt) = y \div run
    BY <1>2, <1>5, <2>1
  <2> HIDE DEF x, y
  <2> QED BY <1>1, <2>2, <2>3, QuotientGrows
<1> QED BY <1>4, <1>5

LEMMA UsePGrows ==
  ASSUME NEW pt \in PL!Points, NEW q \in Nat, NEW r \in Nat, q <= r
  PROVE  PL!UseP(q, pt) \in Nat /\ PL!UseP(r, pt) \in Nat /\ PL!UseP(q, pt) <= PL!UseP(r, pt)
<1> DEFINE w == Work[pt[1]]
<1>1. w \in Nat
  BY PointFacts
<1>2. PL!UseP(q, pt) = q * w /\ PL!UseP(r, pt) = r * w
  BY DEF PL!UseP
<1> HIDE DEF w
<1> QED BY <1>1, <1>2

\* A group that carries a rate carries a lower one.
LEMMA FeasibleDown ==
  ASSUME NEW pt \in PL!Points, NEW cap \in Caps, NEW q \in Nat, NEW r \in Nat, q <= r,
         PL!Feasible(r, pt, cap)
  PROVE  PL!Feasible(q, pt, cap)
<1>1. PL!UseP(q, pt) <= 100
  <2>1. PL!UseP(r, pt) <= 100
    BY DEF PL!Feasible
  <2> QED BY <2>1, UsePGrows
<1>2. ~PL!Saturated(r, pt) /\ ~PL!Saturated(q, pt)
  <2>1. ~PL!Saturated(r, pt)
    BY DEF PL!Feasible
  <2> QED BY <2>1, DecodeGrows
<1>3. PL!UseD(q, pt) <= 100
  <2> DEFINE x == PL!RunningPct(q, pt)
             y == PL!RunningPct(r, pt)
             run == Running[pt[2]]
  <2>1. x \in Nat /\ y \in Nat /\ x <= y
    BY <1>2, DecodeGrows
  <2>2. run \in Nat /\ run > 0
    BY PointFacts
  <2>3. PL!UseD(q, pt) = x \div run /\ PL!UseD(r, pt) = y \div run
    BY <1>2 DEF PL!UseD
  <2>4. PL!UseD(r, pt) <= 100
    BY DEF PL!Feasible
  <2> HIDE DEF x, y, run
  <2>5. x \div run \in Nat /\ y \div run \in Nat /\ x \div run <= y \div run
    BY <2>1, <2>2, QuotientGrows
  <2> QED BY <2>3, <2>4, <2>5
<1>4. PL!CapKept(q, cap)
  <2>1. PL!CapKept(r, cap)
    BY DEF PL!Feasible
  <2>2. cap # None => cap \in Nat
    BY DEF Caps
  <2> QED BY <2>1, <2>2 DEF PL!CapKept
<1> QED BY <1>1, <1>2, <1>3, <1>4 DEF PL!Feasible

\* A capacity that is not zero can be carried.
LEMMA CapacityFacts ==
  ASSUME NEW pt \in PL!Points, NEW cap \in Caps
  PROVE  /\ PL!CapacityOf(pt, cap) \in Nat
         /\ PL!CapacityOf(pt, cap) = 0 \/ PL!Feasible(PL!CapacityOf(pt, cap), pt, cap)
<1> DEFINE C == {0} \cup {r \in 0..PL!Plenty : PL!Feasible(r, pt, cap)}
<1>1. PL!Plenty \in Nat
  BY PlannerOperators, LargestRate DEF PL!Plenty
<1>2. C \in SUBSET (0..PL!Plenty) /\ 0 \in C
  BY <1>1
<1>3. IsFiniteSet(C)
  <2>1. IsFiniteSet(0..PL!Plenty)
    BY <1>1, FS_Interval
  <2> HIDE DEF C
  <2> QED BY <1>2, <2>1, FS_Subset
<1>4. Max(C) \in C
  <2>1. C \in SUBSET Int /\ C # {}
    BY <1>1, <1>2
  <2> HIDE DEF C
  <2> QED BY <1>3, <2>1, MaxIsLargest
<1>5. PL!CapacityOf(pt, cap) = Max(C)
  BY PlannerOperators DEF PL!CapacityOf
<1>6. C \subseteq Nat /\ \A c \in C : c = 0 \/ PL!Feasible(c, pt, cap)
  BY <1>1
<1> HIDE DEF C
<1> QED BY <1>4, <1>5, <1>6
-----------------------------------------------------------------------------
(***************************************************************************)
(* Solver.capacity finds the largest feasible rate: what the two loops      *)
(* compute, for F the feasible rates.                                       *)
(***************************************************************************)

\* The rate is doubled while it is feasible, up to a bound.
Doubling(F, M, f) ==
  f = [hi \in Nat |-> IF hi \in F /\ hi <= M THEN f[2 * hi] ELSE hi]

\* What is between is halved.
Bisecting(F, s) ==
  s = [w \in Nat \X Nat |->
         IF w[2] - w[1] <= 1 THEN w[1]
         ELSE IF (w[1] + w[2]) \div 2 \in F THEN s[<<(w[1] + w[2]) \div 2, w[2]>>]
              ELSE s[<<w[1], (w[1] + w[2]) \div 2>>]]

\* The largest feasible rate from lo up to below hi, lo if there is none.
Largest(F, lo, hi) == Max({lo} \cup {r \in lo..(hi - 1) : r \in F})

\* Doubling comes to an end.
LEMMA DoublingExists ==
  ASSUME NEW F, NEW M \in Nat
  PROVE  \E f : Doubling(F, M, f)
<1> DEFINE Next1(g, i) == IF i \in F /\ i <= M THEN g[2 * i] ELSE i
           From(g, n) == \A i \in Nat : i >= n /\ i > 0 => g[i] = Next1(g, i)
           Good(n) == \E g : From(g, n)
           G == {n \in 0..(M + 1) : Good(n)}
<1>1. ASSUME NEW n \in 0..(M + 1), \A k \in (n + 1)..(M + 1) : k \in G PROVE n \in G
  <2>1. CASE n = M + 1
    <3> DEFINE g == [i \in Nat |-> i]
    <3>1. From(g, n)
      BY <2>1
    <3> HIDE DEF g, From
    <3> QED BY <3>1
  <2>2. CASE n # M + 1
    <3>1. n + 1 \in G
      <4> HIDE DEF G
      <4> QED BY <1>1, <2>2
    <3>2. PICK g : From(g, n + 1)
      <4> HIDE DEF From
      <4> QED BY <3>1
    <3> DEFINE f == [i \in Nat |-> IF i = n THEN Next1(g, n) ELSE g[i]]
    <3>3. ASSUME NEW i \in Nat, i >= n, i > 0 PROVE f[i] = Next1(f, i)
      <4>1. 2 * i \in Nat /\ 2 * i # n
        BY <3>3
      <4>2. f[2 * i] = g[2 * i]
        BY <4>1
      <4>3. f[i] = Next1(g, i)
        <5>1. CASE i = n
          BY <5>1
        <5>2. CASE i # n
          <6>1. f[i] = g[i] /\ i >= n + 1
            BY <3>3, <5>2
          <6> HIDE DEF f, Next1
          <6> QED BY <3>2, <3>3, <6>1
        <5> QED BY <5>1, <5>2
      <4> HIDE DEF f
      <4> QED BY <4>2, <4>3
    <3>4. From(f, n)
      <4> HIDE DEF f, Next1
      <4> QED BY <3>3
    <3> HIDE DEF f, From
    <3> QED BY <3>4
  <2> QED BY <2>1, <2>2
<1>2. 0..(M + 1) \subseteq G
  <2> HIDE DEF G
  <2>1. M + 1 \in Nat
    OBVIOUS
  <2> QED BY <1>1, <2>1, CountingDown
<1>3. PICK g : From(g, 0)
  <2>1. 0 \in G
    BY <1>2
  <2> HIDE DEF From
  <2> QED BY <2>1
<1> DEFINE f == [i \in Nat |-> IF i = 0 THEN 0 ELSE g[i]]
<1>4. ASSUME NEW i \in Nat PROVE f[i] = IF i \in F /\ i <= M THEN f[2 * i] ELSE i
  <2>1. CASE i = 0
    <3>1. f[0] = 0 /\ 2 * 0 = 0
      OBVIOUS
    <3> HIDE DEF f
    <3> QED BY <2>1, <3>1
  <2>2. CASE i # 0
    <3>1. f[i] = g[i] /\ f[2 * i] = g[2 * i]
      BY <2>2
    <3>2. g[i] = IF i \in F /\ i <= M THEN g[2 * i] ELSE i
      BY <1>3, <2>2
    <3> HIDE DEF f
    <3> QED BY <3>1, <3>2
  <2> QED BY <2>1, <2>2
<1>5. f = [hi \in Nat |-> IF hi \in F /\ hi <= M THEN f[2 * hi] ELSE hi]
  <2>1. f = [i \in Nat |-> f[i]]
    OBVIOUS
  <2> HIDE DEF f
  <2> QED BY <1>4, <2>1
<1> HIDE DEF f
<1> QED BY <1>5 DEF Doubling

\* It ends above a rate that is not feasible, or above the bound.
LEMMA DoublingFacts ==
  ASSUME NEW F, NEW M \in Nat, NEW f, Doubling(F, M, f)
  PROVE  f[1] \in Nat /\ f[1] >= 1 /\ (f[1] \notin F \/ f[1] > M)
<1> DEFINE Over(n) == f[n] \in Nat /\ f[n] >= 1 /\ (f[n] \notin F \/ f[n] > M)
           G == {n \in 0..(M + 1) : n > 0 => Over(n)}
<1>1. \A n \in Nat : f[n] = IF n \in F /\ n <= M THEN f[2 * n] ELSE n
  BY DEF Doubling
<1>2. ASSUME NEW n \in 0..(M + 1), \A k \in (n + 1)..(M + 1) : k \in G PROVE n \in G
  <2>1. SUFFICES ASSUME n > 0 PROVE Over(n)
    OBVIOUS
  <2>2. CASE n \in F /\ n <= M
    <3>1. f[n] = f[2 * n]
      BY <1>1, <2>2
    <3>2. CASE 2 * n <= M + 1
      <4>1. 2 * n \in (n + 1)..(M + 1) /\ 2 * n > 0
        BY <2>1, <3>2
      <4>2. 2 * n \in G
        <5> HIDE DEF G
        <5> QED BY <1>2, <4>1
      <4> QED BY <3>1, <4>1, <4>2
    <3>3. CASE 2 * n > M + 1
      <4>1. f[2 * n] = 2 * n
        BY <1>1, <3>3
      <4> QED BY <2>1, <3>1, <3>3, <4>1
    <3> QED BY <3>2, <3>3
  <2>3. CASE ~(n \in F /\ n <= M)
    <3>1. f[n] = n
      BY <1>1, <2>3
    <3> QED BY <2>1, <2>3, <3>1
  <2> QED BY <2>2, <2>3
<1>3. 0..(M + 1) \subseteq G
  <2> HIDE DEF G
  <2>1. M + 1 \in Nat
    OBVIOUS
  <2> QED BY <1>2, <2>1, CountingDown
<1>4. 1 \in G
  BY <1>3
<1> QED BY <1>4

\* The largest is feasible or lo, and nothing feasible is above it.
LEMMA LargestFacts ==
  ASSUME NEW F, NEW lo \in Nat, NEW hi \in Nat
  PROVE  LET m == Largest(F, lo, hi) IN
         /\ m \in Nat /\ m >= lo
         /\ m = lo \/ (m \in F /\ m < hi)
         /\ \A r \in Nat : r >= lo /\ r < hi /\ r \in F => r <= m
<1> DEFINE S == {lo} \cup {r \in lo..(hi - 1) : r \in F}
<1>1. S \in SUBSET (lo..(hi - 1) \cup {lo}) /\ S \in SUBSET Int /\ S # {}
  OBVIOUS
<1>2. IsFiniteSet(S)
  <2>1. IsFiniteSet(lo..(hi - 1))
    BY FS_Interval
  <2>2. IsFiniteSet(lo..(hi - 1) \cup {lo})
    BY <2>1, FS_Singleton, FS_Union
  <2> HIDE DEF S
  <2> QED BY <1>1, <2>2, FS_Subset
<1>3. Max(S) \in S /\ \A x \in S : x <= Max(S)
  <2> HIDE DEF S
  <2> QED BY <1>1, <1>2, MaxIsLargest
<1>4. Largest(F, lo, hi) = Max(S)
  BY DEF Largest
<1>5. /\ \A x \in S : x \in Nat /\ x >= lo /\ (x = lo \/ (x \in F /\ x < hi))
      /\ \A r \in Nat : r >= lo /\ r < hi /\ r \in F => r \in S
  OBVIOUS
<1> HIDE DEF S
<1> QED BY <1>3, <1>4, <1>5

\* The largest up to M.
LEMMA LargestBelow ==
  ASSUME NEW F, NEW M \in Nat
  PROVE  Largest(F, 0, M + 1) = Max({0} \cup {r \in 0..M : r \in F})
<1>1. {r \in 0..(M + 1 - 1) : r \in F} = {r \in 0..M : r \in F}
  OBVIOUS
<1> QED BY <1>1 DEF Largest

\* Only one number is.
LEMMA LargestIs ==
  ASSUME NEW F, NEW lo \in Nat, NEW hi \in Nat, NEW m \in Nat, m >= lo,
         m = lo \/ (m \in F /\ m < hi),
         \A r \in Nat : r >= lo /\ r < hi /\ r \in F => r <= m
  PROVE  Largest(F, lo, hi) = m
<1> DEFINE x == Largest(F, lo, hi)
<1>1. /\ x \in Nat /\ x >= lo
      /\ x = lo \/ (x \in F /\ x < hi)
      /\ \A r \in Nat : r >= lo /\ r < hi /\ r \in F => r <= x
  BY LargestFacts
<1> HIDE DEF x
<1>2. x <= m
  BY <1>1
<1>3. m <= x
  BY <1>1
<1>4. x = m
  BY <1>1, <1>2, <1>3
<1> QED BY <1>4 DEF x

\* Where F is closed downwards, the middle tells in which half the largest is.
LEMMA LargestHalf ==
  ASSUME NEW F, \A q, r \in Nat : q <= r /\ r \in F => q \in F,
         NEW lo \in Nat, NEW hi \in Nat, NEW mid \in Nat, lo < mid, mid < hi
  PROVE  Largest(F, lo, hi) = IF mid \in F THEN Largest(F, mid, hi) ELSE Largest(F, lo, mid)
<1>1. CASE mid \in F
  <2> DEFINE m == Largest(F, mid, hi)
  <2>1. /\ m \in Nat /\ m >= mid
        /\ m = mid \/ (m \in F /\ m < hi)
        /\ \A r \in Nat : r >= mid /\ r < hi /\ r \in F => r <= m
    BY LargestFacts
  <2> HIDE DEF m
  <2>2. m >= lo /\ m \in F /\ m < hi
    BY <1>1, <2>1
  <2>3. \A r \in Nat : r >= lo /\ r < hi /\ r \in F => r <= m
    BY <2>1
  <2>4. Largest(F, lo, hi) = m
    BY <2>1, <2>2, <2>3, LargestIs
  <2> QED BY <1>1, <2>4 DEF m
<1>2. CASE mid \notin F
  <2> DEFINE m == Largest(F, lo, mid)
  <2>1. /\ m \in Nat /\ m >= lo
        /\ m = lo \/ (m \in F /\ m < mid)
        /\ \A r \in Nat : r >= lo /\ r < mid /\ r \in F => r <= m
    BY LargestFacts
  <2> HIDE DEF m
  <2>2. m = lo \/ (m \in F /\ m < hi)
    BY <2>1
  <2>3. \A r \in Nat : r >= lo /\ r < hi /\ r \in F => r <= m
    BY <1>2, <2>1
  <2>4. Largest(F, lo, hi) = m
    BY <2>1, <2>2, <2>3, LargestIs
  <2> QED BY <1>2, <2>4 DEF m
<1> QED BY <1>1, <1>2

\* The middle of two numbers that are not next to each other is between them.
LEMMA MiddleIs ==
  ASSUME NEW lo \in Nat, NEW hi \in Nat, hi - lo > 1
  PROVE  LET mid == (lo + hi) \div 2 IN mid \in Nat /\ lo < mid /\ mid < hi
<1> DEFINE x == lo + hi
<1>1. x \in Nat /\ x >= 2 * lo + 2 /\ x <= 2 * hi - 2
  OBVIOUS
<1> HIDE DEF x
<1>2. /\ x \div 2 \in Nat /\ 2 * (x \div 2) <= x /\ x < 2 * (x \div 2) + 2
  BY <1>1
<1> DEFINE mid == x \div 2
<1> HIDE DEF mid
<1>3. mid \in Nat /\ 2 * mid <= x /\ x < 2 * mid + 2
  BY <1>2 DEF mid
<1>4. lo < mid /\ mid < hi
  BY <1>1, <1>3
<1> QED BY <1>3, <1>4 DEF mid, x

\* One step of the bisection, when the searches of the halves give x and y.
Halved(F, lo, hi, x, y) ==
  IF hi - lo <= 1 THEN lo ELSE IF (lo + hi) \div 2 \in F THEN x ELSE y

\* The largest is what the step makes of the halves' largest.
LEMMA LargestHalved ==
  ASSUME NEW F, \A q, r \in Nat : q <= r /\ r \in F => q \in F,
         NEW lo \in Nat, NEW hi \in Nat
  PROVE  Largest(F, lo, hi) = Halved(F, lo, hi, Largest(F, (lo + hi) \div 2, hi),
                                                Largest(F, lo, (lo + hi) \div 2))
<1>1. CASE hi - lo <= 1
  <2>1. \A r \in Nat : r >= lo /\ r < hi /\ r \in F => r <= lo
    BY <1>1
  <2>2. lo >= lo /\ (lo = lo \/ (lo \in F /\ lo < hi))
    OBVIOUS
  <2>3. Largest(F, lo, hi) = lo
    BY <2>1, <2>2, LargestIs
  <2> QED BY <1>1, <2>3 DEF Halved
<1>2. CASE ~(hi - lo <= 1)
  <2> DEFINE mid == (lo + hi) \div 2
  <2>1. hi - lo > 1
    BY <1>2
  <2>2. mid \in Nat /\ lo < mid /\ mid < hi
    BY <2>1, MiddleIs
  <2>3. Largest(F, lo, hi) = IF mid \in F THEN Largest(F, mid, hi) ELSE Largest(F, lo, mid)
    <3> HIDE DEF mid
    <3> QED BY <2>2, LargestHalf
  <2> QED BY <1>2, <2>3 DEF Halved
<1> QED BY <1>1, <1>2

\* The bisection is the step, over and over.
LEMMA BisectingIs ==
  ASSUME NEW F, NEW s
  PROVE  Bisecting(F, s) <=>
           s = [w \in Nat \X Nat |-> Halved(F, w[1], w[2], s[<<(w[1] + w[2]) \div 2, w[2]>>],
                                                           s[<<w[1], (w[1] + w[2]) \div 2>>])]
BY DEF Bisecting, Halved

\* There is such a function: the one that gives the largest.
LEMMA BisectingExists ==
  ASSUME NEW F, \A q, r \in Nat : q <= r /\ r \in F => q \in F
  PROVE  \E s : Bisecting(F, s)
<1> DEFINE s == [w \in Nat \X Nat |-> Largest(F, w[1], w[2])]
           To(w) == Halved(F, w[1], w[2], s[<<(w[1] + w[2]) \div 2, w[2]>>],
                                          s[<<w[1], (w[1] + w[2]) \div 2>>])
<1>1. ASSUME NEW w \in Nat \X Nat PROVE s[w] = To(w)
  <2> DEFINE lo == w[1]
             hi == w[2]
             mid == (lo + hi) \div 2
  <2>1. lo \in Nat /\ hi \in Nat /\ s[w] = Largest(F, lo, hi)
    OBVIOUS
  <2>2. mid \in Nat
    <3>1. lo + hi \in Nat
      BY <2>1
    <3> HIDE DEF lo, hi
    <3> QED BY <3>1
  <2>3. Largest(F, lo, hi) = Halved(F, lo, hi, Largest(F, mid, hi), Largest(F, lo, mid))
    <3> HIDE DEF lo, hi
    <3> QED BY <2>1, LargestHalved
  <2>4. s[<<mid, hi>>] = Largest(F, mid, hi) /\ s[<<lo, mid>>] = Largest(F, lo, mid)
    <3> HIDE DEF lo, hi, mid
    <3> QED BY <2>1, <2>2
  <2>5. To(w) = Halved(F, lo, hi, s[<<mid, hi>>], s[<<lo, mid>>])
    <3> HIDE DEF s
    <3> QED OBVIOUS
  <2> HIDE DEF s, To, lo, hi, mid
  <2> QED BY <2>1, <2>3, <2>4, <2>5
<1>2. s = [w \in Nat \X Nat |-> s[w]]
  OBVIOUS
<1>3. s = [w \in Nat \X Nat |-> To(w)]
  <2> HIDE DEF s, To
  <2> QED BY <1>1, <1>2
<1>4. Bisecting(F, s)
  <2> HIDE DEF s
  <2> QED BY <1>3, BisectingIs
<1> HIDE DEF s
<1> QED BY <1>4

\* And every such function does.
LEMMA BisectingFacts ==
  ASSUME NEW F, \A q, r \in Nat : q <= r /\ r \in F => q \in F,
         NEW s, Bisecting(F, s), NEW top \in Nat
  PROVE  s[<<0, top>>] = Largest(F, 0, top)
<1> DEFINE Right(lo, hi) == s[<<lo, hi>>] = Largest(F, lo, hi)
           Good(n) == \A lo, hi \in Nat : hi - lo <= n => Right(lo, hi)
           G == {n \in 0..top : Good(n)}
<1>1. ASSUME NEW lo \in Nat, NEW hi \in Nat
      PROVE  s[<<lo, hi>>] = Halved(F, lo, hi, s[<<(lo + hi) \div 2, hi>>],
                                               s[<<lo, (lo + hi) \div 2>>])
  <2>1. <<lo, hi>> \in Nat \X Nat
    OBVIOUS
  <2>2. s = [w \in Nat \X Nat |-> Halved(F, w[1], w[2], s[<<(w[1] + w[2]) \div 2, w[2]>>],
                                                        s[<<w[1], (w[1] + w[2]) \div 2>>])]
    BY BisectingIs
  <2> DEFINE to == [w \in Nat \X Nat |-> Halved(F, w[1], w[2], s[<<(w[1] + w[2]) \div 2, w[2]>>],
                                                        s[<<w[1], (w[1] + w[2]) \div 2>>])]
  <2>3. to[<<lo, hi>>] = Halved(F, lo, hi, s[<<(lo + hi) \div 2, hi>>],
                                           s[<<lo, (lo + hi) \div 2>>])
    BY <2>1
  <2>4. s = to
    BY <2>2
  <2> HIDE DEF to
  <2> QED BY <2>3, <2>4
<1>2. ASSUME NEW lo \in Nat, NEW hi \in Nat, hi - lo <= 1 PROVE Right(lo, hi)
  <2>1. s[<<lo, hi>>] = lo
    BY <1>1, <1>2 DEF Halved
  <2>2. Largest(F, lo, hi) = lo
    BY <1>2, LargestHalved DEF Halved
  <2> QED BY <2>1, <2>2
<1>3. 0 \in G
  <2> HIDE DEF Right
  <2> QED BY <1>2
<1>4. ASSUME NEW n \in 0..(top - 1), n \in G PROVE n + 1 \in G
  <2>1. ASSUME NEW lo \in Nat, NEW hi \in Nat, hi - lo <= n + 1, hi - lo > 1
        PROVE  Right(lo, hi)
    <3> DEFINE mid == (lo + hi) \div 2
    <3>1. mid \in Nat /\ lo < mid /\ mid < hi
      BY <2>1, MiddleIs
    <3>2. Right(mid, hi) /\ Right(lo, mid)
      <4>1. Good(n)
        BY <1>4
      <4>2. hi - mid <= n /\ mid - lo <= n
        <5> HIDE DEF mid
        <5> QED BY <2>1, <3>1
      <4> HIDE DEF mid, Right
      <4> QED BY <3>1, <4>1, <4>2
    <3>3. s[<<lo, hi>>] = Halved(F, lo, hi, s[<<mid, hi>>], s[<<lo, mid>>])
      BY <1>1
    <3>4. Largest(F, lo, hi) = Halved(F, lo, hi, Largest(F, mid, hi), Largest(F, lo, mid))
      BY LargestHalved
    <3> HIDE DEF mid
    <3> QED BY <3>2, <3>3, <3>4
  <2>2. Good(n + 1)
    <3>1. ASSUME NEW lo \in Nat, NEW hi \in Nat, hi - lo <= n + 1 PROVE Right(lo, hi)
      <4> HIDE DEF Right
      <4> QED BY <1>2, <2>1, <3>1
    <3> HIDE DEF Right
    <3> QED BY <3>1
  <2> HIDE DEF Good
  <2> QED BY <2>2
<1>5. 0..top \subseteq G
  <2> HIDE DEF G
  <2> QED BY <1>3, <1>4, CountingUp
<1>6. Good(top) /\ top - 0 <= top
  BY <1>5
<1>7. Right(0, top)
  <2> HIDE DEF Right
  <2> QED BY <1>6
<1> QED BY <1>7

\* What is feasible for a group at a point.
FeasibleRates(pt, cap) == {r \in Nat : PL!Feasible(r, pt, cap)}

\* Solver.capacity finds the largest feasible rate, for any clocks, costs and caps: the plan
\* can be reasoned about with CapacityOf (domain/models.py, doubling and bisection).
THEOREM CapacityFound ==
  ASSUME NEW pt \in PL!Points, NEW cap \in Caps
  PROVE  PL!SearchedCapacity(pt, cap) = PL!CapacityOf(pt, cap)
<1> DEFINE F == FeasibleRates(pt, cap)
           M == PL!Plenty
           IsTop(f) ==
             f = [hi \in Nat |-> IF PL!Feasible(hi, pt, cap) /\ hi <= M THEN f[2 * hi] ELSE hi]
           IsSearch(s) ==
             s = [w \in Nat \X Nat |->
                    IF w[2] - w[1] <= 1 THEN w[1]
                    ELSE IF PL!Feasible((w[1] + w[2]) \div 2, pt, cap)
                         THEN s[<<(w[1] + w[2]) \div 2, w[2]>>]
                         ELSE s[<<w[1], (w[1] + w[2]) \div 2>>]]
           top == CHOOSE f : IsTop(f)
           search == CHOOSE s : IsSearch(s)
<1>1. PL!SearchedCapacity(pt, cap) =
        IF PL!Feasible(0, pt, cap) THEN PL!AtMost(search[<<0, top[1]>>], M) ELSE 0
  BY DEF PL!SearchedCapacity
<1>2. /\ M \in Nat
      /\ \A r \in Nat : r \in F <=> PL!Feasible(r, pt, cap)
      /\ F \subseteq Nat
  BY PlannerOperators, LargestRate DEF PL!Plenty, FeasibleRates
<1>3. \A q, r \in Nat : q <= r /\ r \in F => q \in F
  BY <1>2, FeasibleDown
<1>4. Doubling(F, M, top)
  <2>1. \A f : IsTop(f) <=> Doubling(F, M, f)
    <3> HIDE DEF F, M
    <3> QED BY <1>2 DEF Doubling
  <2>2. \E f : Doubling(F, M, f)
    <3> HIDE DEF F, M
    <3> QED BY <1>2, DoublingExists
  <2>3. \E f : IsTop(f)
    <3> HIDE DEF IsTop
    <3> QED BY <2>1, <2>2
  <2>4. IsTop(top)
    <3> HIDE DEF IsTop
    <3> QED BY <2>3
  <2> HIDE DEF IsTop, top
  <2> QED BY <2>1, <2>4
<1>5. Bisecting(F, search)
  <2>1. \A s : IsSearch(s) <=> Bisecting(F, s)
    <3>1. \A w \in Nat \X Nat : (w[1] + w[2]) \div 2 \in Nat
      OBVIOUS
    <3>2. \A w \in Nat \X Nat :
            PL!Feasible((w[1] + w[2]) \div 2, pt, cap) <=> (w[1] + w[2]) \div 2 \in F
      <4> HIDE DEF F
      <4> QED BY <1>2, <3>1
    <3> HIDE DEF F, M
    <3> QED BY <3>2 DEF Bisecting
  <2>2. \E s : Bisecting(F, s)
    <3> HIDE DEF F
    <3> QED BY <1>3, BisectingExists
  <2>3. \E s : IsSearch(s)
    <3> HIDE DEF IsSearch
    <3> QED BY <2>1, <2>2
  <2>4. IsSearch(search)
    <3> HIDE DEF IsSearch
    <3> QED BY <2>3
  <2> HIDE DEF IsSearch, search
  <2> QED BY <2>1, <2>4
<1> HIDE DEF F, M, top, search
<1> DEFINE hi == top[1]
           m == Largest(F, 0, hi)
<1>6. hi \in Nat /\ hi >= 1 /\ (hi \notin F \/ hi > M)
  BY <1>2, <1>4, DoublingFacts
<1> HIDE DEF hi
<1>7. search[<<0, hi>>] = m
  BY <1>3, <1>5, <1>6, BisectingFacts
<1>8. /\ m \in Nat
      /\ m = 0 \/ (m \in F /\ m < hi)
      /\ \A r \in Nat : r < hi /\ r \in F => r <= m
  <2>1. /\ m \in Nat /\ m >= 0
        /\ m = 0 \/ (m \in F /\ m < hi)
        /\ \A r \in Nat : r >= 0 /\ r < hi /\ r \in F => r <= m
    BY <1>6, LargestFacts
  <2> HIDE DEF m
  <2> QED BY <2>1
<1> HIDE DEF m
<1>9. PL!CapacityOf(pt, cap) = Largest(F, 0, M + 1)
  <2>1. {r \in 0..M : PL!Feasible(r, pt, cap)} = {r \in 0..M : r \in F}
    BY <1>2
  <2>2. PL!CapacityOf(pt, cap) = Max({0} \cup {r \in 0..M : PL!Feasible(r, pt, cap)})
    BY PlannerOperators DEF PL!CapacityOf, M
  <2>3. Largest(F, 0, M + 1) = Max({0} \cup {r \in 0..M : r \in F})
    BY <1>2, LargestBelow
  <2> QED BY <2>1, <2>2, <2>3
<1> DEFINE x == PL!AtMost(m, M)
<1>10. x = IF m <= M THEN m ELSE M
  BY DEF PL!AtMost
<1> HIDE DEF x
<1>11. CASE PL!Feasible(0, pt, cap)
  <2>1. x \in Nat /\ x >= 0 /\ (x = 0 \/ (x \in F /\ x < M + 1))
    <3>1. x \in Nat /\ x <= m /\ x < M + 1
      BY <1>2, <1>8, <1>10
    <3>2. x # 0 => m \in F
      BY <1>8, <1>10, <3>1
    <3>3. x # 0 => x \in F
      BY <1>3, <1>8, <3>1, <3>2
    <3> QED BY <3>1, <3>3
  <2>2. ASSUME NEW r \in Nat, r < M + 1, r \in F PROVE r <= x
    <3>1. r <= M
      BY <1>2, <2>2
    <3>2. r < hi
      <4>1. r >= hi => hi \in F
        BY <1>3, <1>6, <2>2
      <4>2. r >= hi => hi <= M
        BY <1>2, <1>6, <3>1
      <4>3. ~(r >= hi)
        BY <1>2, <1>6, <4>1, <4>2
      <4> QED BY <1>6, <4>3
    <3>3. r <= m
      BY <1>8, <2>2, <3>2
    <3> QED BY <1>10, <3>1, <3>3
  <2>3. Largest(F, 0, M + 1) = x
    <3>1. M + 1 \in Nat /\ 0 \in Nat
      BY <1>2
    <3>2. \A r \in Nat : r >= 0 /\ r < M + 1 /\ r \in F => r <= x
      BY <2>2
    <3> QED BY <2>1, <3>1, <3>2, LargestIs
  <2> QED BY <1>1, <1>7, <1>9, <1>11, <2>3 DEF hi, x
<1>12. CASE ~PL!Feasible(0, pt, cap)
  <2>1. \A r \in Nat : r \notin F
    <3>1. 0 \notin F
      BY <1>2, <1>12
    <3> QED BY <1>3, <3>1
  <2>2. Largest(F, 0, M + 1) = 0
    <3>1. M + 1 \in Nat /\ 0 \in Nat /\ 0 >= 0
      BY <1>2
    <3>2. \A r \in Nat : r >= 0 /\ r < M + 1 /\ r \in F => r <= 0
      BY <2>1
    <3> QED BY <3>1, <3>2, LargestIs
  <2> QED BY <1>1, <1>9, <1>12, <2>2
<1> QED BY <1>11, <1>12

-----------------------------------------------------------------------------
\* The model the plan goes by: capacities are those of its caps.
ModelFits ==
  /\ caps \in [PL!Points -> Caps]
  /\ capacity = [pt \in PL!Points |-> PL!CapacityOf(pt, caps[pt])]

\* What is left of a rate for the i-th group.
LeftFor(rate, i, pt) ==
  IF rate - (i - 1) * capacity[pt] < 0 THEN 0 ELSE rate - (i - 1) * capacity[pt]

LEMMA LargerOfZero ==
  ASSUME NEW n \in Int
  PROVE  Max({0, n}) = IF n < 0 THEN 0 ELSE n
<1>1. \E x \in {0, n} : \A y \in {0, n} : x >= y
  <2>1. CASE n >= 0
    BY <2>1
  <2>2. CASE ~(n >= 0)
    BY <2>2
  <2> QED BY <2>1, <2>2
<1>2. Max({0, n}) \in {0, n} /\ \A y \in {0, n} : Max({0, n}) >= y
  BY <1>1 DEF Max
<1> QED BY <1>2

LEMMA FilledFacts ==
  ASSUME ModelFits, NEW pt \in PL!Points, NEW rate \in Nat, NEW n \in Nat
  PROVE  /\ capacity[pt] \in Nat
         /\ DOMAIN PL!Filled(rate, n, pt) = 1..n
         /\ \A i \in 1..n :
              LET x == PL!Filled(rate, n, pt)[i] IN
              /\ x \in Nat /\ x <= LeftFor(rate, i, pt)
              /\ i = n => x = LeftFor(rate, i, pt)
              /\ i < n => x <= capacity[pt]
              /\ i < n /\ LeftFor(rate, i, pt) <= capacity[pt] => x = LeftFor(rate, i, pt)
              /\ i < n /\ capacity[pt] <= LeftFor(rate, i, pt) => x = capacity[pt]
<1> DEFINE c == capacity[pt]
<1>1. c \in Nat
  <2>1. caps[pt] \in Caps
    BY DEF ModelFits
  <2> QED BY <2>1, CapacityFacts DEF ModelFits
<1>2. \A i \in 1..n : Max({0, rate - (i - 1) * c}) = LeftFor(rate, i, pt)
  <2> SUFFICES ASSUME NEW i \in 1..n PROVE Max({0, rate - (i - 1) * c}) = LeftFor(rate, i, pt)
    OBVIOUS
  <2> DEFINE l == rate - (i - 1) * c
  <2>1. l \in Int
    <3> HIDE DEF c
    <3>1. (i - 1) * c \in Int
      BY <1>1
    <3> QED BY <3>1
  <2>2. LeftFor(rate, i, pt) = IF l < 0 THEN 0 ELSE l
    BY DEF LeftFor
  <2> HIDE DEF l
  <2>3. Max({0, l}) = LeftFor(rate, i, pt)
    BY <2>1, <2>2, LargerOfZero
  <2> QED BY <2>3 DEF l
<1>3. \A i \in 1..n : LeftFor(rate, i, pt) \in Nat
  <2> SUFFICES ASSUME NEW i \in 1..n PROVE LeftFor(rate, i, pt) \in Nat
    OBVIOUS
  <2>1. (i - 1) * c \in Int
    <3> HIDE DEF c
    <3> QED BY <1>1
  <2> QED BY <2>1 DEF LeftFor
<1>4. PL!Filled(rate, n, pt) =
        [i \in 1..n |-> IF i = n THEN LeftFor(rate, i, pt)
                        ELSE IF LeftFor(rate, i, pt) <= c THEN LeftFor(rate, i, pt) ELSE c]
  BY <1>2, PlannerOperators DEF PL!Filled, PL!AtMost
<1>5. ASSUME NEW i \in 1..n
      PROVE  LET x == PL!Filled(rate, n, pt)[i] IN
              /\ x \in Nat /\ x <= LeftFor(rate, i, pt)
              /\ i = n => x = LeftFor(rate, i, pt)
              /\ i < n => x <= c
              /\ i < n /\ LeftFor(rate, i, pt) <= c => x = LeftFor(rate, i, pt)
              /\ i < n /\ c <= LeftFor(rate, i, pt) => x = c
  <2> DEFINE left == LeftFor(rate, i, pt)
             x == PL!Filled(rate, n, pt)[i]
  <2>1. left \in Nat
    BY <1>3
  <2>2. x = IF i = n THEN left ELSE IF left <= c THEN left ELSE c
    BY <1>4
  <2> HIDE DEF left, x, c
  <2>3. x \in Nat /\ x <= left /\ (i = n => x = left) /\ (i < n => x <= c)
        /\ (i < n /\ left <= c => x = left) /\ (i < n /\ c <= left => x = c)
    BY <1>1, <2>1, <2>2
  <2> QED BY <2>3 DEF left, x
<1>6. DOMAIN PL!Filled(rate, n, pt) = 1..n
  BY <1>4
<1> QED BY <1>1, <1>5, <1>6

LEMMA LeftFacts ==
  ASSUME ModelFits, NEW pt \in PL!Points, NEW x \in Nat, NEW y \in Nat, y <= x,
         NEW i \in Nat, NEW j \in Nat, 1 <= i, i <= j
  PROVE  /\ LeftFor(x, i, pt) \in Nat /\ LeftFor(y, j, pt) \in Nat
         /\ LeftFor(y, j, pt) <= LeftFor(x, i, pt)
         /\ LeftFor(x, i, pt) <= x
         /\ i < j => LeftFor(x, j, pt) <= LeftFor(x, i, pt)
<1> DEFINE c == capacity[pt]
<1>1. c \in Nat
  BY FilledFacts
<1>2. LeftFor(x, i, pt) = (IF x - (i - 1) * c < 0 THEN 0 ELSE x - (i - 1) * c)
      /\ LeftFor(y, j, pt) = (IF y - (j - 1) * c < 0 THEN 0 ELSE y - (j - 1) * c)
      /\ LeftFor(x, j, pt) = (IF x - (j - 1) * c < 0 THEN 0 ELSE x - (j - 1) * c)
  BY DEF LeftFor
<1> DEFINE a == (i - 1) * c
           b == (j - 1) * c
<1>3. a \in Nat /\ b \in Nat /\ a <= b
  <2> HIDE DEF c
  <2>1. i - 1 \in Nat /\ j - 1 \in Nat /\ i - 1 <= j - 1
    OBVIOUS
  <2> QED BY <1>1, <2>1
<1> HIDE DEF a, b, c
<1>4. /\ LeftFor(x, i, pt) = (IF x - a < 0 THEN 0 ELSE x - a)
      /\ LeftFor(y, j, pt) = (IF y - b < 0 THEN 0 ELSE y - b)
      /\ LeftFor(x, j, pt) = (IF x - b < 0 THEN 0 ELSE x - b)
  BY <1>2 DEF a, b
<1> QED BY <1>3, <1>4

LEMMA EvaluateFacts ==
  ASSUME ModelFits, NEW pt \in PL!Points, NEW rate \in Nat, NEW n \in Nat
  PROVE  LET e == PL!Evaluate(rate, n, pt) IN
         /\ e.n = n /\ e.point = pt /\ e.rates = PL!Filled(rate, n, pt)
         /\ e.feasible \in BOOLEAN
         /\ e.feasible <=> \A i \in 1..n : PL!Feasible(PL!Filled(rate, n, pt)[i], pt, caps[pt])
<1>1. PL!Evaluate(rate, n, pt).feasible =
        \A r \in {PL!Filled(rate, n, pt)[i] : i \in 1..n} : PL!Feasible(r, pt, caps[pt])
  BY DEF PL!Evaluate
<1>2. /\ PL!Evaluate(rate, n, pt).n = n
      /\ PL!Evaluate(rate, n, pt).point = pt
      /\ PL!Evaluate(rate, n, pt).rates = PL!Filled(rate, n, pt)
  BY DEF PL!Evaluate
<1>3. (\A r \in {PL!Filled(rate, n, pt)[i] : i \in 1..n} : PL!Feasible(r, pt, caps[pt]))
        <=> \A i \in 1..n : PL!Feasible(PL!Filled(rate, n, pt)[i], pt, caps[pt])
  OBVIOUS
<1> QED BY <1>1, <1>2, <1>3

\* What carries a demand carries a lower one, also with more groups.
LEMMA CarriesLess ==
  ASSUME ModelFits, NEW pt \in PL!Points, NEW x \in Nat, NEW y \in Nat, y <= x,
         NEW n \in Nat, NEW m \in Nat, 1 <= n, n <= m,
         PL!Evaluate(x, n, pt).feasible
  PROVE  PL!Evaluate(y, m, pt).feasible
<1> DEFINE c == capacity[pt]
           F(r) == PL!Feasible(r, pt, caps[pt])
<1>1. caps[pt] \in Caps /\ c \in Nat /\ (c = 0 \/ F(c))
  <2>1. caps[pt] \in Caps /\ c = PL!CapacityOf(pt, caps[pt])
    BY DEF ModelFits
  <2> QED BY <2>1, CapacityFacts
<1>2. \A r \in Nat, q \in Nat : q <= r /\ F(r) => F(q)
  BY <1>1, FeasibleDown
<1>3. LeftFor(x, n, pt) \in Nat /\ F(LeftFor(x, n, pt))
  <2>1. n \in 1..n
    OBVIOUS
  <2>2. F(PL!Filled(x, n, pt)[n])
    BY <2>1, EvaluateFacts
  <2>3. PL!Filled(x, n, pt)[n] = LeftFor(x, n, pt) /\ PL!Filled(x, n, pt)[n] \in Nat
    BY <2>1, FilledFacts
  <2> QED BY <2>2, <2>3
<1>4. ASSUME NEW j \in 1..m PROVE F(PL!Filled(y, m, pt)[j])
  <2> DEFINE r == PL!Filled(y, m, pt)[j]
  <2>1. r \in Nat /\ (j = m => r = LeftFor(y, j, pt)) /\ (j < m => r <= c)
    BY FilledFacts
  <2> HIDE DEF r, F, c
  <2>2. CASE j = m
    <3>1. LeftFor(y, m, pt) <= LeftFor(x, n, pt)
      BY LeftFacts
    <3> QED BY <1>2, <1>3, <2>1, <2>2, <3>1 DEF r
  <2>3. CASE j < m /\ c = 0
    <3>1. r = 0 /\ 0 <= LeftFor(x, n, pt)
      BY <1>3, <2>1, <2>3
    <3> QED BY <1>2, <1>3, <3>1 DEF r
  <2>4. CASE j < m /\ c # 0
    BY <1>1, <1>2, <2>1, <2>4 DEF r
  <2> QED BY <2>2, <2>3, <2>4
<1> QED BY <1>4, EvaluateFacts
-----------------------------------------------------------------------------
\* The use of a group grows with its rate, and that of a configuration falls with the
\* groups it may fill.

LEMMA LargestOfThree ==
  ASSUME NEW a \in Nat, NEW b \in Nat, NEW c \in Nat
  PROVE  /\ Max({a, b, c}) \in {a, b, c}
         /\ a <= Max({a, b, c}) /\ b <= Max({a, b, c}) /\ c <= Max({a, b, c})
<1>1. \E x \in {a, b, c} : \A y \in {a, b, c} : x >= y
  <2>1. CASE a >= b /\ a >= c
    BY <2>1
  <2>2. CASE b >= a /\ b >= c
    BY <2>2
  <2>3. CASE c >= a /\ c >= b
    BY <2>3
  <2> QED BY <2>1, <2>2, <2>3
<1>2. Max({a, b, c}) \in {a, b, c} /\ \A y \in {a, b, c} : Max({a, b, c}) >= y
  BY <1>1 DEF Max
<1>3. Max({a, b, c}) \in Nat
  BY <1>2
<1> QED BY <1>2, <1>3

LEMMA UseCapGrows ==
  ASSUME ModelFits, NEW pt \in PL!Points, NEW q \in Nat, NEW r \in Nat, q <= r
  PROVE  PL!UseCap(q, pt) \in Nat /\ PL!UseCap(r, pt) \in Nat
         /\ PL!UseCap(q, pt) <= PL!UseCap(r, pt)
<1> DEFINE c == caps[pt]
<1>1. c \in Caps
  BY DEF ModelFits
<1>2. \A x \in Nat : PL!UseCap(x, pt) = IF c = None THEN 0
                       ELSE IF c = 0 THEN PL!Infinite ELSE (100 * x) \div c
  BY DEF PL!UseCap
<1> HIDE DEF c
<1>3. CASE c = None \/ c = 0
  BY <1>2, <1>3, InfiniteIs
<1>4. CASE c # None /\ c # 0
  <2>1. c \in Nat /\ 0 < c
    BY <1>1, <1>4 DEF Caps
  <2> DEFINE x == 100 * q
             y == 100 * r
  <2>2. x \in Nat /\ y \in Nat /\ x <= y
    OBVIOUS
  <2>3. PL!UseCap(q, pt) = x \div c /\ PL!UseCap(r, pt) = y \div c
    BY <1>2, <1>4
  <2> HIDE DEF x, y
  <2>4. c <= c
    BY <2>1
  <2> QED BY <2>1, <2>2, <2>3, <2>4, QuotientGrows
<1> QED BY <1>3, <1>4

LEMMA UseGrows ==
  ASSUME ModelFits, NEW pt \in PL!Points, NEW q \in Nat, NEW r \in Nat, q <= r,
         r <= Max(Rates)
  PROVE  PL!Use(q, pt) \in Nat /\ PL!Use(r, pt) \in Nat /\ PL!Use(q, pt) <= PL!Use(r, pt)
<1> DEFINE a == PL!UseP(q, pt)
           b == PL!UseD(q, pt)
           c == PL!UseCap(q, pt)
           x == PL!UseP(r, pt)
           y == PL!UseD(r, pt)
           z == PL!UseCap(r, pt)
<1>1. a \in Nat /\ x \in Nat /\ a <= x
  BY UsePGrows
<1>2. b \in Nat /\ y \in Nat /\ b <= y
  BY UseDGrows
<1>3. c \in Nat /\ z \in Nat /\ c <= z
  BY UseCapGrows
<1>4. PL!Use(q, pt) = Max({a, b, c}) /\ PL!Use(r, pt) = Max({x, y, z})
  BY PlannerOperators DEF PL!Use
<1> HIDE DEF a, b, c, x, y, z
<1>5. Max({a, b, c}) \in {a, b, c}
  BY <1>1, <1>2, <1>3, LargestOfThree
<1>6. /\ Max({x, y, z}) \in {x, y, z}
      /\ x <= Max({x, y, z}) /\ y <= Max({x, y, z}) /\ z <= Max({x, y, z})
  BY <1>1, <1>2, <1>3, LargestOfThree
<1> QED BY <1>1, <1>2, <1>3, <1>4, <1>5, <1>6

LEMMA UseOfFacts ==
  ASSUME ModelFits, NEW pt \in PL!Points, NEW rate \in Nat, rate <= Max(Rates),
         NEW n \in Nat, 1 <= n
  PROVE  LET e == PL!Evaluate(rate, n, pt)
             u == PL!UseOf(e) IN
         /\ u \in Nat
         /\ \E i \in 1..n : u = PL!Use(PL!Filled(rate, n, pt)[i], pt)
         /\ \A i \in 1..n : PL!Use(PL!Filled(rate, n, pt)[i], pt) <= u
<1> DEFINE f == [i \in 1..n |-> PL!Use(PL!Filled(rate, n, pt)[i], pt)]
           u == PL!UseOf(PL!Evaluate(rate, n, pt))
<1>1. u = Max({f[i] : i \in 1..n})
  <2>1. {f[i] : i \in 1..n} = {PL!Use(PL!Filled(rate, n, pt)[i], pt) : i \in 1..n}
    OBVIOUS
  <2>2. u = Max({PL!Use(PL!Filled(rate, n, pt)[i], pt) : i \in 1..n})
    BY PlannerOperators DEF PL!UseOf, PL!Evaluate
  <2> QED BY <2>1, <2>2
<1>2. \A i \in 1..n : f[i] \in Nat
  <2> SUFFICES ASSUME NEW i \in 1..n PROVE f[i] \in Nat
    OBVIOUS
  <2> DEFINE r == PL!Filled(rate, n, pt)[i]
  <2>1. r \in Nat /\ r <= LeftFor(rate, i, pt)
    BY FilledFacts
  <2>2. LeftFor(rate, i, pt) \in Nat /\ LeftFor(rate, i, pt) <= rate
    BY LeftFacts
  <2>3. r <= r /\ r <= Max(Rates)
    BY <2>1, <2>2, LargestRate
  <2> HIDE DEF r
  <2>4. PL!Use(r, pt) \in Nat
    BY <2>1, <2>3, UseGrows
  <2> QED BY <2>4 DEF r
<1>3. IsFiniteSet(1..n) /\ 1..n # {} /\ \A i \in 1..n : f[i] \in Int
  <2>1. IsFiniteSet(1..n)
    BY FS_Interval
  <2>2. 1 \in 1..n
    OBVIOUS
  <2>3. \A i \in 1..n : f[i] \in Int
    <3> HIDE DEF f
    <3> QED BY <1>2
  <2>4. 1..n # {}
    BY <2>2
  <2> QED BY <2>1, <2>3, <2>4
<1>4. \A i \in 1..n : f[i] = PL!Use(PL!Filled(rate, n, pt)[i], pt)
  OBVIOUS
<1> HIDE DEF f
<1>5. /\ Max({f[i] : i \in 1..n}) \in Int
      /\ \E i \in 1..n : Max({f[j] : j \in 1..n}) = f[i]
      /\ \A i \in 1..n : f[i] <= Max({f[j] : j \in 1..n})
  BY <1>3, MaxOfImage
<1> HIDE DEF u
<1>6. u \in Nat
  BY <1>1, <1>2, <1>5
<1>7. \E i \in 1..n : u = PL!Use(PL!Filled(rate, n, pt)[i], pt)
  BY <1>1, <1>4, <1>5
<1>8. \A i \in 1..n : PL!Use(PL!Filled(rate, n, pt)[i], pt) <= u
  BY <1>1, <1>4, <1>5
<1> QED BY <1>6, <1>7, <1>8 DEF u

LEMMA MoreGroupsMoreRoom ==
  ASSUME ModelFits, NEW pt \in PL!Points, NEW rate \in Nat, rate <= Max(Rates),
         NEW n \in Nat, NEW m \in Nat, 1 <= n, n <= m
  PROVE  PL!UseOf(PL!Evaluate(rate, m, pt)) <= PL!UseOf(PL!Evaluate(rate, n, pt))
<1> DEFINE u == PL!UseOf(PL!Evaluate(rate, n, pt))
           w == PL!UseOf(PL!Evaluate(rate, m, pt))
<1>1. u \in Nat /\ \A i \in 1..n : PL!Use(PL!Filled(rate, n, pt)[i], pt) <= u
  BY UseOfFacts
<1>2. 1 <= m
  OBVIOUS
<1>3. w \in Nat /\ \E j \in 1..m : w = PL!Use(PL!Filled(rate, m, pt)[j], pt)
  BY <1>2, UseOfFacts
<1> HIDE DEF u, w
<1>4. PICK j \in 1..m : w = PL!Use(PL!Filled(rate, m, pt)[j], pt)
  BY <1>3
<1> DEFINE i == IF j < n THEN j ELSE n
           q == PL!Filled(rate, m, pt)[j]
           r == PL!Filled(rate, n, pt)[i]
<1>5. i \in 1..n /\ i <= j /\ i \in Nat /\ j \in Nat /\ 1 <= i
  OBVIOUS
<1>6. q \in Nat /\ r \in Nat /\ q <= r /\ r <= Max(Rates)
  <2>1. /\ q \in Nat /\ q <= LeftFor(rate, j, pt)
        /\ j < m => q <= capacity[pt]
    BY FilledFacts
  <2>2. /\ r \in Nat /\ r <= LeftFor(rate, i, pt)
        /\ i = n => r = LeftFor(rate, i, pt)
        /\ i < n /\ LeftFor(rate, i, pt) <= capacity[pt] => r = LeftFor(rate, i, pt)
        /\ i < n /\ capacity[pt] <= LeftFor(rate, i, pt) => r = capacity[pt]
    <3> HIDE DEF i
    <3> QED BY <1>5, FilledFacts
  <2>3. LeftFor(rate, j, pt) <= LeftFor(rate, i, pt)
        /\ LeftFor(rate, i, pt) \in Nat /\ LeftFor(rate, j, pt) \in Nat
        /\ LeftFor(rate, i, pt) <= rate
    BY <1>5, LeftFacts
  <2>4. capacity[pt] \in Nat /\ Max(Rates) \in Nat
    BY FilledFacts, LargestRate
  <2>5. i < n => j < m
    OBVIOUS
  <2> HIDE DEF i, q, r
  <2>6. CASE i = n
    BY <2>1, <2>2, <2>3, <2>4, <2>6
  <2>7. CASE i # n
    <3>1. i < n
      BY <1>5, <2>7
    <3>2. j < m /\ q <= capacity[pt]
      BY <2>1, <2>5, <3>1
    <3> QED BY <2>1, <2>2, <2>3, <2>4, <3>1, <3>2
  <2> QED BY <2>6, <2>7
<1>7. PL!Use(q, pt) \in Nat /\ PL!Use(r, pt) \in Nat /\ PL!Use(q, pt) <= PL!Use(r, pt)
  <2> HIDE DEF q, r
  <2> QED BY <1>6, UseGrows
<1>8. PL!Use(r, pt) <= u
  BY <1>1, <1>5
<1>9. w = PL!Use(q, pt)
  BY <1>4
<1> HIDE DEF q, r, i
<1>10. w <= u
  BY <1>1, <1>3, <1>7, <1>8, <1>9
<1> QED BY <1>10 DEF u, w

LEMMA PowerIsNumber ==
  ASSUME ModelFits, NEW pt \in PL!Points, NEW rate \in Nat, rate <= Max(Rates),
         NEW n \in Nat, 1 <= n
  PROVE  PL!PowerOf(PL!Evaluate(rate, n, pt)) \in Int
<1> DEFINE p == [i \in 1..n |-> PL!Power(PL!Filled(rate, n, pt)[i], pt)]
<1>1. \A r \in Nat : PL!Power(r, pt) \in Nat
  <2> SUFFICES ASSUME NEW r \in Nat PROVE PL!Power(r, pt) \in Nat
    OBVIOUS
  <2> DEFINE x == IF PL!UseP(r, pt) <= 100 THEN PL!UseP(r, pt) ELSE 100
             y == IF PL!Saturated(r, pt) THEN 100
                  ELSE IF PL!RunningPct(r, pt) <= 100 THEN PL!RunningPct(r, pt) ELSE 100
  <2>1. x \in Nat
    <3>1. PL!UseP(r, pt) \in Nat
      BY UsePGrows
    <3> QED BY <3>1
  <2>2. y \in Nat
    <3>1. ~PL!Saturated(r, pt) => PL!RunningPct(r, pt) \in Nat
      BY DecodeGrows
    <3> QED BY <3>1
  <2>3. PowerP[pt[1]] \in Nat \X Nat /\ PowerD[pt[2]] \in Nat \X Nat
    BY PointFacts, PlannerAssumption
  <2> DEFINE a == PowerP[pt[1]][1]
             b == PowerD[pt[2]][1]
             c == PowerP[pt[1]][2]
             d == PowerD[pt[2]][2]
  <2>4. a \in Nat /\ b \in Nat /\ c \in Nat /\ d \in Nat
    BY <2>3
  <2>5. PL!Power(r, pt) = 100 * (a + b) + c * x + d * y
    BY DEF PL!Power, PL!AtMost
  <2> HIDE DEF a, b, c, d, x, y
  <2>6. c * x \in Nat /\ d * y \in Nat
    BY <2>1, <2>2, <2>4
  <2> QED BY <2>4, <2>5, <2>6
<1>2. \A i \in 1..n : p[i] \in Nat
  <2> SUFFICES ASSUME NEW i \in 1..n PROVE p[i] \in Nat
    OBVIOUS
  <2>1. PL!Filled(rate, n, pt)[i] \in Nat
    BY FilledFacts
  <2> QED BY <1>1, <2>1
<1>3. PL!PowerOf(PL!Evaluate(rate, n, pt))
        = TotalOf(p, 1..n) + (Groups - n) * 100 * ParkPower
  <2>1. PL!SumFunction(p) = TotalOf(p, 1..n)
    <3>1. DOMAIN p = 1..n
      OBVIOUS
    <3> HIDE DEF p
    <3> QED BY <3>1 DEF PL!SumFunction, PL!SumFunctionOnSet, PL!FoldFunctionOnSet,
                        PL!MapThenFoldSet, TotalOf, MapThenSumSet, MapThenFoldSet
  <2>2. PL!PowerOf(PL!Evaluate(rate, n, pt))
          = PL!SumFunction(p) + (Groups - n) * 100 * ParkPower
    BY DEF PL!PowerOf, PL!Evaluate
  <2> QED BY <2>1, <2>2
<1>4. TotalOf(p, 1..n) \in Nat
  <2>1. IsFiniteSet(1..n)
    BY FS_Interval
  <2> HIDE DEF p
  <2> QED BY <1>2, <2>1, TotalIsNat
<1>5. (Groups - n) * 100 * ParkPower \in Int
  BY PlannerAssumption
<1> HIDE DEF p
<1> QED BY <1>3, <1>4, <1>5
-----------------------------------------------------------------------------
\* What the solver returns is one of its configurations: the orders by power and by use
\* have a first member.

Candidates(J) == IsFiniteSet(J) /\ J # {} /\ \A k \in J : k \in Nat \X PL!Points /\ k[1] >= 1

ConfigOf(rate, k) == PL!Evaluate(rate, k[1], k[2])

ConfigsOf(rate, J) == {ConfigOf(rate, k) : k \in J}

LEMMA ChoiceFacts ==
  ASSUME NEW J, Candidates(J), NEW k \in J
  PROVE  /\ k = <<k[1], k[2]>> /\ k[1] \in Nat /\ 1 <= k[1] /\ k[2] \in PL!Points
         /\ k[2] = <<k[2][1], k[2][2]>>
         /\ k[2][1] \in Nat /\ k[2][2] \in Nat
<1>1. k \in Nat \X PL!Points /\ k[1] >= 1
  BY DEF Candidates
<1>2. k = <<k[1], k[2]>> /\ k[1] \in Nat /\ k[2] \in PL!Points /\ 1 <= k[1]
  BY <1>1
<1>3. k[2] = <<k[2][1], k[2][2]>> /\ k[2][1] \in PClocks /\ k[2][2] \in DClocks
  BY <1>2, PointFacts
<1> QED BY <1>2, <1>3, PlannerAssumption

LEMMA CheapestIs ==
  ASSUME ModelFits, NEW rate \in Nat, rate <= Max(Rates), NEW J, Candidates(J)
  PROVE  \E j \in J : PL!Cheapest(ConfigsOf(rate, J)) = ConfigOf(rate, j)
<1> DEFINE f == [k \in J |-> PL!PowerOf(ConfigOf(rate, k))]
           best == PL!Min({PL!PowerOf(e) : e \in ConfigsOf(rate, J)})
           among == {e \in ConfigsOf(rate, J) : PL!PowerOf(e) = best}
           A == {k \in J : f[k] = best}
<1>1. \A k \in J : f[k] \in Int
  BY ChoiceFacts, PowerIsNumber DEF ConfigOf
<1>2. {PL!PowerOf(e) : e \in ConfigsOf(rate, J)} = {f[k] : k \in J}
  BY DEF ConfigsOf
<1>3. A # {} /\ A \in SUBSET J
  <2>1. IsFiniteSet(J) /\ J # {}
    BY DEF Candidates
  <2>2. best = Min({f[k] : k \in J})
    BY <1>2, PlannerOperators
  <2> HIDE DEF f, best
  <2>3. \E k \in J : Min({f[x] : x \in J}) = f[k]
    BY <1>1, <2>1, MinOfImage
  <2> QED BY <2>2, <2>3
<1>4. \E m \in A : \A x \in A :
        \/ m[1] < x[1]
        \/ m[1] = x[1] /\ m[2][1] < x[2][1]
        \/ m[1] = x[1] /\ m[2][1] = x[2][1] /\ m[2][2] <= x[2][2]
  <2> DEFINE a == [k \in A |-> k[1]]
             b == [k \in A |-> k[2][1]]
             c == [k \in A |-> k[2][2]]
  <2>1. \A x \in A : a[x] = x[1] /\ b[x] = x[2][1] /\ c[x] = x[2][2]
    OBVIOUS
  <2> HIDE DEF A
  <2>2. \A x \in A : a[x] \in Int /\ b[x] \in Int /\ c[x] \in Int
    BY <1>3, ChoiceFacts
  <2>3. IsFiniteSet(A)
    BY <1>3, FS_Subset DEF Candidates
  <2> HIDE DEF a, b, c
  <2>4. \E m \in A : \A x \in A :
           \/ a[m] < a[x]
           \/ a[m] = a[x] /\ b[m] < b[x]
           \/ a[m] = a[x] /\ b[m] = b[x] /\ c[m] <= c[x]
    BY <1>3, <2>2, <2>3, FirstInOrder
  <2> QED BY <2>1, <2>4
<1>5. PICK m \in A : \A x \in A :
        \/ m[1] < x[1]
        \/ m[1] = x[1] /\ m[2][1] < x[2][1]
        \/ m[1] = x[1] /\ m[2][1] = x[2][1] /\ m[2][2] <= x[2][2]
  BY <1>4
<1>6. \A k \in J : ConfigOf(rate, k).n = k[1] /\ ConfigOf(rate, k).point = k[2]
  BY ChoiceFacts, EvaluateFacts DEF ConfigOf
<1>7. \A e \in among : \E k \in A : e = ConfigOf(rate, k)
  BY DEF ConfigsOf
<1>8. ConfigOf(rate, m) \in among
  BY DEF ConfigsOf
<1>9. \A k \in A : k \in J
  OBVIOUS
<1>10. PL!Cheapest(ConfigsOf(rate, J))
         = CHOOSE e \in among : \A x \in among \ {e} : PL!Sooner(e, x)
  BY DEF PL!Cheapest
<1> HIDE DEF A, among, best, f
<1>11. ASSUME NEW x \in among \ {ConfigOf(rate, m)}
       PROVE  PL!Sooner(ConfigOf(rate, m), x)
  <2>1. PICK k \in A : x = ConfigOf(rate, k)
    BY <1>7
  <2>2. k # m /\ k \in J /\ m \in J
    BY <1>9, <2>1
  <2>3. /\ k = <<k[1], k[2]>> /\ m = <<m[1], m[2]>>
        /\ k[2] = <<k[2][1], k[2][2]>> /\ m[2] = <<m[2][1], m[2][2]>>
        /\ k[2][2] \in Nat /\ m[2][2] \in Nat
    BY <2>2, ChoiceFacts
  <2>4. \/ m[1] < k[1]
        \/ m[1] = k[1] /\ m[2][1] < k[2][1]
        \/ m[1] = k[1] /\ m[2][1] = k[2][1] /\ m[2][2] <= k[2][2]
    BY <1>5
  <2>5. m[1] = k[1] /\ m[2][1] = k[2][1] => m[2][2] # k[2][2]
    BY <2>2, <2>3
  <2>6. \/ m[1] < k[1]
        \/ m[1] = k[1] /\ m[2][1] < k[2][1]
        \/ m[1] = k[1] /\ m[2][1] = k[2][1] /\ m[2][2] < k[2][2]
    BY <2>3, <2>4, <2>5
  <2> QED BY <1>6, <2>1, <2>2, <2>6 DEF PL!Sooner
<1>12. PL!Cheapest(ConfigsOf(rate, J)) \in among
  BY <1>8, <1>10, <1>11
<1> QED BY <1>7, <1>9, <1>12

\* The configuration with the most headroom has as many groups as there are.
LEMMA RoomiestIs ==
  ASSUME ModelFits, NEW rate \in Nat, rate <= Max(Rates), NEW J, Candidates(J)
  PROVE  \E j \in J : /\ PL!Roomiest(ConfigsOf(rate, J)) = ConfigOf(rate, j)
                      /\ \A k \in J : k[2] = j[2] => k[1] <= j[1]
<1> DEFINE f == [k \in J |-> PL!UseOf(ConfigOf(rate, k))]
           best == PL!Min({PL!UseOf(e) : e \in ConfigsOf(rate, J)})
           among == {e \in ConfigsOf(rate, J) : PL!UseOf(e) = best}
           A == {k \in J : f[k] = best}
<1>1. \A k \in J : f[k] \in Nat
  BY ChoiceFacts, UseOfFacts DEF ConfigOf
<1>2. {PL!UseOf(e) : e \in ConfigsOf(rate, J)} = {f[k] : k \in J}
  BY DEF ConfigsOf
<1>3. /\ A # {} /\ A \in SUBSET J
      /\ best \in Int /\ \A k \in J : best <= f[k]
  <2>1. IsFiniteSet(J) /\ J # {}
    BY DEF Candidates
  <2>2. best = Min({f[k] : k \in J})
    BY <1>2, PlannerOperators
  <2> HIDE DEF f, best
  <2>3. \A k \in J : f[k] \in Int
    BY <1>1
  <2>4. /\ \E k \in J : Min({f[x] : x \in J}) = f[k]
        /\ \A k \in J : Min({f[x] : x \in J}) <= f[k]
        /\ Min({f[x] : x \in J}) \in Int
    BY <2>1, <2>3, MinOfImage
  <2> QED BY <2>2, <2>4
<1>4. \E m \in A : \A x \in A :
        \/ x[1] < m[1]
        \/ x[1] = m[1] /\ x[2][1] < m[2][1]
        \/ x[1] = m[1] /\ x[2][1] = m[2][1] /\ x[2][2] <= m[2][2]
  <2> DEFINE a == [k \in A |-> - k[1]]
             b == [k \in A |-> - k[2][1]]
             c == [k \in A |-> - k[2][2]]
  <2>1. \A x \in A : a[x] = - x[1] /\ b[x] = - x[2][1] /\ c[x] = - x[2][2]
    OBVIOUS
  <2> HIDE DEF A
  <2>2. \A x \in A : x[1] \in Int /\ x[2][1] \in Int /\ x[2][2] \in Int
    BY <1>3, ChoiceFacts
  <2>3. IsFiniteSet(A)
    BY <1>3, FS_Subset DEF Candidates
  <2> HIDE DEF a, b, c
  <2>4. \A x \in A : a[x] \in Int /\ b[x] \in Int /\ c[x] \in Int
    BY <2>1, <2>2
  <2>5. PICK m \in A : \A x \in A :
           \/ a[m] < a[x]
           \/ a[m] = a[x] /\ b[m] < b[x]
           \/ a[m] = a[x] /\ b[m] = b[x] /\ c[m] <= c[x]
    BY <1>3, <2>4, <2>3, FirstInOrder
  <2>6. ASSUME NEW x \in A
        PROVE  \/ x[1] < m[1]
               \/ x[1] = m[1] /\ x[2][1] < m[2][1]
               \/ x[1] = m[1] /\ x[2][1] = m[2][1] /\ x[2][2] <= m[2][2]
    <3>1. /\ a[x] = - x[1] /\ b[x] = - x[2][1] /\ c[x] = - x[2][2]
          /\ a[m] = - m[1] /\ b[m] = - m[2][1] /\ c[m] = - m[2][2]
          /\ x[1] \in Int /\ x[2][1] \in Int /\ x[2][2] \in Int
          /\ m[1] \in Int /\ m[2][1] \in Int /\ m[2][2] \in Int
      BY <2>1, <2>2
    <3> DEFINE x1 == x[1]
               x2 == x[2][1]
               x3 == x[2][2]
               m1 == m[1]
               m2 == m[2][1]
               m3 == m[2][2]
    <3>2. \/ - m1 < - x1
          \/ - m1 = - x1 /\ - m2 < - x2
          \/ - m1 = - x1 /\ - m2 = - x2 /\ - m3 <= - x3
      BY <2>5, <3>1
    <3>3. x1 \in Int /\ x2 \in Int /\ x3 \in Int /\ m1 \in Int /\ m2 \in Int /\ m3 \in Int
      BY <3>1
    <3> HIDE DEF x1, x2, x3, m1, m2, m3
    <3>4. \/ x1 < m1
          \/ x1 = m1 /\ x2 < m2
          \/ x1 = m1 /\ x2 = m2 /\ x3 <= m3
      BY <3>2, <3>3
    <3> QED BY <3>4 DEF x1, x2, x3, m1, m2, m3
  <2> QED BY <2>6
<1>5. PICK m \in A : \A x \in A :
        \/ x[1] < m[1]
        \/ x[1] = m[1] /\ x[2][1] < m[2][1]
        \/ x[1] = m[1] /\ x[2][1] = m[2][1] /\ x[2][2] <= m[2][2]
  BY <1>4
<1>6. \A k \in J : ConfigOf(rate, k).n = k[1] /\ ConfigOf(rate, k).point = k[2]
  BY ChoiceFacts, EvaluateFacts DEF ConfigOf
<1>7. \A e \in among : \E k \in A : e = ConfigOf(rate, k)
  BY DEF ConfigsOf
<1>8. \A k \in A : ConfigOf(rate, k) \in among
  BY DEF ConfigsOf
<1>9. \A k \in A : k \in J /\ f[k] = best
  OBVIOUS
<1>10. PL!Roomiest(ConfigsOf(rate, J))
         = CHOOSE e \in among : \A x \in among \ {e} : PL!Sooner(x, e)
  BY DEF PL!Roomiest
<1>11. \A k \in J : f[k] = PL!UseOf(ConfigOf(rate, k)) /\ (f[k] = best => k \in A)
  OBVIOUS
<1> HIDE DEF A, among, best, f
<1>12. ASSUME NEW x \in among \ {ConfigOf(rate, m)}
       PROVE  PL!Sooner(x, ConfigOf(rate, m))
  <2>1. PICK k \in A : x = ConfigOf(rate, k)
    BY <1>7
  <2>2. k # m /\ k \in J /\ m \in J
    BY <1>9, <2>1
  <2>3. /\ k = <<k[1], k[2]>> /\ m = <<m[1], m[2]>>
        /\ k[2] = <<k[2][1], k[2][2]>> /\ m[2] = <<m[2][1], m[2][2]>>
        /\ k[2][2] \in Nat /\ m[2][2] \in Nat
    BY <2>2, ChoiceFacts
  <2>4. \/ k[1] < m[1]
        \/ k[1] = m[1] /\ k[2][1] < m[2][1]
        \/ k[1] = m[1] /\ k[2][1] = m[2][1] /\ k[2][2] <= m[2][2]
    BY <1>5
  <2>5. m[1] = k[1] /\ m[2][1] = k[2][1] => m[2][2] # k[2][2]
    BY <2>2, <2>3
  <2>6. \/ k[1] < m[1]
        \/ k[1] = m[1] /\ k[2][1] < m[2][1]
        \/ k[1] = m[1] /\ k[2][1] = m[2][1] /\ k[2][2] < m[2][2]
    BY <2>3, <2>4, <2>5
  <2> QED BY <1>6, <2>1, <2>2, <2>6 DEF PL!Sooner
<1>13. /\ PL!Roomiest(ConfigsOf(rate, J)) \in among
       /\ \A x \in among \ {PL!Roomiest(ConfigsOf(rate, J))} :
            PL!Sooner(x, PL!Roomiest(ConfigsOf(rate, J)))
  BY <1>8, <1>10, <1>12
<1>14. PICK j \in A : PL!Roomiest(ConfigsOf(rate, J)) = ConfigOf(rate, j)
  BY <1>7, <1>13
<1>15. ASSUME NEW k \in J, k[2] = j[2], ~(k[1] <= j[1])
       PROVE  FALSE
  <2>1. j \in J /\ f[j] = best
    BY <1>9
  <2>2. /\ k[1] \in Nat /\ j[1] \in Nat /\ 1 <= j[1] /\ k[2] \in PL!Points
        /\ k[2][1] \in Nat /\ k[2][2] \in Nat
    BY <2>1, ChoiceFacts
  <2>3. j[1] <= k[1] /\ j[1] < k[1]
    BY <1>15, <2>2
  <2>4. f[k] <= f[j]
    <3> DEFINE a == j[1]
               b == k[1]
               pt == k[2]
    <3>1. a \in Nat /\ b \in Nat /\ 1 <= a /\ a <= b /\ pt \in PL!Points
      BY <2>2, <2>3
    <3>2. f[k] = PL!UseOf(PL!Evaluate(rate, b, pt)) /\ f[j] = PL!UseOf(PL!Evaluate(rate, a, pt))
      BY <1>11, <1>15, <2>1 DEF ConfigOf
    <3> HIDE DEF a, b, pt
    <3> QED BY <3>1, <3>2, MoreGroupsMoreRoom
  <2>5. f[k] = best
    BY <1>1, <1>3, <2>1, <2>4
  <2>6. k \in A /\ ConfigOf(rate, k) \in among
    BY <1>8, <1>11, <2>5
  <2>7. ConfigOf(rate, k).n = k[1] /\ ConfigOf(rate, j).n = j[1]
        /\ ConfigOf(rate, k).point = k[2] /\ ConfigOf(rate, j).point = j[2]
    BY <1>6, <2>1
  <2>8. ConfigOf(rate, k) # ConfigOf(rate, j)
    BY <2>2, <2>3, <2>7
  <2>9. PL!Sooner(ConfigOf(rate, k), ConfigOf(rate, j))
    BY <1>13, <1>14, <2>6, <2>8
  <2>10. \/ k[1] < j[1]
         \/ k[1] = j[1]
    BY <2>7, <2>9 DEF PL!Sooner
  <2> QED BY <2>2, <2>3, <2>10
<1> QED BY <1>9, <1>14, <1>15
-----------------------------------------------------------------------------
\* solve: a feasible configuration for the rate if there is one, otherwise all groups.
LEMMA SolveIs ==
  ASSUME ModelFits, NEW rate \in Nat, rate <= Max(Rates), NEW top \in Nat, MinGroups <= top
  PROVE  \E n \in MinGroups..top, pt \in PL!Points :
           /\ PL!Solve(rate, top) = PL!Evaluate(rate, n, pt)
           /\ ~PL!Solve(rate, top).feasible =>
                /\ n = top
                /\ \A m \in 1..top, p \in PL!Points : ~PL!Evaluate(rate, m, p).feasible
<1> DEFINE J == (MinGroups..top) \X PL!Points
           K == {k \in J : ConfigOf(rate, k).feasible}
           evals == {PL!Evaluate(rate, n, pt) : n \in MinGroups..top, pt \in PL!Points}
           ok == {e \in evals : e.feasible}
<1>1. MinGroups \in Nat /\ 1 <= MinGroups
  BY PlannerAssumption
<1>2. Candidates(J)
  <2>1. IsFiniteSet(J)
    <3>1. IsFiniteSet(MinGroups..top)
      BY <1>1, FS_Interval
    <3>2. IsFiniteSet(PClocks \X DClocks)
      BY PlannerAssumption, FS_Product
    <3>3. IsFiniteSet(PL!Points)
      BY <3>2 DEF PL!Points
    <3> QED BY <3>1, <3>3, FS_Product
  <2>2. J # {}
    <3>1. PICK p \in PClocks, d \in DClocks : TRUE
      BY PlannerAssumption
    <3>2. <<p, d>> \in PL!Points /\ top \in MinGroups..top
      BY <1>1 DEF PL!Points
    <3>3. <<top, <<p, d>>>> \in J
      BY <3>2
    <3> QED BY <3>3
  <2>3. \A k \in J : k \in Nat \X PL!Points /\ k[1] >= 1
    BY <1>1
  <2> HIDE DEF J
  <2> QED BY <2>1, <2>2, <2>3 DEF Candidates
<1>3. K # {} => Candidates(K)
  <2> HIDE DEF J
  <2>1. K \in SUBSET J /\ IsFiniteSet(J)
    BY <1>2 DEF Candidates
  <2> HIDE DEF K
  <2>2. IsFiniteSet(K)
    BY <2>1, FS_Subset
  <2> QED BY <1>2, <2>1, <2>2 DEF Candidates
<1>4. evals = ConfigsOf(rate, J)
  <2>1. \A k \in J : k[1] \in MinGroups..top /\ k[2] \in PL!Points
    OBVIOUS
  <2>2. ASSUME NEW e \in evals PROVE e \in ConfigsOf(rate, J)
    <3>1. PICK n \in MinGroups..top, pt \in PL!Points : e = PL!Evaluate(rate, n, pt)
      OBVIOUS
    <3>2. <<n, pt>> \in J /\ ConfigOf(rate, <<n, pt>>) = e
      BY <3>1 DEF ConfigOf
    <3> QED BY <3>2 DEF ConfigsOf
  <2>3. ASSUME NEW e \in ConfigsOf(rate, J) PROVE e \in evals
    <3>1. PICK k \in J : e = PL!Evaluate(rate, k[1], k[2])
      BY DEF ConfigsOf, ConfigOf
    <3> QED BY <2>1, <3>1
  <2> QED BY <2>2, <2>3
<1>5. ok = ConfigsOf(rate, K)
  <2> HIDE DEF evals, J
  <2> QED BY <1>4 DEF ConfigsOf
<1>6. PL!Solve(rate, top) = IF ok # {} THEN PL!Cheapest(ok) ELSE PL!Roomiest(evals)
  BY DEF PL!Solve
<1>7. K = {} <=> ok = {}
  BY <1>5 DEF ConfigsOf
<1>8. \A k \in J : k[1] \in MinGroups..top /\ k[2] \in PL!Points
  OBVIOUS
<1>9. \A k \in K : k \in J /\ ConfigOf(rate, k).feasible
  OBVIOUS
<1>10. K = {} => \A k \in J : ~ConfigOf(rate, k).feasible
  OBVIOUS
<1>11. \A p \in PL!Points, n \in MinGroups..top : <<n, p>> \in J
  OBVIOUS
<1> HIDE DEF J, K, evals, ok
<1>12. CASE K # {}
  <2>1. PICK j \in K : PL!Cheapest(ConfigsOf(rate, K)) = ConfigOf(rate, j)
    BY <1>3, <1>12, CheapestIs
  <2>2. PL!Solve(rate, top) = PL!Evaluate(rate, j[1], j[2])
    BY <1>5, <1>6, <1>7, <1>12, <2>1 DEF ConfigOf
  <2>3. j[1] \in MinGroups..top /\ j[2] \in PL!Points /\ PL!Evaluate(rate, j[1], j[2]).feasible
    BY <1>8, <1>9 DEF ConfigOf
  <2> QED BY <2>2, <2>3
<1>13. CASE K = {}
  <2>1. PICK j \in J : /\ PL!Roomiest(ConfigsOf(rate, J)) = ConfigOf(rate, j)
                       /\ \A k \in J : k[2] = j[2] => k[1] <= j[1]
    BY <1>2, RoomiestIs
  <2>2. PL!Solve(rate, top) = PL!Evaluate(rate, j[1], j[2])
    BY <1>4, <1>6, <1>7, <1>13, <2>1 DEF ConfigOf
  <2>3. j[1] \in MinGroups..top /\ j[2] \in PL!Points
    BY <1>8
  <2>4. j[1] = top
    <3>1. top \in MinGroups..top
      BY <1>1
    <3>2. <<top, j[2]>> \in J /\ <<top, j[2]>>[2] = j[2] /\ <<top, j[2]>>[1] = top
      BY <1>11, <2>3, <3>1
    <3>3. top <= j[1]
      BY <2>1, <3>2
    <3> QED BY <1>1, <2>3, <3>3
  <2>5. ASSUME NEW m \in 1..top, NEW p \in PL!Points, PL!Evaluate(rate, m, p).feasible
        PROVE  FALSE
    <3> DEFINE n == IF m < MinGroups THEN MinGroups ELSE m
    <3>1. n \in MinGroups..top /\ n \in Nat /\ m \in Nat /\ 1 <= m /\ m <= n
      BY <1>1
    <3> HIDE DEF n
    <3>2. rate <= rate
      OBVIOUS
    <3>3. PL!Evaluate(rate, n, p).feasible
      BY <2>5, <3>1, <3>2, CarriesLess
    <3>4. <<n, p>> \in J /\ ConfigOf(rate, <<n, p>>) = PL!Evaluate(rate, n, p)
      BY <1>11, <3>1 DEF ConfigOf
    <3> QED BY <1>10, <1>13, <3>3, <3>4
  <2> QED BY <2>2, <2>3, <2>4, <2>5
<1> QED BY <1>12, <1>13
-----------------------------------------------------------------------------
(***************************************************************************)
(* The plan's invariant.                                                    *)
(***************************************************************************)

Positions == {"active", "park", "explore"}

Tests == [point : PL!Points, rate : Nat]

ConfigFits ==
  /\ working \in PL!Points
  /\ prod \in 0..(Groups - 1) /\ canary \in Positions
  /\ PL!Active >= 1
  /\ testing \in Tests \cup {None}
  /\ testing # None <=> canary = "explore"

WindowFits ==
  /\ window \in Seq(Rates)
  /\ 1 <= Len(window) /\ Len(window) <= Hold + 1

\* The target is the last plan's, until a new model is published.
PlanFits ==
  /\ held \in 0..Hold
  /\ plan # None =>
       /\ plan.n \in Nat /\ 1 <= plan.n /\ plan.point \in PL!Points
       /\ plan.rates \in [1..plan.n -> Nat]
  /\ target = None => held = 0
  /\ target # None => target = <<plan.n, plan.point>>

\* A failed rate is capped.
FailuresCapped ==
  /\ failed \in [PL!Points -> SUBSET Nat]
  /\ \A pt \in PL!Points : \A r \in failed[pt] : caps[pt] \in Nat /\ caps[pt] <= r

\* While the groups it woke are to stay, the plan is for them, or is more recent.
StaysGrown ==
  /\ grown \in [to : Nat, ago : Nat]
  /\ grown.to > 0 =>
       /\ grown.ago < Hold
       /\ target # None => target[1] = grown.to \/ held < grown.ago

\* No configuration that may be planned carries the rate.
Uncarried(rate) == \A pt \in PL!Points : ~PL!Evaluate(rate, PL!Serving, pt).feasible

\* What the target was held through and nothing carries was answered: production has the
\* target's clocks, or the target will change as it is not for all groups.
Answered ==
  ~bestEffort /\ target # None /\ target[1] = PL!Serving =>
    \A i \in DOMAIN window :
      Len(window) - i <= held /\ Uncarried(window[i]) => target[2] = working

\* A verification begins when the others carry the peak; until the next tick they do, and
\* the target is what it tests.
TestsTarget ==
  canary = "explore" /\ target # None /\ target[1] = Groups =>
    testing.point = target[2] /\ PL!OthersCarry

PlanInv ==
  /\ ModelFits /\ ConfigFits /\ WindowFits /\ PlanFits
  /\ FailuresCapped /\ StaysGrown /\ Answered /\ TestsTarget
-----------------------------------------------------------------------------
\* The window after a tick: the new demand last, the old ones a tick older.
LEMMA WindowMoves ==
  ASSUME WindowFits, NEW rate \in Rates
  PROVE  LET w == PL!Shifted(rate) IN
         /\ w \in Seq(Rates) /\ 1 <= Len(w) /\ Len(w) <= Hold + 1
         /\ w[Len(w)] = rate
         /\ \A i \in 1..(Len(w) - 1) :
              \E j \in 1..Len(window) :
                w[i] = window[j] /\ Len(window) - j = Len(w) - i - 1
<1> DEFINE all == Append(window, rate)
           w == PL!Shifted(rate)
<1>1. Hold \in Nat /\ Hold > 0 /\ window \in Seq(Rates)
      /\ Len(window) \in Nat /\ 1 <= Len(window) /\ Len(window) <= Hold + 1
  BY PlannerAssumption DEF WindowFits
<1>2. /\ all \in Seq(Rates) /\ Len(all) = Len(window) + 1 /\ all[Len(all)] = rate
      /\ \A i \in 1..Len(window) : all[i] = window[i]
  BY <1>1
<1>3. w = IF Len(all) > Hold + 1 THEN Tail(all) ELSE all
  BY DEF PL!Shifted
<1> HIDE DEF all, w
<1>4. CASE Len(all) > Hold + 1
  <2>1. /\ w \in Seq(Rates) /\ Len(w) = Len(window)
        /\ \A i \in 1..Len(w) : w[i] = all[i + 1]
    BY <1>1, <1>2, <1>3, <1>4
  <2>2. w[Len(w)] = rate
    BY <1>1, <1>2, <2>1
  <2>3. ASSUME NEW i \in 1..(Len(w) - 1)
        PROVE  \E j \in 1..Len(window) :
                 w[i] = window[j] /\ Len(window) - j = Len(w) - i - 1
    <3>1. i + 1 \in 1..Len(window) /\ i \in 1..Len(w)
      BY <1>1, <2>1
    <3>2. w[i] = window[i + 1]
      BY <1>2, <2>1, <3>1
    <3>3. Len(window) - (i + 1) = Len(w) - i - 1
      BY <1>1, <2>1
    <3> QED BY <3>1, <3>2, <3>3
  <2> QED BY <1>1, <2>1, <2>2, <2>3 DEF w
<1>5. CASE ~(Len(all) > Hold + 1)
  <2>1. w = all
    BY <1>3, <1>5
  <2>2. ASSUME NEW i \in 1..(Len(w) - 1)
        PROVE  \E j \in 1..Len(window) :
                 w[i] = window[j] /\ Len(window) - j = Len(w) - i - 1
    <3>1. i \in 1..Len(window) /\ Len(window) - i = Len(w) - i - 1
      BY <1>1, <1>2, <2>1
    <3>2. w[i] = window[i]
      BY <1>2, <2>1, <3>1
    <3> QED BY <3>1, <3>2
  <2>3. Len(w) <= Hold + 1 /\ 1 <= Len(w)
    BY <1>1, <1>2, <1>5, <2>1
  <2> QED BY <1>2, <2>1, <2>2, <2>3 DEF w
<1> QED BY <1>4, <1>5

LEMMA PeakFacts ==
  ASSUME NEW w \in Seq(Rates), 1 <= Len(w)
  PROVE  /\ PL!Peak(w) \in Rates /\ PL!Peak(w) \in Nat /\ PL!Peak(w) <= Max(Rates)
         /\ \A i \in 1..Len(w) : w[i] \in Nat /\ w[i] <= PL!Peak(w)
         /\ \E i \in 1..Len(w) : w[i] = PL!Peak(w)
<1> DEFINE f == [i \in 1..Len(w) |-> w[i]]
           S == 1..Len(w)
<1>1. Len(w) \in Nat /\ DOMAIN w = 1..Len(w) /\ \A i \in S : w[i] \in Rates
  OBVIOUS
<1>2. IsFiniteSet(S)
  BY <1>1, FS_Interval
<1>3. S # {}
  BY <1>1
<1>4. \A i \in S : f[i] \in Int
  <2>1. \A i \in S : f[i] = w[i]
    OBVIOUS
  <2>2. \A r \in Rates : r \in Int
    BY LargestRate
  <2> HIDE DEF f, S
  <2> QED BY <1>1, <2>1, <2>2
<1>5. PL!Peak(w) = Max({f[i] : i \in S})
  <2>1. Range(w) = {w[i] : i \in S}
    BY <1>1 DEF Range
  <2>2. {w[i] : i \in S} = {f[i] : i \in S}
    OBVIOUS
  <2> QED BY <2>1, <2>2, PlannerOperators DEF PL!Peak
<1>6. \A i \in S : f[i] = w[i]
  OBVIOUS
<1> HIDE DEF f, S
<1>7. /\ \E i \in S : Max({f[x] : x \in S}) = f[i]
      /\ \A i \in S : f[i] <= Max({f[x] : x \in S})
  BY <1>2, <1>3, <1>4, MaxOfImage
<1>8. PICK i \in S : PL!Peak(w) = w[i]
  BY <1>5, <1>6, <1>7
<1>9. \A k \in S : w[k] <= PL!Peak(w)
  BY <1>5, <1>6, <1>7
<1> QED BY <1>1, <1>8, <1>9, LargestRate DEF S

\* Following a plan: what has to wake wakes, and not more than the plan leaves parks.
LEMMA FollowFacts ==
  ASSUME ConfigFits, NEW goal, goal.n \in MinGroups..PL!Serving, PL!Follow(goal)
  PROVE  /\ prod' \in 0..(Groups - 1) /\ canary' \in Positions
         /\ canary' = "explore" <=> canary = "explore"
         /\ PL!ActiveOf(prod', canary') >= goal.n
         /\ PL!Active < goal.n => PL!ActiveOf(prod', canary') = goal.n
         /\ PL!Active <= goal.n =>
              prod <= prod' /\ ~(canary = "active" /\ canary' = "park")
<1> DEFINE n == goal.n
           a == PL!Active
           room == Groups - 1 - prod
           more == PL!Max({0, n - a})
           up == PL!Woken(n)
<1>1. /\ Groups \in Nat /\ MinGroups \in Nat /\ 1 <= MinGroups
      /\ prod \in Int /\ 0 <= prod /\ prod <= Groups - 1 /\ canary \in Positions
  BY PlannerAssumption DEF ConfigFits
<1>2. /\ a = prod + (IF canary = "active" THEN 1 ELSE 0)
      /\ PL!Serving = Groups - (IF canary = "explore" THEN 1 ELSE 0)
  BY DEF PL!Active, PL!ActiveOf, PL!Serving
<1>3. a \in Int /\ n \in Int /\ MinGroups <= n /\ n <= PL!Serving /\ PL!Serving \in Int
  BY <1>1, <1>2
<1>4. more = IF n - a < 0 THEN 0 ELSE n - a
  BY <1>3, LargerOfZero, PlannerOperators
<1>5. up[1] = prod + (IF more <= room THEN more ELSE room)
      /\ up[2] = IF more > room /\ canary = "park" THEN "active" ELSE canary
  BY DEF PL!Woken, PL!AtMost
<1>6. working' = goal.point /\ prod' = PL!Drained(up, n)[1] /\ canary' = PL!Drained(up, n)[2]
  BY DEF PL!Follow
<1>7. PL!Max({n, MinGroups}) = n
  <2> HIDE DEF n
  <2>1. \A x \in {n, MinGroups} : n >= x /\ x \in Int
    BY <1>1, <1>3
  <2>2. PL!Max({n, MinGroups}) \in {n, MinGroups} /\ \A x \in {n, MinGroups} : PL!Max({n, MinGroups}) >= x
    BY <2>1 DEF PL!Max
  <2> QED BY <2>1, <2>2, <1>1, <1>3
<1> HIDE DEF a, room, more, up
<1>8. PL!Drained(up, n) =
        IF PL!ActiveOf(up[1], up[2]) > n
        THEN IF up[2] = "active" THEN <<up[1], "park">> ELSE <<up[1] - 1, up[2]>>
        ELSE up
  BY <1>7 DEF PL!Drained
<1> HIDE DEF n
<1>9. /\ up[1] \in Int /\ prod <= up[1] /\ up[1] <= Groups - 1 /\ up[2] \in Positions
      /\ up[2] = "explore" <=> canary = "explore"
      /\ canary = "active" => up[2] = "active"
      /\ PL!ActiveOf(up[1], up[2]) = IF a < n THEN n ELSE a
  <2>1. CASE canary = "active"
    BY <1>1, <1>2, <1>3, <1>4, <1>5, <2>1 DEF PL!ActiveOf, Positions, room
  <2>2. CASE canary = "explore"
    BY <1>1, <1>2, <1>3, <1>4, <1>5, <2>2 DEF PL!ActiveOf, Positions, room
  <2>3. CASE canary = "park"
    BY <1>1, <1>2, <1>3, <1>4, <1>5, <2>3 DEF PL!ActiveOf, Positions, room
  <2> QED BY <1>1, <2>1, <2>2, <2>3 DEF Positions
<1>10. PL!ActiveOf(up[1], up[2]) = up[1] + (IF up[2] = "active" THEN 1 ELSE 0)
  BY DEF PL!ActiveOf
<1> DEFINE u == up[1]
           v == up[2]
<1>11. CASE PL!ActiveOf(u, v) > n
  <2>1. CASE v = "active"
    <3>1. prod' = u /\ canary' = "park"
      BY <1>6, <1>8, <1>11, <2>1
    <3>2. a > n
      BY <1>3, <1>9, <1>11
    <3>3. PL!ActiveOf(prod', canary') >= n
      BY <1>3, <1>9, <1>10, <1>11, <2>1, <3>1 DEF PL!ActiveOf
    <3> QED BY <1>1, <1>3, <1>9, <2>1, <3>1, <3>2, <3>3 DEF Positions, a, n
  <2>2. CASE v # "active"
    <3>1. prod' = u - 1 /\ canary' = v
      BY <1>6, <1>8, <1>11, <2>2
    <3>2. a > n /\ u > n
      BY <1>3, <1>9, <1>10, <1>11, <2>2
    <3>3. PL!ActiveOf(prod', canary') >= n
      BY <1>3, <1>9, <2>2, <3>1, <3>2 DEF PL!ActiveOf
    <3> QED BY <1>1, <1>3, <1>9, <2>2, <3>1, <3>2, <3>3 DEF Positions, a, n
  <2> QED BY <2>1, <2>2
<1>12. CASE ~(PL!ActiveOf(u, v) > n)
  <2>1. prod' = u /\ canary' = v
    BY <1>6, <1>8, <1>12
  <2>2. PL!ActiveOf(prod', canary') = n
    BY <1>3, <1>9, <1>12, <2>1
  <2> QED BY <1>1, <1>3, <1>9, <2>1, <2>2 DEF Positions, a, n
<1> QED BY <1>11, <1>12
-----------------------------------------------------------------------------
LEMMA ActiveFits ==
  ASSUME ConfigFits
  PROVE  /\ PL!Active \in Nat /\ 1 <= PL!Active /\ PL!Active <= PL!Serving
         /\ PL!Serving \in Nat /\ MinGroups <= PL!Serving /\ PL!Serving <= Groups
         /\ PL!Max({PL!Active, 1}) = PL!Active
<1>1. /\ Groups \in Nat /\ MinGroups \in Nat /\ MinGroups < Groups
      /\ prod \in Int /\ 0 <= prod /\ prod <= Groups - 1 /\ canary \in Positions
      /\ PL!Active >= 1
  BY PlannerAssumption DEF ConfigFits
<1>2. /\ PL!Active = prod + (IF canary = "active" THEN 1 ELSE 0)
      /\ PL!Serving = Groups - (IF canary = "explore" THEN 1 ELSE 0)
  BY DEF PL!Active, PL!ActiveOf, PL!Serving
<1>3. PL!Active \in Int /\ PL!Active <= PL!Serving /\ PL!Serving \in Nat
      /\ MinGroups <= PL!Serving /\ PL!Serving <= Groups
  BY <1>1, <1>2
<1> DEFINE a == PL!Active
<1>4. a \in Int /\ a >= 1
  BY <1>1, <1>3
<1> HIDE DEF a
<1>5. \A x \in {a, 1} : a >= x
  BY <1>4
<1>6. PL!Max({a, 1}) \in {a, 1} /\ \A x \in {a, 1} : PL!Max({a, 1}) >= x
  BY <1>5 DEF PL!Max
<1>7. PL!Max({a, 1}) = a
  BY <1>4, <1>6
<1> QED BY <1>1, <1>3, <1>7 DEF a

\* One tick: the window, the plan made for its peak, and what is done about it.
LEMMA TickFacts ==
  ASSUME PlanInv, NEW rate \in Rates, NEW calm \in BOOLEAN, PL!Tick(rate, calm)
  PROVE  /\ UNCHANGED <<bestEffort, caps, capacity, verified, testing, failed>>
         /\ window' = PL!Shifted(rate)
         /\ window' \in Seq(Rates) /\ 1 <= Len(window') /\ Len(window') <= Hold + 1
         /\ window'[Len(window')] = rate
         /\ plan' = PL!Evaluate(PL!Peak(window'), plan'.n, plan'.point)
         /\ plan'.n \in MinGroups..PL!Serving /\ plan'.point \in PL!Points
         /\ ~plan'.feasible =>
              /\ plan'.n = PL!Serving
              /\ \A m \in 1..PL!Serving, p \in PL!Points :
                   ~PL!Evaluate(PL!Peak(window'), m, p).feasible
         /\ target' = <<plan'.n, plan'.point>> /\ target' # None
         /\ held' = PL!HeldSince(plan')
         /\ LET current == PL!Evaluate(rate, PL!Active, working) IN
            \/ PL!Moves(current, plan', calm) /\ PL!Follow(plan')
            \/ ~PL!Moves(current, plan', calm) /\ UNCHANGED <<working, prod, canary>>
         /\ grown' = PL!GrownSince(PL!ActiveOf(prod', canary'))
<1> DEFINE current == PL!Evaluate(rate, PL!Max({PL!Active, 1}), working)
<1>1. /\ UNCHANGED <<bestEffort, caps, capacity, verified, testing, failed>>
      /\ window' = PL!Shifted(rate)
      /\ plan' = PL!Solve(PL!Peak(window'), PL!Serving)
      /\ held' = PL!HeldSince(plan')
      /\ target' = <<plan'.n, plan'.point>>
      /\ IF PL!Moves(current, plan', calm) THEN PL!Follow(plan')
         ELSE UNCHANGED <<working, prod, canary>>
      /\ grown' = PL!GrownSince(PL!ActiveOf(prod', canary'))
  BY DEF PL!Tick, PL!model, PL!config, PL!PlannedFor
<1>2. ModelFits /\ ConfigFits /\ WindowFits
  BY DEF PlanInv
<1>3. /\ window' \in Seq(Rates) /\ 1 <= Len(window') /\ Len(window') <= Hold + 1
      /\ window'[Len(window')] = rate
  BY <1>1, <1>2, WindowMoves
<1> DEFINE peak == PL!Peak(window')
           top == PL!Serving
<1>4. peak \in Nat /\ peak <= Max(Rates)
  <2> DEFINE w == window'
  <2>1. w \in Seq(Rates) /\ 1 <= Len(w)
    BY <1>3
  <2> HIDE DEF w
  <2>2. PL!Peak(w) \in Nat /\ PL!Peak(w) <= Max(Rates)
    BY <2>1, PeakFacts
  <2> QED BY <2>2 DEF w
<1>5. top \in Nat /\ MinGroups <= top
  BY <1>2, ActiveFits
<1>6. plan' = PL!Solve(peak, top)
  BY <1>1
<1> HIDE DEF peak, top
<1>7. PICK n \in MinGroups..top, pt \in PL!Points :
           /\ PL!Solve(peak, top) = PL!Evaluate(peak, n, pt)
           /\ ~PL!Solve(peak, top).feasible =>
                /\ n = top
                /\ \A m \in 1..top, p \in PL!Points : ~PL!Evaluate(peak, m, p).feasible
  BY <1>2, <1>4, <1>5, SolveIs
<1>8. plan'.n = n /\ plan'.point = pt
  <2>1. n \in Nat
    BY <1>5, PlannerAssumption
  <2> QED BY <1>2, <1>4, <1>6, <1>7, <2>1, EvaluateFacts
<1>9. /\ plan' = PL!Evaluate(peak, plan'.n, plan'.point)
      /\ plan'.n \in MinGroups..top /\ plan'.point \in PL!Points
      /\ ~plan'.feasible =>
           /\ plan'.n = top
           /\ \A m \in 1..top, p \in PL!Points : ~PL!Evaluate(peak, m, p).feasible
  BY <1>6, <1>7, <1>8
<1>10. target' # None
  <2>1. target' \in Nat \X PL!Points
    BY <1>1, <1>5, <1>9, PlannerAssumption
  <2>2. None \notin Nat \X PL!Points
    BY PlannerAssumption DEF PL!Points
  <2> QED BY <2>1, <2>2
<1>11. current = PL!Evaluate(rate, PL!Active, working)
  BY <1>2, ActiveFits
<1> QED BY <1>1, <1>3, <1>9, <1>10, <1>11 DEF peak, top

\* How long the target has been held after a plan.
LEMMA HeldFacts ==
  ASSUME PlanInv, NEW goal
  PROVE  /\ PL!HeldSince(goal) \in 0..Hold
         /\ target # <<goal.n, goal.point>> => PL!HeldSince(goal) = 0
         /\ PL!HeldSince(goal) <= held + 1
         /\ PL!HeldSince(goal) > 0 => target = <<goal.n, goal.point>>
<1>1. held \in 0..Hold /\ Hold \in Nat
  BY PlannerAssumption DEF PlanInv, PlanFits
<1>2. PL!HeldSince(goal) = IF target = <<goal.n, goal.point>>
                           THEN IF held + 1 <= Hold THEN held + 1 ELSE Hold
                           ELSE 0
  BY DEF PL!HeldSince, PL!AtMost
<1> QED BY <1>1, <1>2
-----------------------------------------------------------------------------
\* What is uncarried by all that may be planned is not carried by what is active.
LEMMA ActiveCarriesNoMore ==
  ASSUME PlanInv, NEW rate \in Rates, Uncarried(rate)
  PROVE  ~PL!Evaluate(rate, PL!Active, working).feasible
<1>1. ModelFits /\ ConfigFits /\ working \in PL!Points
  BY DEF PlanInv, ConfigFits
<1>2. rate \in Nat /\ rate <= rate
  BY LargestRate
<1> DEFINE a == PL!Active
           s == PL!Serving
<1>3. a \in Nat /\ s \in Nat /\ 1 <= a /\ a <= s
  BY <1>1, ActiveFits
<1>4. ~PL!Evaluate(rate, s, working).feasible
  BY <1>1 DEF Uncarried
<1> HIDE DEF a, s
<1> SUFFICES ~PL!Evaluate(rate, a, working).feasible
  BY DEF a
<1> QED BY <1>1, <1>2, <1>3, <1>4, CarriesLess

\* While the Canary explores and the others carry the peak, no demand is uncarried.
LEMMA OthersCarryAll ==
  ASSUME PlanInv, PL!OthersCarry, NEW i \in 1..Len(window), NEW s \in {Groups - 1, Groups}
  PROVE  PL!Evaluate(window[i], s, working).feasible
<1>1. ModelFits /\ working \in PL!Points /\ window \in Seq(Rates) /\ 1 <= Len(window)
  BY DEF PlanInv, ConfigFits, WindowFits
<1>2. PL!Peak(window) \in Nat /\ window[i] \in Nat /\ window[i] <= PL!Peak(window)
  BY <1>1, PeakFacts
<1>3. prod \in Nat /\ 1 <= prod /\ prod <= s /\ s \in Nat
  BY PlannerAssumption DEF PlanInv, ConfigFits, PL!OthersCarry
<1>4. PL!Evaluate(PL!Peak(window), prod, working).feasible
  BY DEF PL!OthersCarry
<1> QED BY <1>1, <1>2, <1>3, <1>4, CarriesLess

LEMMA PlanInvBegins ==
  ASSUME PL!Init
  PROVE  PlanInv
<1>1. /\ window = <<Max(Rates)>> /\ working = <<Max(PClocks), Max(DClocks)>>
      /\ prod = Groups - 1 /\ canary = "active"
      /\ target = None /\ held = 0 /\ plan = None /\ testing = None
      /\ caps = [pt \in PL!Points |-> None]
      /\ capacity = [pt \in PL!Points |-> PL!CapacityOf(pt, None)]
      /\ failed = [pt \in PL!Points |-> {}]
      /\ grown = [to |-> 0, ago |-> 0]
  BY PlannerOperators DEF PL!Init
<1>2. ModelFits
  BY <1>1 DEF ModelFits, Caps
<1>3. ConfigFits
  <2>1. Max(PClocks) \in PClocks /\ Max(DClocks) \in DClocks
    <3>1. PClocks \in SUBSET Int /\ DClocks \in SUBSET Int
      BY PlannerAssumption
    <3> QED BY <3>1, PlannerAssumption, MaxIsLargest
  <2>2. working \in PL!Points
    BY <1>1, <2>1 DEF PL!Points
  <2>3. PL!Active >= 1 /\ prod \in 0..(Groups - 1)
    BY <1>1, PlannerAssumption DEF PL!Active, PL!ActiveOf
  <2> QED BY <1>1, <2>2, <2>3 DEF ConfigFits, Positions
<1>4. WindowFits
  <2>1. Max(Rates) \in Rates
    <3>1. Rates \in SUBSET Int /\ IsFiniteSet(Rates) /\ Rates # {}
      BY PlannerAssumption
    <3> QED BY <3>1, MaxIsLargest
  <2>2. window \in Seq(Rates) /\ Len(window) = 1
    BY <1>1, <2>1
  <2> QED BY <2>2, PlannerAssumption DEF WindowFits
<1>5. PlanFits
  BY <1>1, PlannerAssumption DEF PlanFits
<1>6. FailuresCapped
  BY <1>1 DEF FailuresCapped
<1>7. StaysGrown
  BY <1>1 DEF StaysGrown
<1>8. Answered /\ TestsTarget
  BY <1>1 DEF Answered, TestsTarget
<1> QED BY <1>2, <1>3, <1>4, <1>5, <1>6, <1>7, <1>8 DEF PlanInv

LEMMA TickKeeps ==
  ASSUME PlanInv, NEW rate \in Rates, NEW calm \in BOOLEAN, PL!Tick(rate, calm)
  PROVE  PlanInv'
<1>1. ModelFits /\ ConfigFits /\ WindowFits /\ PlanFits /\ StaysGrown /\ Answered
      /\ FailuresCapped
  BY DEF PlanInv
<1>2. /\ UNCHANGED <<bestEffort, caps, capacity, verified, testing, failed>>
      /\ window' = PL!Shifted(rate)
      /\ window' \in Seq(Rates) /\ 1 <= Len(window') /\ Len(window') <= Hold + 1
      /\ window'[Len(window')] = rate
      /\ plan' = PL!Evaluate(PL!Peak(window'), plan'.n, plan'.point)
      /\ plan'.n \in MinGroups..PL!Serving /\ plan'.point \in PL!Points
      /\ target' = <<plan'.n, plan'.point>> /\ target' # None
      /\ held' = PL!HeldSince(plan')
      /\ grown' = PL!GrownSince(PL!ActiveOf(prod', canary'))
  BY TickFacts
<1>3. LET current == PL!Evaluate(rate, PL!Active, working) IN
      \/ PL!Moves(current, plan', calm) /\ PL!Follow(plan')
      \/ ~PL!Moves(current, plan', calm) /\ UNCHANGED <<working, prod, canary>>
  BY TickFacts
<1>4. /\ prod' \in 0..(Groups - 1) /\ canary' \in Positions
      /\ canary' = "explore" <=> canary = "explore"
      /\ working' \in PL!Points
      /\ PL!ActiveOf(prod', canary') >= 1
      /\ PL!ActiveOf(prod', canary') > PL!Active =>
           PL!ActiveOf(prod', canary') = plan'.n
  <2>1. PL!Active \in Nat /\ 1 <= PL!Active /\ PL!Serving \in Nat
    BY <1>1, ActiveFits
  <2>2. MinGroups \in Nat /\ 1 <= MinGroups /\ Groups \in Nat
    BY PlannerAssumption
  <2>3. CASE PL!Follow(plan')
    <3> DEFINE goal == plan'
    <3>1. goal.n \in MinGroups..PL!Serving /\ PL!Follow(goal)
      BY <1>2, <2>3
    <3> HIDE DEF goal
    <3>2. /\ prod' \in 0..(Groups - 1) /\ canary' \in Positions
          /\ canary' = "explore" <=> canary = "explore"
          /\ PL!ActiveOf(prod', canary') >= goal.n
          /\ PL!Active < goal.n => PL!ActiveOf(prod', canary') = goal.n
      BY <1>1, <3>1, FollowFacts
    <3>3. working' = plan'.point
      BY <2>3 DEF PL!Follow
    <3> DEFINE b == PL!ActiveOf(prod', canary')
               a == PL!Active
               n == goal.n
    <3>4. b \in Int
      BY <3>2, <2>2 DEF PL!ActiveOf
    <3>5. n \in Int /\ 1 <= n /\ a \in Int
      BY <2>1, <2>2, <3>1
    <3>6. b >= n /\ (a < n => b = n)
      BY <3>2
    <3> HIDE DEF a, b, n
    <3>7. ASSUME b > a PROVE b = n \/ n <= a
      BY <3>4, <3>5, <3>6, <3>7
    <3>8. ASSUME a >= n PROVE b <= a
      <4>1. PL!Drained(PL!Woken(goal.n), goal.n)[1] = prod'
            /\ PL!Drained(PL!Woken(goal.n), goal.n)[2] = canary'
        BY <3>1 DEF PL!Follow
      <4>2. goal.n - PL!Active <= 0
        BY <3>5, <3>8 DEF a, n
      <4>3. PL!Max({0, goal.n - PL!Active}) = 0
        <5> DEFINE d == goal.n - PL!Active
        <5>1. d \in Int /\ d <= 0
          BY <3>5, <4>2 DEF a, n
        <5> HIDE DEF d
        <5>2. Max({0, d}) = 0
          BY <5>1, LargerOfZero
        <5> QED BY <5>2, PlannerOperators DEF d
      <4>4. Groups - 1 - prod >= 0 /\ prod \in Int
        BY <1>1, <2>2 DEF ConfigFits
      <4>5. PL!Woken(goal.n) = <<prod, canary>>
        BY <2>2, <4>3, <4>4 DEF PL!Woken, PL!AtMost
      <4>6. \/ prod' = prod /\ canary' = canary
            \/ canary = "active" /\ prod' = prod /\ canary' = "park"
            \/ canary # "active" /\ prod' = prod - 1 /\ canary' = canary
        BY <4>1, <4>5 DEF PL!Drained
      <4> QED BY <4>4, <4>6 DEF a, b, PL!Active, PL!ActiveOf
    <3>9. b > a => b = n
      BY <3>4, <3>5, <3>7, <3>8
    <3>10. b >= 1
      BY <3>4, <3>5, <3>6
    <3> QED BY <1>2, <3>2, <3>3, <3>9, <3>10 DEF a, b, n, goal
  <2>4. CASE UNCHANGED <<working, prod, canary>>
    <3>1. PL!ActiveOf(prod', canary') = PL!Active
      BY <2>4 DEF PL!Active
    <3> QED BY <1>1, <2>1, <2>4, <3>1 DEF ConfigFits
  <2> QED BY <1>3, <2>3, <2>4
<1>5. ModelFits'
  BY <1>1, <1>2 DEF ModelFits
<1>6. ConfigFits'
  <2>1. PL!Active' >= 1
    BY <1>4 DEF PL!Active
  <2>2. testing' \in Tests \cup {None} /\ (testing' # None <=> canary' = "explore")
    BY <1>1, <1>2, <1>4 DEF ConfigFits
  <2> QED BY <1>4, <2>1, <2>2 DEF ConfigFits
<1>7. WindowFits'
  BY <1>2 DEF WindowFits
<1>8. held' \in 0..Hold /\ held' <= held + 1
      /\ (target # target' => held' = 0) /\ (held' > 0 => target = target')
  <2> DEFINE goal == plan'
  <2> HIDE DEF goal
  <2>1. /\ PL!HeldSince(goal) \in 0..Hold
        /\ target # <<goal.n, goal.point>> => PL!HeldSince(goal) = 0
        /\ PL!HeldSince(goal) <= held + 1
        /\ PL!HeldSince(goal) > 0 => target = <<goal.n, goal.point>>
    BY HeldFacts
  <2> QED BY <1>2, <2>1 DEF goal
<1>9. PlanFits'
  <2>1. plan'.n \in Nat /\ 1 <= plan'.n
    <3>1. PL!Serving \in Nat
      BY <1>1, ActiveFits
    <3> QED BY <1>2, <3>1, PlannerAssumption
  <2>2. plan'.rates \in [1..plan'.n -> Nat]
    <3> DEFINE w == window'
               n == plan'.n
               pt == plan'.point
    <3>1. n \in Nat /\ pt \in PL!Points /\ w \in Seq(Rates) /\ 1 <= Len(w)
      BY <1>2, <2>1
    <3>2. plan' = PL!Evaluate(PL!Peak(w), n, pt)
      BY <1>2
    <3> HIDE DEF w, n, pt
    <3>3. PL!Peak(w) \in Nat
      BY <3>1, PeakFacts
    <3> DEFINE r == PL!Peak(w)
    <3> HIDE DEF r
    <3>4. PL!Evaluate(r, n, pt).rates = PL!Filled(r, n, pt)
      BY <1>1, <3>1, <3>3, EvaluateFacts DEF r
    <3>5. /\ DOMAIN PL!Filled(r, n, pt) = 1..n
          /\ \A i \in 1..n : PL!Filled(r, n, pt)[i] \in Nat
      BY <1>1, <3>1, <3>3, FilledFacts DEF r
    <3>6. PL!Filled(r, n, pt) = [i \in 1..n |-> PL!Filled(r, n, pt)[i]]
      BY <3>5 DEF PL!Filled
    <3>7. PL!Filled(r, n, pt) \in [1..n -> Nat]
      BY <3>5, <3>6
    <3> QED BY <3>2, <3>4, <3>7 DEF r, n
  <2> QED BY <1>2, <1>8, <2>1, <2>2 DEF PlanFits
<1>10. FailuresCapped'
  BY <1>1, <1>2 DEF FailuresCapped
<1>11. StaysGrown'
  <2> DEFINE b == PL!ActiveOf(prod', canary')
             a == PL!Active
             n == plan'.n
  <2>1. a \in Nat /\ b \in Int /\ b >= 1 /\ (b > a => b = n) /\ Hold \in Nat /\ Hold > 0
        /\ held \in Nat
    <3>1. b \in Int
      BY <1>4, PlannerAssumption DEF PL!ActiveOf
    <3> QED BY <1>1, <1>4, <3>1, ActiveFits, PlannerAssumption DEF PlanFits
  <2>2. grown' =
          CASE b > a -> [to |-> b, ago |-> 0]
            [] b <= a /\ grown.ago + 1 < Hold /\ grown.to > 0 -> [grown EXCEPT !.ago = @ + 1]
            [] OTHER -> [to |-> 0, ago |-> 0]
    BY <1>2 DEF PL!GrownSince
  <2>3. grown \in [to : Nat, ago : Nat] /\ grown.to \in Nat /\ grown.ago \in Nat
    BY <1>1 DEF StaysGrown
  <2>4. target' # None /\ target'[1] = n
    BY <1>2
  <2> HIDE DEF a, b, n
  <2>5. CASE b > a
    <3>1. grown' = [to |-> b, ago |-> 0]
      BY <2>1, <2>2, <2>5
    <3>2. grown'.to = b /\ grown'.ago = 0 /\ grown' \in [to : Nat, ago : Nat]
      BY <2>1, <3>1
    <3> QED BY <2>1, <2>4, <2>5, <3>2 DEF StaysGrown
  <2>6. CASE ~(b > a) /\ grown.ago + 1 < Hold /\ grown.to > 0
    <3>1. grown' = [grown EXCEPT !.ago = @ + 1]
      <4>1. b <= a
        BY <2>1, <2>6
      <4> QED BY <2>2, <2>6, <4>1
    <3>2. grown' \in [to : Nat, ago : Nat]
      BY <2>3, <3>1
    <3>3. grown'.to = grown.to /\ grown'.ago = grown.ago + 1
      BY <2>3, <3>1
    <3>4. ASSUME target' # None PROVE target'[1] = grown'.to \/ held' < grown'.ago
      <4>1. CASE target' = target
        <5>1. target[1] = grown.to \/ held < grown.ago
          BY <1>1, <2>6, <3>4, <4>1 DEF StaysGrown
        <5> QED BY <1>8, <2>1, <2>3, <3>3, <4>1, <5>1
      <4>2. CASE target' # target
        BY <1>8, <2>3, <3>3, <4>2
      <4> QED BY <4>1, <4>2
    <3> QED BY <2>6, <3>2, <3>3, <3>4 DEF StaysGrown
  <2>7. CASE ~(b > a) /\ ~(grown.ago + 1 < Hold /\ grown.to > 0)
    <3>1. grown' = [to |-> 0, ago |-> 0]
      BY <2>2, <2>7
    <3> QED BY <3>1 DEF StaysGrown
  <2> QED BY <2>5, <2>6, <2>7
<1>12. Answered'
  <2> SUFFICES ASSUME ~bestEffort, target'[1] = PL!Serving', NEW i \in DOMAIN window',
                      Len(window') - i <= held', Uncarried(window[i])'
               PROVE  target'[2] = working'
    BY <1>2 DEF Answered
  <2>1. PL!Serving' = PL!Serving
    BY <1>4 DEF PL!Serving
  <2>2. i \in 1..Len(window') /\ Len(window') \in Nat
    BY <1>2
  <2>3. Uncarried(window'[i])
    <3>1. \A pt \in PL!Points :
            PL!Evaluate(window[i], PL!Serving, pt)' = PL!Evaluate(window'[i], PL!Serving, pt)
      BY <1>2, <2>1 DEF PL!Evaluate, PL!Filled
    <3> QED BY <3>1 DEF Uncarried
  <2>4. target'[2] = plan'.point /\ target'[1] = plan'.n
    BY <1>2
  <2>5. PL!Follow(plan') => working' = target'[2]
    BY <2>4 DEF PL!Follow
  <2>6. CASE i = Len(window')
    <3>1. ~PL!Evaluate(rate, PL!Active, working).feasible
      BY <1>2, <2>3, <2>6, ActiveCarriesNoMore
    <3>2. ~PL!OnlyWarns(PL!Evaluate(rate, PL!Active, working), plan')
      BY <1>2 DEF PL!OnlyWarns
    <3>3. <<plan'.n, plan'.point>> = <<PL!Active, working>>
          \/ PL!Moves(PL!Evaluate(rate, PL!Active, working), plan', calm)
      BY <3>1, <3>2 DEF PL!Moves
    <3>4. CASE PL!Moves(PL!Evaluate(rate, PL!Active, working), plan', calm)
      BY <1>3, <2>5, <3>4
    <3>5. CASE ~PL!Moves(PL!Evaluate(rate, PL!Active, working), plan', calm)
      <4>1. plan'.point = working
        BY <3>3, <3>5
      <4>2. working' = working
        BY <1>3, <3>5
      <4> QED BY <2>4, <4>1, <4>2
    <3> QED BY <3>4, <3>5
  <2>7. CASE i # Len(window')
    <3>1. i \in 1..(Len(window') - 1)
      BY <2>2, <2>7
    <3>2. PICK j \in 1..Len(window) :
            window'[i] = window[j] /\ Len(window) - j = Len(window') - i - 1
      BY <1>1, <1>2, <3>1, WindowMoves
    <3>3. held \in Nat /\ held' \in Nat /\ Len(window) \in Nat
      BY <1>1, <1>8, PlannerAssumption DEF PlanFits, WindowFits
    <3>4. held' > 0 /\ Len(window) - j <= held
      BY <1>8, <2>2, <3>1, <3>2, <3>3
    <3>5. target = target'
      BY <1>8, <3>4
    <3>6. j \in DOMAIN window /\ Uncarried(window[j])
      BY <1>1, <2>3, <3>2 DEF WindowFits
    <3>7. target # None /\ target[1] = PL!Serving
      BY <1>2, <2>1, <3>5
    <3>8. target[2] = working
      BY <1>1, <1>2, <3>4, <3>6, <3>7 DEF Answered
    <3> QED BY <1>3, <2>5, <3>5, <3>8
  <2> QED BY <2>6, <2>7
<1>13. TestsTarget'
  <2>1. ASSUME canary' = "explore" PROVE target'[1] # Groups
    <3>1. PL!Serving = Groups - 1
      BY <1>4, <2>1 DEF PL!Serving
    <3> QED BY <1>2, <3>1, PlannerAssumption
  <2> QED BY <2>1 DEF TestsTarget
<1> QED BY <1>5, <1>6, <1>7, <1>9, <1>10, <1>11, <1>12, <1>13 DEF PlanInv
-----------------------------------------------------------------------------
LEMMA StartKeeps ==
  ASSUME PlanInv, PL!StartVerify
  PROVE  PlanInv'
<1>1. ModelFits /\ ConfigFits /\ WindowFits /\ PlanFits /\ FailuresCapped /\ StaysGrown
  BY DEF PlanInv
<1>2. /\ canary # "explore" /\ PL!Unverified /\ PL!OthersCarry
      /\ canary' = "explore"
      /\ testing' = [point |-> plan.point, rate |-> PL!PlannedRate]
      /\ UNCHANGED <<bestEffort, window, working, prod, plan, held, target, caps, capacity,
                     verified, failed, grown>>
  BY DEF PL!StartVerify, PL!model
<1>3. plan.n \in Nat /\ 1 <= plan.n /\ plan.point \in PL!Points /\ plan.rates \in [1..plan.n -> Nat]
  BY <1>1, <1>2 DEF PlanFits, PL!Unverified
<1>4. PL!PlannedRate \in Nat
  <2> DEFINE f == plan.rates
             S == 1..plan.n
  <2>1. IsFiniteSet(S)
    BY <1>3, FS_Interval
  <2>2. S # {} /\ \A i \in S : f[i] \in Int /\ f[i] \in Nat
    BY <1>3
  <2>3. PL!PlannedRate = Max({f[i] : i \in S})
    <3>1. Range(f) = {f[i] : i \in S}
      BY <1>3 DEF Range
    <3> QED BY <3>1, PlannerOperators DEF PL!PlannedRate
  <2> HIDE DEF f, S
  <2>4. \E i \in S : Max({f[x] : x \in S}) = f[i]
    BY <2>1, <2>2, MaxOfImage
  <2> QED BY <2>2, <2>3, <2>4
<1>5. testing' \in Tests /\ testing' # None /\ testing'.point = plan.point
  <2>1. testing' \in Tests
    BY <1>2, <1>3, <1>4 DEF Tests
  <2>2. None \notin Tests
    BY PlannerAssumption DEF Tests, PL!Points
  <2> QED BY <1>2, <2>1, <2>2
<1>6. prod \in Int /\ prod >= 1
  BY <1>1, <1>2, PlannerAssumption DEF ConfigFits, PL!OthersCarry
<1>7. ModelFits' /\ WindowFits' /\ PlanFits' /\ FailuresCapped' /\ StaysGrown'
  BY <1>1, <1>2 DEF ModelFits, WindowFits, PlanFits, FailuresCapped, StaysGrown
<1>8. ConfigFits'
  <2>1. PL!Active' >= 1
    BY <1>2, <1>6 DEF PL!Active, PL!ActiveOf
  <2> QED BY <1>1, <1>2, <1>5, <2>1 DEF ConfigFits, Positions
<1>9. PL!OthersCarry'
  BY <1>2 DEF PL!OthersCarry, PL!Evaluate, PL!Filled
<1>10. TestsTarget'
  <2>1. target # None => plan.point = target[2]
    BY <1>1 DEF PlanFits
  <2> QED BY <1>2, <1>5, <1>9, <2>1 DEF TestsTarget
<1>11. Answered'
  <2> SUFFICES ASSUME NEW i \in DOMAIN window', Uncarried(window[i])'
               PROVE  FALSE
    BY DEF Answered
  <2>1. i \in 1..Len(window)
    BY <1>1, <1>2 DEF WindowFits
  <2>2. PL!Serving' = Groups - 1
    BY <1>2 DEF PL!Serving
  <2>3. PL!Evaluate(window[i], Groups - 1, working).feasible
    BY <1>2, <2>1, OthersCarryAll
  <2>4. PL!Evaluate(window[i], PL!Serving, working)' = PL!Evaluate(window[i], Groups - 1, working)
    BY <1>2, <2>2 DEF PL!Evaluate, PL!Filled
  <2>5. working \in PL!Points /\ working' = working
    BY <1>1, <1>2 DEF ConfigFits
  <2> QED BY <2>3, <2>4, <2>5 DEF Uncarried
<1> QED BY <1>7, <1>8, <1>10, <1>11 DEF PlanInv

\* The Canary is back, and what it tested is the plan's, if the plan is for all groups.
LEMMA ReturnKeeps ==
  ASSUME PlanInv, PL!Returns, ModelFits', FailuresCapped',
         working # testing.point =>
           caps[working]' = caps[working] /\ capacity[working]' = capacity[working]
  PROVE  PlanInv'
<1>1. ConfigFits /\ WindowFits /\ PlanFits /\ StaysGrown /\ TestsTarget
  BY DEF PlanInv
<1>2. /\ testing # None /\ testing' = None /\ canary' = "active"
      /\ UNCHANGED <<bestEffort, window, working, prod, plan, held, target, grown>>
  BY DEF PL!Returns
<1>3. canary = "explore" /\ working \in PL!Points
  BY <1>1, <1>2 DEF ConfigFits
<1>4. WindowFits' /\ PlanFits' /\ StaysGrown'
  BY <1>1, <1>2 DEF WindowFits, PlanFits, StaysGrown
<1>5. ConfigFits'
  <2>1. PL!Active' >= 1
    BY <1>1, <1>2, PlannerAssumption DEF PL!Active, PL!ActiveOf, ConfigFits
  <2> QED BY <1>1, <1>2, <2>1 DEF ConfigFits, Positions
<1>6. TestsTarget'
  BY <1>2 DEF TestsTarget
<1>7. Answered'
  <2> SUFFICES ASSUME target # None, target[1] = PL!Serving', NEW i \in DOMAIN window',
                      Uncarried(window[i])'
               PROVE  target[2] = working
    BY <1>2 DEF Answered
  <2>1. i \in 1..Len(window)
    BY <1>1, <1>2 DEF WindowFits
  <2>2. PL!Serving' = Groups
    BY <1>2, PlannerAssumption DEF PL!Serving
  <2>3. testing.point = target[2] /\ PL!OthersCarry
    BY <1>1, <1>3, <2>2 DEF TestsTarget
  <2>4. CASE working # testing.point
    <3>1. PL!Evaluate(window[i], Groups, working).feasible
      BY <2>1, <2>3, OthersCarryAll
    <3>2. PL!Evaluate(window[i], PL!Serving, working)' = PL!Evaluate(window[i], Groups, working)
      BY <1>2, <2>2, <2>4 DEF PL!Evaluate, PL!Filled
    <3> QED BY <1>2, <1>3, <3>1, <3>2 DEF Uncarried
  <2> QED BY <2>3, <2>4
<1> QED BY <1>4, <1>5, <1>6, <1>7 DEF PlanInv

LEMMA OkKeeps ==
  ASSUME PlanInv, PL!VerifyOk
  PROVE  PlanInv'
<1>1. PL!Returns /\ UNCHANGED <<caps, capacity, failed>>
  BY DEF PL!VerifyOk
<1>2. ModelFits' /\ FailuresCapped'
  BY <1>1 DEF PlanInv, ModelFits, FailuresCapped
<1>3. caps[working]' = caps[working] /\ capacity[working]' = capacity[working]
  BY <1>1 DEF PL!Returns
<1> QED BY <1>1, <1>2, <1>3, ReturnKeeps

LEMMA AbortKeeps ==
  ASSUME PlanInv, PL!VerifyAborted
  PROVE  PlanInv'
<1>1. PL!Returns /\ UNCHANGED <<caps, capacity, failed>>
  BY DEF PL!VerifyAborted, PL!model
<1>2. ModelFits' /\ FailuresCapped'
  BY <1>1 DEF PlanInv, ModelFits, FailuresCapped
<1>3. caps[working]' = caps[working] /\ capacity[working]' = capacity[working]
  BY <1>1 DEF PL!Returns
<1> QED BY <1>1, <1>2, <1>3, ReturnKeeps

LEMMA FailKeeps ==
  ASSUME PlanInv, PL!VerifyFails
  PROVE  PlanInv'
<1> DEFINE pt == testing.point
           r == testing.rate
           cap == PL!CapAt(pt, r)
<1>1. /\ PL!Returns
      /\ caps' = [caps EXCEPT ![pt] = cap]
      /\ capacity' = [capacity EXCEPT ![pt] = PL!CapacityOf(pt, cap)]
      /\ failed' = [failed EXCEPT ![pt] = @ \cup {r}]
  BY DEF PL!VerifyFails
<1>2. ModelFits /\ FailuresCapped /\ ConfigFits
  BY DEF PlanInv
<1>3. pt \in PL!Points /\ r \in Nat
  <2>1. testing \in Tests
    BY <1>1, <1>2 DEF ConfigFits, PL!Returns
  <2> QED BY <2>1 DEF Tests
<1>4. caps \in [PL!Points -> Caps] /\ failed \in [PL!Points -> SUBSET Nat]
  BY <1>2 DEF ModelFits, FailuresCapped
<1>5. /\ cap \in Nat /\ cap <= r
      /\ caps[pt] \in Nat => cap <= caps[pt]
  <2>1. caps[pt] # None => caps[pt] \in Nat
    BY <1>3, <1>4 DEF Caps
  <2>2. caps[pt] \in Nat => caps[pt] # None
    BY PlannerAssumption
  <2> QED BY <1>3, <2>1, <2>2 DEF PL!CapAt, PL!AtMost
<1>6. \A p \in PL!Points : /\ caps'[p] = IF p = pt THEN cap ELSE caps[p]
                           /\ failed'[p] = IF p = pt THEN failed[p] \cup {r} ELSE failed[p]
  BY <1>1, <1>4
<1> HIDE DEF pt, r, cap
<1>7. ASSUME NEW p \in PL!Points
      PROVE  /\ capacity[p]' = PL!CapacityOf(p, caps'[p])
             /\ p # pt => capacity[p]' = capacity[p]
  <2>1. capacity'[p] = IF p = pt THEN PL!CapacityOf(pt, cap) ELSE capacity[p]
    BY <1>1, <1>2, <1>3 DEF ModelFits
  <2> QED BY <1>2, <1>6, <2>1 DEF ModelFits
<1>8. ModelFits'
  <2>1. caps' \in [PL!Points -> Caps]
    BY <1>1, <1>3, <1>4, <1>5 DEF Caps
  <2>2. capacity' = [p \in PL!Points |-> capacity'[p]]
    BY <1>1, <1>2 DEF ModelFits
  <2>3. capacity' = [p \in PL!Points |-> PL!CapacityOf(p, caps'[p])]
    BY <1>7, <2>2
  <2> QED BY <2>1, <2>3 DEF ModelFits
<1>9. FailuresCapped'
  <2>1. failed' \in [PL!Points -> SUBSET Nat]
    BY <1>1, <1>3, <1>4 DEF r
  <2>2. ASSUME NEW p \in PL!Points, NEW x \in failed'[p]
        PROVE  caps'[p] \in Nat /\ caps'[p] <= x
    <3>1. CASE p = pt /\ x = r
      <4>1. caps'[p] = cap
        BY <1>6, <3>1
      <4> QED BY <1>5, <3>1, <4>1
    <3>2. CASE ~(p = pt /\ x = r)
      <4>1. x \in failed[p] /\ x \in Nat
        BY <1>4, <1>6, <2>2, <3>2
      <4>2. caps[p] \in Nat /\ caps[p] <= x
        BY <1>2, <4>1 DEF FailuresCapped
      <4>3. CASE p = pt
        <5>1. cap \in Nat /\ cap <= caps[p]
          BY <1>5, <4>2, <4>3
        <5>2. caps'[p] = cap
          BY <1>6, <4>3
        <5> QED BY <4>1, <4>2, <5>1, <5>2
      <4>4. CASE p # pt
        BY <1>6, <4>2, <4>4
      <4> QED BY <4>3, <4>4
    <3> QED BY <3>1, <3>2
  <2> QED BY <2>1, <2>2 DEF FailuresCapped
<1>10. working # pt => caps[working]' = caps[working] /\ capacity[working]' = capacity[working]
  <2>1. working' = working /\ working \in PL!Points
    BY <1>1, <1>2 DEF PL!Returns, ConfigFits
  <2> QED BY <1>6, <1>7, <2>1
<1> QED BY <1>1, <1>8, <1>9, <1>10, ReturnKeeps DEF pt

LEMMA PublishKeeps ==
  ASSUME PlanInv, PL!Publish
  PROVE  PlanInv'
<1>1. ConfigFits /\ WindowFits /\ PlanFits /\ StaysGrown
  BY DEF PlanInv
<1>2. /\ canary # "explore" /\ working' \in PL!Points
      /\ caps' = [pt \in PL!Points |-> None]
      /\ capacity' = [pt \in PL!Points |-> PL!CapacityOf(pt, None)]
      /\ failed' = [pt \in PL!Points |-> {}]
      /\ target' = None /\ held' = 0
      /\ UNCHANGED <<bestEffort, window, prod, canary, plan, testing, grown>>
  BY DEF PL!Publish
<1>3. ModelFits'
  BY <1>2 DEF ModelFits, Caps
<1>4. ConfigFits'
  BY <1>1, <1>2 DEF ConfigFits, PL!Active
<1>5. WindowFits'
  BY <1>1, <1>2 DEF WindowFits
<1>6. PlanFits'
  BY <1>1, <1>2, PlannerAssumption DEF PlanFits
<1>7. FailuresCapped'
  BY <1>2 DEF FailuresCapped
<1>8. StaysGrown'
  BY <1>1, <1>2 DEF StaysGrown
<1>9. Answered' /\ TestsTarget'
  BY <1>2 DEF Answered, TestsTarget
<1> QED BY <1>3, <1>4, <1>5, <1>6, <1>7, <1>8, <1>9 DEF PlanInv

LEMMA PlanStepKeeps ==
  ASSUME PlanInv, PL!Next
  PROVE  PlanInv'
<1>1. CASE \E rate \in Rates, calm \in BOOLEAN : PL!Tick(rate, calm)
  BY <1>1, TickKeeps
<1>2. CASE PL!StartVerify
  BY <1>2, StartKeeps
<1>3. CASE PL!VerifyOk
  BY <1>3, OkKeeps
<1>4. CASE PL!VerifyFails
  BY <1>4, FailKeeps
<1>5. CASE PL!VerifyAborted
  BY <1>5, AbortKeeps
<1>6. CASE PL!Publish
  BY <1>6, PublishKeeps
<1> QED BY <1>1, <1>2, <1>3, <1>4, <1>5, <1>6 DEF PL!Next

LEMMA PlanRests ==
  ASSUME PlanInv, UNCHANGED plans
  PROVE  PlanInv'
<1>1. UNCHANGED <<bestEffort, window, working, prod, canary, plan, held, target, caps,
                  capacity, testing, failed, grown>>
  BY DEF plans
<1>2. ModelFits'
  BY <1>1 DEF PlanInv, ModelFits
<1>3. ConfigFits'
  BY <1>1 DEF PlanInv, ConfigFits, PL!Active
<1>4. WindowFits' /\ PlanFits' /\ FailuresCapped' /\ StaysGrown'
  BY <1>1 DEF PlanInv, WindowFits, PlanFits, FailuresCapped, StaysGrown
<1>5. Answered'
  <2>2. PL!Serving' = PL!Serving
    BY <1>1 DEF PL!Serving
  <2>3. ASSUME NEW i, Uncarried(window[i])'
        PROVE  Uncarried(window[i])
    <3>1. \A pt \in PL!Points : ~PL!Evaluate(window[i], PL!Serving, pt)'.feasible
      BY <2>3 DEF Uncarried
    <3>2. \A pt \in PL!Points :
            PL!Evaluate(window[i], PL!Serving, pt)' = PL!Evaluate(window[i], PL!Serving, pt)
      BY <1>1, <2>2 DEF PL!Evaluate, PL!Filled
    <3> QED BY <3>1, <3>2 DEF Uncarried
  <2> QED BY <1>1, <2>2, <2>3 DEF PlanInv, Answered
<1>6. TestsTarget'
  BY <1>1 DEF PlanInv, TestsTarget, PL!OthersCarry, PL!Evaluate, PL!Filled
<1> QED BY <1>2, <1>3, <1>4, <1>5, <1>6 DEF PlanInv

LEMMA PlanSteps ==
  ASSUME [PointsNext]_<<planning, vars, plans>>
  PROVE  PL!Next \/ UNCHANGED plans
BY DEF PointsNext, ClockStep, PlanStep

LEMMA PlanHolds == PointsSpec => []PlanInv
<1>1. PointsInit => PlanInv
  BY PlanInvBegins DEF PointsInit
<1>2. PlanInv /\ [PointsNext]_<<planning, vars, plans>> => PlanInv'
  BY PlanSteps, PlanStepKeeps, PlanRests
<1> QED BY <1>1, <1>2, PTL DEF PointsSpec
-----------------------------------------------------------------------------
\* A feasible plan keeps every group below the rates its point failed at.
LEMMA TickAvoidsFailed ==
  ASSUME PlanInv, NEW rate \in Rates, NEW calm \in BOOLEAN, PL!Tick(rate, calm),
         plan'.feasible, NEW i \in DOMAIN plan'.rates, NEW r \in failed[plan'.point]
  PROVE  plan'.rates[i] < r
<1> DEFINE w == window'
           n == plan'.n
           pt == plan'.point
<1>1. ModelFits /\ ConfigFits /\ FailuresCapped
  BY DEF PlanInv
<1>2. /\ w \in Seq(Rates) /\ 1 <= Len(w)
      /\ plan' = PL!Evaluate(PL!Peak(w), n, pt)
      /\ n \in MinGroups..PL!Serving /\ pt \in PL!Points
  BY TickFacts
<1>3. n \in Nat
  BY <1>1, <1>2, ActiveFits, PlannerAssumption
<1>4. r \in Nat /\ caps[pt] \in Nat /\ caps[pt] <= r
  BY <1>1, <1>2 DEF FailuresCapped
<1> HIDE DEF w, n, pt
<1> DEFINE x == PL!Peak(w)
<1>5. x \in Nat
  BY <1>2, PeakFacts
<1> HIDE DEF x
<1>6. /\ plan'.rates = PL!Filled(x, n, pt)
      /\ \A k \in 1..n : PL!Feasible(PL!Filled(x, n, pt)[k], pt, caps[pt])
  <2>1. /\ PL!Evaluate(x, n, pt).rates = PL!Filled(x, n, pt)
        /\ PL!Evaluate(x, n, pt).feasible
             <=> \A k \in 1..n : PL!Feasible(PL!Filled(x, n, pt)[k], pt, caps[pt])
    BY <1>1, <1>2, <1>3, <1>5, EvaluateFacts
  <2>2. plan' = PL!Evaluate(x, n, pt)
    BY <1>2 DEF x
  <2> QED BY <2>1, <2>2
<1>7. i \in 1..n /\ plan'.rates[i] \in Nat
  BY <1>1, <1>2, <1>3, <1>5, <1>6, FilledFacts
<1>8. PL!CapKept(plan'.rates[i], caps[pt])
  BY <1>6, <1>7 DEF PL!Feasible
<1>9. plan'.rates[i] < caps[pt]
  BY <1>4, <1>8, PlannerAssumption DEF PL!CapKept
<1> QED BY <1>4, <1>7, <1>9

\* A tick that saves while the present configuration suffices leaves one for the peak.
LEMMA TickCarriesPeak ==
  ASSUME PlanInv, NEW rate \in Rates, NEW calm \in BOOLEAN, PL!Tick(rate, calm),
         prod' < prod \/ (canary = "active" /\ canary' = "park") \/ working' # working,
         PL!Evaluate(rate, PL!Active, working).feasible,
         NEW i \in 1..Len(window')
  PROVE  PL!Evaluate(window'[i], PL!ActiveOf(prod', canary'), working').feasible
<1> DEFINE goal == plan'
           w == window'
           b == PL!ActiveOf(prod', canary')
           current == PL!Evaluate(rate, PL!Active, working)
<1>1. ModelFits /\ ConfigFits /\ WindowFits /\ PlanFits /\ Answered
  BY DEF PlanInv
<1>2. /\ w \in Seq(Rates) /\ 1 <= Len(w) /\ Len(w) <= Hold + 1
      /\ w = PL!Shifted(rate) /\ w[Len(w)] = rate
      /\ goal = PL!Evaluate(PL!Peak(w), goal.n, goal.point)
      /\ goal.n \in MinGroups..PL!Serving /\ goal.point \in PL!Points
      /\ ~goal.feasible =>
           /\ goal.n = PL!Serving
           /\ \A m \in 1..PL!Serving, p \in PL!Points :
                ~PL!Evaluate(PL!Peak(w), m, p).feasible
      /\ bestEffort' = bestEffort
  BY TickFacts
<1>3. /\ PL!Moves(current, goal, calm) /\ PL!Follow(goal)
  <2>1. prod \in Int
    BY <1>1 DEF ConfigFits
  <2>2. ~UNCHANGED <<working, prod, canary>>
    BY <2>1
  <2> QED BY <2>2, TickFacts
<1>4. /\ ~PL!OnlyWarns(current, goal) /\ PL!HeldSince(goal) >= Hold
  BY <1>3 DEF PL!Moves
<1>5. working' = goal.point
  BY <1>3 DEF PL!Follow
<1> HIDE DEF goal, w
<1>6. /\ b >= goal.n
      /\ PL!Active <= goal.n => prod <= prod' /\ ~(canary = "active" /\ canary' = "park")
      /\ prod' \in 0..(Groups - 1)
  BY <1>1, <1>2, <1>3, FollowFacts
<1>7. /\ PL!Active \in Nat /\ 1 <= PL!Active /\ PL!Active <= PL!Serving /\ PL!Serving \in Nat
      /\ MinGroups \in Nat /\ 1 <= MinGroups
  BY <1>1, ActiveFits, PlannerAssumption
<1>8. PL!Peak(w) \in Nat /\ w[i] \in Nat /\ w[i] <= PL!Peak(w)
  BY <1>2, PeakFacts DEF w
<1>9. CASE goal.feasible
  <2> DEFINE x == PL!Peak(w)
             n == goal.n
  <2>1. b \in Nat
    BY <1>6, PlannerAssumption DEF PL!ActiveOf
  <2>2. n \in Nat /\ 1 <= n /\ n <= b
    BY <1>2, <1>6, <1>7, <2>1
  <2>3. PL!Evaluate(x, n, goal.point).feasible
    BY <1>2, <1>9
  <2> HIDE DEF b, x, n
  <2>4. PL!Evaluate(w[i], b, goal.point).feasible
    BY <1>1, <1>2, <1>8, <2>1, <2>2, <2>3, CarriesLess DEF x
  <2> QED BY <1>5, <2>4 DEF b, w
<1>10. CASE ~goal.feasible
  <2>1. ~bestEffort
    BY <1>4, <1>10 DEF PL!OnlyWarns
  <2>2. goal.n = PL!Serving /\ PL!Active <= goal.n
    BY <1>2, <1>7, <1>10
  <2>3. PICK k \in 1..Len(w) : w[k] = PL!Peak(w)
    BY <1>2, PeakFacts
  <2>4. Uncarried(w[k])
    <3>1. PL!Serving \in 1..PL!Serving
      BY <1>7
    <3> QED BY <1>2, <1>10, <2>3, <3>1 DEF Uncarried
  <2>5. k # Len(w)
    <3>1. w[k] \in Rates
      BY <1>2
    <3>2. ~PL!Evaluate(w[k], PL!Active, working).feasible
      BY <2>4, <3>1, ActiveCarriesNoMore
    <3> QED BY <1>2, <3>2
  <2>6. PICK j \in 1..Len(window) : w[k] = window[j] /\ Len(window) - j = Len(w) - k - 1
    <3>1. k \in 1..(Len(w) - 1)
      BY <1>2, <2>5
    <3> QED BY <1>1, <1>2, <3>1, WindowMoves
  <2>7. target = <<goal.n, goal.point>> /\ Hold <= held + 1 /\ held \in Int
    <3>1. PL!HeldSince(goal) \in 0..Hold /\ PL!HeldSince(goal) <= held + 1
          /\ (PL!HeldSince(goal) > 0 => target = <<goal.n, goal.point>>)
      BY HeldFacts
    <3>2. PL!HeldSince(goal) > 0
      BY <1>4, <3>1, PlannerAssumption
    <3> QED BY <1>1, <1>4, <3>1, <3>2, PlannerAssumption DEF PlanFits
  <2>8. Len(window) - j <= held
    <3>1. Hold \in Nat /\ Len(w) \in Nat /\ Len(window) \in Nat
      BY <1>1, <1>2, PlannerAssumption DEF WindowFits
    <3> QED BY <1>2, <2>3, <2>6, <2>7, <3>1
  <2>9. target # None
    <3>1. <<goal.n, goal.point>> \in Nat \X PL!Points
      BY <1>2, <1>7
    <3>2. None \notin Nat \X PL!Points
      BY PlannerAssumption DEF PL!Points
    <3> QED BY <2>7, <3>1, <3>2
  <2>10. target[2] = working
    <3>1. j \in DOMAIN window /\ Uncarried(window[j])
      BY <1>1, <2>4, <2>6 DEF WindowFits
    <3>2. target[1] = PL!Serving
      BY <2>2, <2>7
    <3> QED BY <1>1, <2>1, <2>8, <2>9, <3>1, <3>2 DEF Answered
  <2>11. working' = working /\ prod <= prod' /\ ~(canary = "active" /\ canary' = "park")
    BY <1>5, <1>6, <2>2, <2>7, <2>10
  <2>12. prod \in Int /\ prod' \in Int
    BY <1>1, <1>6 DEF ConfigFits
  <2> QED BY <2>11, <2>12
<1> QED BY <1>9, <1>10

\* A tick that lowers while the present configuration suffices keeps what was woken.
LEMMA TickKeepsWoken ==
  ASSUME PlanInv, NEW rate \in Rates, NEW calm \in BOOLEAN, PL!Tick(rate, calm),
         PL!ActiveOf(prod', canary') < PL!Active,
         PL!Evaluate(rate, PL!Active, working).feasible
  PROVE  PL!ActiveOf(prod', canary') >= grown.to
<1> DEFINE goal == plan'
           b == PL!ActiveOf(prod', canary')
           current == PL!Evaluate(rate, PL!Active, working)
<1>1. ConfigFits /\ PlanFits /\ StaysGrown
  BY DEF PlanInv
<1>2. goal.n \in MinGroups..PL!Serving /\ goal.point \in PL!Points
  BY TickFacts
<1>3. /\ PL!Active \in Nat /\ PL!Serving \in Nat /\ MinGroups \in Nat /\ Hold \in Nat
      /\ Hold > 0 /\ 1 <= MinGroups
  BY <1>1, ActiveFits, PlannerAssumption
<1>4. PL!Moves(current, goal, calm) /\ PL!Follow(goal)
  <2>1. ~UNCHANGED <<working, prod, canary>>
    BY <1>3 DEF PL!Active
  <2> QED BY <2>1, TickFacts
<1>5. PL!HeldSince(goal) >= Hold
  BY <1>4 DEF PL!Moves
<1> HIDE DEF goal
<1>6. b >= goal.n /\ prod' \in 0..(Groups - 1)
  BY <1>1, <1>2, <1>4, FollowFacts
<1>7. target = <<goal.n, goal.point>> /\ Hold <= held + 1 /\ held \in Int
  <2>1. PL!HeldSince(goal) \in 0..Hold /\ PL!HeldSince(goal) <= held + 1
        /\ (PL!HeldSince(goal) > 0 => target = <<goal.n, goal.point>>)
    BY HeldFacts
  <2> QED BY <1>1, <1>3, <1>5, <2>1 DEF PlanFits
<1>8. target # None
  <2>1. <<goal.n, goal.point>> \in Nat \X PL!Points
    BY <1>2, <1>3
  <2>2. None \notin Nat \X PL!Points
    BY PlannerAssumption DEF PL!Points
  <2> QED BY <1>7, <2>1, <2>2
<1>9. grown.to \in Nat /\ grown.ago \in Nat
  BY <1>1 DEF StaysGrown
<1>10. b \in Int /\ goal.n \in Int
  BY <1>2, <1>3, <1>6, PlannerAssumption DEF PL!ActiveOf
<1>11. CASE grown.to > 0
  <2>1. grown.ago < Hold /\ (target[1] = grown.to \/ held < grown.ago)
    BY <1>1, <1>8, <1>11 DEF StaysGrown
  <2>2. goal.n = grown.to
    BY <1>3, <1>7, <1>9, <2>1
  <2> QED BY <1>6, <1>10, <2>2
<1>12. CASE ~(grown.to > 0)
  BY <1>2, <1>3, <1>6, <1>9, <1>10, <1>12
<1> QED BY <1>11, <1>12

\* Only a tick plans; the other steps leave the plan and change what is tested, or
\* publish a model.
LEMMA OtherSteps ==
  ASSUME PlanInv, PL!Next,
         ~\E rate \in Rates, calm \in BOOLEAN : PL!Tick(rate, calm)
  PROVE  /\ plan' = plan
         /\ testing' # testing \/
              (target' = None /\ PL!ActiveOf(prod', canary') = PL!Active)
<1>1. testing \in Tests \cup {None} /\ (testing # None <=> canary = "explore")
  BY DEF PlanInv, ConfigFits
<1>2. CASE PL!StartVerify
  <2>1. PlanInv'
    BY <1>2, StartKeeps
  <2>2. testing' # None /\ testing = None /\ plan' = plan
    BY <1>1, <1>2, <2>1 DEF PL!StartVerify, PlanInv, ConfigFits
  <2> QED BY <2>2
<1>3. CASE PL!Returns
  BY <1>3 DEF PL!Returns
<1>4. CASE PL!Publish
  BY <1>4 DEF PL!Publish, PL!Active
<1> QED BY <1>2, <1>3, <1>4 DEF PL!Next, PL!VerifyOk, PL!VerifyFails, PL!VerifyAborted

\* What the properties compare, after a tick.
LEMMA TickSays ==
  ASSUME PlanInv, NEW rate \in Rates, NEW calm \in BOOLEAN, PL!Tick(rate, calm)
  PROVE  /\ PL!Last(window') = rate /\ DOMAIN window' = 1..Len(window')
         /\ PL!Max({PL!Active, 1}) = PL!Active
         /\ PL!Max({1, PL!ActiveOf(prod', canary')}) = PL!ActiveOf(prod', canary')
<1>1. window' \in Seq(Rates) /\ window'[Len(window')] = rate
  BY TickFacts
<1>2. PL!Last(window') = rate /\ DOMAIN window' = 1..Len(window')
  BY <1>1 DEF PL!Last
<1>3. ConfigFits /\ PlanInv'
  BY TickKeeps DEF PlanInv
<1> DEFINE b == PL!ActiveOf(prod', canary')
<1>4. b \in Int /\ b >= 1
  <2>1. PL!Active' >= 1 /\ prod' \in 0..(Groups - 1)
    BY <1>3 DEF PlanInv, ConfigFits
  <2>2. PL!Active' = b
    BY DEF PL!Active
  <2>3. b \in Int
    BY <2>1, PlannerAssumption DEF PL!ActiveOf
  <2> QED BY <2>1, <2>2, <2>3
<1> HIDE DEF b
<1>5. PL!Max({1, b}) = b
  <2>1. \A x \in {1, b} : b >= x
    BY <1>4
  <2>2. PL!Max({1, b}) \in {1, b} /\ \A x \in {1, b} : PL!Max({1, b}) >= x
    BY <2>1 DEF PL!Max
  <2> QED BY <1>4, <2>2
<1> QED BY <1>2, <1>3, <1>5, ActiveFits DEF b

\* A point is never planned again for a rate it failed at (canary.py: a failed verification
\* caps the point in the model): every feasible plan keeps each group below every rate at
\* which its point failed, in whatever order the verifications came.
THEOREM FailedNotPlanned == PointsSpec => FailedRatesAvoided
<1>1. ASSUME PlanInv, [PointsNext]_<<planning, vars, plans>>
      PROVE  [plan' # plan /\ plan'.feasible =>
                \A i \in DOMAIN plan'.rates, r \in failed[plan'.point] :
                  plan'.rates[i] < r]_PL!vars
  <2>1. CASE \E rate \in Rates, calm \in BOOLEAN : PL!Tick(rate, calm)
    BY <1>1, <2>1, TickAvoidsFailed
  <2>2. CASE PL!Next /\ ~\E rate \in Rates, calm \in BOOLEAN : PL!Tick(rate, calm)
    BY <1>1, <2>2, OtherSteps
  <2>3. CASE UNCHANGED plans
    BY <2>3 DEF plans
  <2> QED BY <1>1, <2>1, <2>2, <2>3, PlanSteps
<1>2. PlanInv /\ [PointsNext]_<<planning, vars, plans>> =>
        [plan' # plan /\ plan'.feasible =>
           \A i \in DOMAIN plan'.rates, r \in failed[plan'.point] : plan'.rates[i] < r]_PL!vars
  BY <1>1
<1> QED BY <1>2, PlanHolds, PTL DEF PointsSpec, FailedRatesAvoided, PL!FailedRatesAvoided

\* Saving energy does not cost capacity (tier_controller.py, _plan): when the plan slows
\* clocks or parks groups although the present configuration suffices, what is left
\* carries every demand of the last t_down_s.
THEOREM SavingsCarryPeak == PointsSpec => SavesWithinPeak
<1> DEFINE Kept ==
      /\ testing' = testing /\ target' # None
      /\ prod' < prod \/ (canary = "active" /\ canary' = "park") \/ working' # working
      /\ PL!Evaluate(PL!Last(window'), PL!Max({PL!Active, 1}), working).feasible
      => \A i \in DOMAIN window' :
           PL!Evaluate(window'[i], PL!Max({1, PL!ActiveOf(prod', canary')}), working').feasible
<1>1. ASSUME PlanInv, [PointsNext]_<<planning, vars, plans>>
      PROVE  [Kept]_PL!vars
  <2>1. CASE \E rate \in Rates, calm \in BOOLEAN : PL!Tick(rate, calm)
    <3>1. PICK rate \in Rates, calm \in BOOLEAN : PL!Tick(rate, calm)
      BY <2>1
    <3>2. /\ PL!Last(window') = rate /\ DOMAIN window' = 1..Len(window')
          /\ PL!Max({PL!Active, 1}) = PL!Active
          /\ PL!Max({1, PL!ActiveOf(prod', canary')}) = PL!ActiveOf(prod', canary')
      BY <1>1, <3>1, TickSays
    <3> QED BY <1>1, <3>1, <3>2, TickCarriesPeak
  <2>2. CASE PL!Next /\ ~\E rate \in Rates, calm \in BOOLEAN : PL!Tick(rate, calm)
    BY <1>1, <2>2, OtherSteps
  <2>3. CASE UNCHANGED plans
    BY <2>3 DEF plans, PL!vars, PL!config, PL!model
  <2> QED BY <1>1, <2>1, <2>2, <2>3, PlanSteps
<1>2. PlanInv /\ [PointsNext]_<<planning, vars, plans>> => [Kept]_PL!vars
  BY <1>1
<1> QED BY <1>2, PlanHolds, PTL DEF PointsSpec, SavesWithinPeak, PL!SavesWithinPeak

\* What a plan woke is not parked again for t_down_s while it suffices (tier_controller.py,
\* _plan: a target is held for t_down_s before it lowers anything).
THEOREM WokenStay == PointsSpec => NoFlapping
<1> DEFINE Kept ==
      /\ testing' = testing
      /\ PL!ActiveOf(prod', canary') < PL!Active
      /\ PL!Evaluate(PL!Last(window'), PL!Max({PL!Active, 1}), working).feasible
      => PL!ActiveOf(prod', canary') >= grown.to
<1>1. ASSUME PlanInv, [PointsNext]_<<planning, vars, plans>>
      PROVE  [Kept]_PL!vars
  <2>1. CASE \E rate \in Rates, calm \in BOOLEAN : PL!Tick(rate, calm)
    <3>1. PICK rate \in Rates, calm \in BOOLEAN : PL!Tick(rate, calm)
      BY <2>1
    <3>2. PL!Last(window') = rate /\ PL!Max({PL!Active, 1}) = PL!Active
      BY <1>1, <3>1, TickSays
    <3> QED BY <1>1, <3>1, <3>2, TickKeepsWoken
  <2>2. CASE PL!Next /\ ~\E rate \in Rates, calm \in BOOLEAN : PL!Tick(rate, calm)
    <3>1. PL!Active \in Int
      BY <1>1, ActiveFits DEF PlanInv
    <3> QED BY <1>1, <2>2, <3>1, OtherSteps
  <2>3. CASE UNCHANGED plans
    BY <2>3 DEF plans, PL!vars, PL!config, PL!model
  <2> QED BY <1>1, <2>1, <2>2, <2>3, PlanSteps
<1>2. PlanInv /\ [PointsNext]_<<planning, vars, plans>> => [Kept]_PL!vars
  BY <1>1
<1> QED BY <1>2, PlanHolds, PTL DEF PointsSpec, NoFlapping, PL!NoFlapping
=============================================================================
