-------------------------- MODULE Locating_proofs --------------------------
(***************************************************************************)
(* Proofs about what the Canary measures: for any finite number of probes a *)
(* window leaves no task and no count behind (controller/probe.py), and in  *)
(* any world the table a location publishes is one the GPUs carry           *)
(* (controller/locator.py).                                                 *)
(***************************************************************************)
EXTENDS Locating, FiniteLemmas, SequenceTheorems, TLAPS

\* A step is the locator's or the window's.
LEMMA OneOfTwo ==
  [LocatingNext]_<<probing, vars, window>> => [Next]_vars /\ [W!Next]_(W!vars)
BY DEF LocatingNext, LocatorStep, ProbeStep, vars, results, window, W!vars, W!probes

(***************************************************************************)
(* The probe's window.                                                      *)
(***************************************************************************)

In(S) == {r \in Probes : stage[r] \in S}

\* The probe's own counters are the sizes of the sets they stand for.
CountersAgree ==
  /\ nAwait = Cardinality(In({"prefill", "transfer"}))
  /\ inflight = Cardinality(In({"transfer"}))
  /\ decoding = Cardinality(In({"decode"}))
  /\ atPrefill = In({"prefill"})

Stages == {"unsent", "prefill", "transfer", "decode", "ended", "dropped"}

\* Probes and the sampler live in the window's body, or are being cancelled.
LivesInside ==
  /\ ~W!InBody /\ place # "cleanup" => W!Live = {} /\ ~sampler
  /\ stage \in [Probes -> Stages]

\* Once P was seen idle nothing new reaches it.
EnginesAsked ==
  /\ engine \subseteq {"P", "D"} \X Probes
  /\ place \in {"ask_d", "quiet"} => \A r \in Probes : <<"P", r>> \notin engine
  /\ place = "quiet" => \A r \in Probes : <<"D", r>> \notin engine

WindowInv == CountersAgree /\ LivesInside /\ EnginesAsked

-----------------------------------------------------------------------------
\* Nothing is sent at the start.
LEMMA InitWindow == W!Init => WindowInv
<1> SUFFICES ASSUME W!Init PROVE WindowInv
  OBVIOUS
<1>1. In({"prefill", "transfer"}) = {} /\ In({"transfer"}) = {} /\ In({"decode"}) = {}
      /\ In({"prefill"}) = {}
  BY DEF W!Init, In
<1>2. CountersAgree
  BY <1>1, FS_EmptySet DEF W!Init, CountersAgree
<1>3. LivesInside /\ EnginesAsked
  BY DEF W!Init, LivesInside, EnginesAsked, W!Live, Stages
<1> QED
  BY <1>2, <1>3 DEF WindowInv

\* What the move of a probe to stage x changes in the size of In(S).
Change(S, r, x) == (IF x \in S THEN 1 ELSE 0) - (IF stage[r] \in S THEN 1 ELSE 0)

\* A probe that moves between stages enters and leaves the counted sets alone.
LEMMA MoveOne ==
  ASSUME stage \in [Probes -> Stages], NEW r \in Probes, NEW x \in Stages,
         stage' = [stage EXCEPT ![r] = x], NEW S
  PROVE  /\ Cardinality(In(S)) \in Nat
         /\ Cardinality(In(S))' = Cardinality(In(S)) + Change(S, r, x)
<1>1. IsFiniteSet(In(S))
  BY FS_Subset, ProbesFinite DEF In
<1>2. Cardinality(In(S)) \in Nat
  BY <1>1, FS_CardinalityType
<1>3. CASE (stage[r] \in S) = (x \in S)
  <2>1. In(S)' = In(S)
    BY <1>3 DEF In
  <2> QED
    BY <1>2, <1>3, <2>1 DEF Change
<1>4. CASE stage[r] \notin S /\ x \in S
  <2>1. In(S)' = In(S) \cup {r} /\ r \notin In(S)
    BY <1>4 DEF In
  <2>2. Cardinality(In(S) \cup {r}) = Cardinality(In(S)) + 1
    BY <1>1, <2>1, FS_AddElement
  <2> QED
    BY <1>2, <1>4, <2>1, <2>2 DEF Change
<1>5. CASE stage[r] \in S /\ x \notin S
  <2>1. In(S)' = In(S) \ {r} /\ r \in In(S)
    BY <1>5 DEF In
  <2>2. Cardinality(In(S) \ {r}) = Cardinality(In(S)) - 1
    BY <1>1, <2>1, FS_RemoveElement
  <2> QED
    BY <1>2, <1>5, <2>1, <2>2 DEF Change
<1> QED
  BY <1>2, <1>3, <1>4, <1>5

\* The same for the three sets that are counted, and the one that is kept.
LEMMA MoveCounts ==
  ASSUME CountersAgree, stage \in [Probes -> Stages], NEW r \in Probes,
         NEW x \in Stages, stage' = [stage EXCEPT ![r] = x],
         nAwait' = nAwait + Change({"prefill", "transfer"}, r, x),
         inflight' = inflight + Change({"transfer"}, r, x),
         decoding' = decoding + Change({"decode"}, r, x),
         atPrefill' = (atPrefill \ {r}) \cup {p \in {r} : x = "prefill"}
  PROVE  CountersAgree'
<1>1. Cardinality(In({"prefill", "transfer"}))' =
        Cardinality(In({"prefill", "transfer"})) + Change({"prefill", "transfer"}, r, x)
  BY MoveOne
<1>2. Cardinality(In({"transfer"}))' =
        Cardinality(In({"transfer"})) + Change({"transfer"}, r, x)
  BY MoveOne
<1>3. Cardinality(In({"decode"}))' = Cardinality(In({"decode"})) + Change({"decode"}, r, x)
  BY MoveOne
<1>4. atPrefill' = In({"prefill"})'
  BY DEF CountersAgree, In
<1> QED
  BY <1>1, <1>2, <1>3, <1>4 DEF CountersAgree

\* The counters are numbers.
LEMMA CountersNat ==
  ASSUME CountersAgree
  PROVE  nAwait \in Nat /\ inflight \in Nat /\ decoding \in Nat
<1>1. \A S : IsFiniteSet(In(S))
  BY FS_Subset, ProbesFinite DEF In
<1> QED
  BY <1>1, FS_CardinalityType DEF CountersAgree

\* request's finally clause gives back what the probe's stage holds.
LEMMA LeavesAgrees ==
  ASSUME CountersAgree, stage \in [Probes -> Stages], NEW r \in Probes,
         stage[r] \in {"prefill", "transfer", "decode"}, W!Leaves(r),
         NEW x \in {"ended", "dropped"}, stage' = [stage EXCEPT ![r] = x]
  PROVE  CountersAgree'
<1>1. x \in Stages
  BY DEF Stages
<1>2. /\ nAwait' = nAwait + Change({"prefill", "transfer"}, r, x)
      /\ inflight' = inflight + Change({"transfer"}, r, x)
      /\ decoding' = decoding + Change({"decode"}, r, x)
      /\ atPrefill' = (atPrefill \ {r}) \cup {p \in {r} : x = "prefill"}
  BY CountersNat DEF W!Leaves, Change
<1> QED
  BY <1>1, <1>2, MoveCounts

\* A probe is sent, prefilled and decoded.
LEMMA ProbeGoesOn ==
  ASSUME WindowInv, NEW r \in Probes,
         W!Send(r) \/ W!PrefillReturns(r) \/ W!FirstToken(r)
  PROVE  WindowInv'
<1> USE DEF WindowInv, LivesInside, W!InBody
<1>1. CASE W!Send(r)
  <2>1. stage[r] = "unsent" /\ stage' = [stage EXCEPT ![r] = "prefill"] /\ "prefill" \in Stages
    BY <1>1 DEF W!Send, W!Unsent, Stages
  <2>2. /\ nAwait' = nAwait + Change({"prefill", "transfer"}, r, "prefill")
        /\ inflight' = inflight + Change({"transfer"}, r, "prefill")
        /\ decoding' = decoding + Change({"decode"}, r, "prefill")
        /\ atPrefill' = (atPrefill \ {r}) \cup {p \in {r} : "prefill" = "prefill"}
    BY <1>1, <2>1, CountersNat DEF W!Send, Change
  <2>3. CountersAgree'
    BY <2>1, <2>2, MoveCounts
  <2> QED
    BY <1>1, <2>1, <2>3 DEF W!Send, EnginesAsked
<1>2. CASE W!PrefillReturns(r)
  <2>1. stage[r] = "prefill" /\ stage' = [stage EXCEPT ![r] = "transfer"] /\ "transfer" \in Stages
    BY <1>2 DEF W!PrefillReturns, Stages
  <2>2. /\ nAwait' = nAwait + Change({"prefill", "transfer"}, r, "transfer")
        /\ inflight' = inflight + Change({"transfer"}, r, "transfer")
        /\ decoding' = decoding + Change({"decode"}, r, "transfer")
        /\ atPrefill' = (atPrefill \ {r}) \cup {p \in {r} : "transfer" = "prefill"}
    BY <1>2, <2>1, CountersNat DEF W!PrefillReturns, Change
  <2>3. CountersAgree'
    BY <2>1, <2>2, MoveCounts
  <2> QED
    BY <1>2, <2>1, <2>3 DEF W!PrefillReturns, EnginesAsked
<1>3. CASE W!FirstToken(r)
  <2>1. stage[r] = "transfer" /\ stage' = [stage EXCEPT ![r] = "decode"] /\ "decode" \in Stages
    BY <1>3 DEF W!FirstToken, Stages
  <2>2. /\ nAwait' = nAwait + Change({"prefill", "transfer"}, r, "decode")
        /\ inflight' = inflight + Change({"transfer"}, r, "decode")
        /\ decoding' = decoding + Change({"decode"}, r, "decode")
        /\ atPrefill' = (atPrefill \ {r}) \cup {p \in {r} : "decode" = "prefill"}
    BY <1>3, <2>1, CountersNat DEF W!FirstToken, Change, CountersAgree, In
  <2>3. CountersAgree'
    BY <2>1, <2>2, MoveCounts
  <2> QED
    BY <1>3, <2>1, <2>3 DEF W!FirstToken, EnginesAsked
<1> QED
  BY <1>1, <1>2, <1>3

\* A probe ends, fails or is cancelled.
LEMMA ProbeLeaves ==
  ASSUME WindowInv, NEW r \in Probes,
         W!StreamEnds(r) \/ W!ProbeFails(r) \/ W!DropProbe(r)
  PROVE  WindowInv'
<1> USE DEF WindowInv
<1>1. PICK x \in {"ended", "dropped"} :
        /\ stage' = [stage EXCEPT ![r] = x] /\ W!Leaves(r)
        /\ stage[r] \in {"prefill", "transfer", "decode"}
        /\ UNCHANGED <<place, sampler>> /\ (W!InBody \/ place = "cleanup")
        /\ engine' \subseteq engine
  BY DEF W!StreamEnds, W!ProbeFails, W!DropProbe, W!Ends, W!Live
<1>2. CountersAgree'
  BY <1>1, LeavesAgrees DEF LivesInside
<1>3. LivesInside'
  BY <1>1 DEF LivesInside, Stages, W!InBody
<1>4. EnginesAsked'
  BY <1>1 DEF EnginesAsked, W!InBody
<1> QED
  BY <1>2, <1>3, <1>4

\* The window's own steps: it ends its clean-up when no probe lives.
LEMMA WindowGoesOn ==
  ASSUME WindowInv,
         \/ \E good \in BOOLEAN : W!Lock(good) \/ W!FirstReading(good) \/ W!LastReading(good)
         \/ W!StopSending \/ W!Drained \/ W!Cleaned \/ W!Cancel
         \/ W!AskP \/ W!AskD \/ W!GiveUp \/ W!EngineEnds \/ W!Over \/ UNCHANGED W!vars
  PROVE  WindowInv'
<1> USE DEF WindowInv, W!probes
<1>1. UNCHANGED <<stage, nAwait, inflight, decoding, atPrefill>> /\ engine' \subseteq engine
  BY DEF W!Lock, W!FirstReading, W!LastReading, W!StopSending, W!Drained, W!Cleaned, W!Cancel,
     W!AskP, W!AskD,
         W!GiveUp, W!EngineEnds, W!Over, W!vars
<1>2. CountersAgree'
  BY <1>1 DEF CountersAgree, In
<1>3. LivesInside'
  BY DEF LivesInside, W!InBody, W!Live, W!Lock, W!FirstReading, W!LastReading, W!StopSending,
     W!Drained,
         W!Cleaned, W!Cancel, W!AskP, W!AskD, W!GiveUp, W!EngineEnds, W!Over, W!vars
<1>4. EnginesAsked'
  BY <1>1 DEF EnginesAsked, W!InBody, W!Busy, W!Lock, W!FirstReading, W!LastReading,
     W!StopSending, W!Drained,
              W!Cleaned, W!Cancel, W!AskP, W!AskD, W!GiveUp, W!EngineEnds, W!Over, W!vars
<1> QED
  BY <1>2, <1>3, <1>4

\* The invariant holds in every reachable state.
LEMMA WindowInvariant == LocatingSpec => []WindowInv
<1>1. WindowInv /\ [W!Next]_(W!vars) => WindowInv'
  <2> SUFFICES ASSUME WindowInv, [W!Next]_(W!vars) PROVE WindowInv'
    OBVIOUS
  <2>1. ASSUME NEW r \in Probes, W!Send(r) \/ W!PrefillReturns(r) \/ W!FirstToken(r)
        PROVE  WindowInv'
    BY <2>1, ProbeGoesOn
  <2>2. ASSUME NEW r \in Probes, W!StreamEnds(r) \/ W!ProbeFails(r) \/ W!DropProbe(r)
        PROVE  WindowInv'
    BY <2>2, ProbeLeaves
  <2> QED
    BY <2>1, <2>2, WindowGoesOn DEF W!Next, W!WindowStep
<1>2. LocatingInit => WindowInv
  BY InitWindow DEF LocatingInit
<1> QED
  BY <1>1, <1>2, OneOfTwo, PTL DEF LocatingSpec

\* A window that ended, in whatever way, left no task behind and its counters at zero,
\* and quiesce returned only if neither engine works on a probe.
THEOREM LeavesNothing == LocatingSpec => []EndsClean
<1>1. WindowInv => EndsClean
  <2> SUFFICES ASSUME WindowInv PROVE EndsClean
    OBVIOUS
  <2> USE DEF WindowInv
  <2>1. ASSUME W!Live = {}
        PROVE  nAwait = 0 /\ inflight = 0 /\ decoding = 0 /\ atPrefill = {}
    <3>1. /\ In({"prefill", "transfer"}) = {} /\ In({"transfer"}) = {}
          /\ In({"decode"}) = {} /\ In({"prefill"}) = {}
      BY <2>1 DEF In, W!Live
    <3> QED
      BY <3>1, FS_EmptySet DEF CountersAgree
  <2>2. W!NothingLeftOver
    BY <2>1 DEF W!NothingLeftOver, LivesInside, W!InBody
  <2>3. W!QuietMeansIdle
    <3> SUFFICES ASSUME place = "quiet", NEW w \in engine PROVE FALSE
      BY DEF W!QuietMeansIdle
    <3>1. PICK e \in {"P", "D"}, r \in Probes : w = <<e, r>>
      BY DEF EnginesAsked
    <3> QED
      BY <3>1 DEF EnginesAsked
  <2> QED
    BY <2>2, <2>3 DEF EndsClean, W!EndsClean
<1> QED
  BY <1>1, WindowInvariant, PTL
-----------------------------------------------------------------------------
(***************************************************************************)
(* The locator's clocks: sampled, ordered and chosen ones stay on the grid. *)
(***************************************************************************)

LEMMA Grid ==
  /\ NP \in Nat /\ NP >= 1 /\ ND \in Nat /\ ND >= 1
  /\ P = 1..NP /\ D = 1..ND
  /\ IsFiniteSet(P) /\ IsFiniteSet(D)
<1>1. NP \in Nat /\ NP >= 1 /\ ND \in Nat /\ ND >= 1
  BY LocatorAssumption DEF LocatorAssumption
<1>2. IsFiniteSet(1..NP) /\ IsFiniteSet(1..ND)
  BY <1>1, FS_Interval
<1> QED BY <1>1, <1>2 DEF P, D

\* A number between lo and hi rounds to one of lo..hi.
LEMMA NearestBetween ==
  ASSUME NEW lo \in Nat, NEW hi \in Nat, NEW a \in Nat, NEW b \in Nat, b > 0,
         lo * b <= a, a <= hi * b
  PROVE  Nearest(a, b) \in lo..hi
<1> DEFINE x == 2 * a + b - 1
<1>1. x \in Nat /\ 2 * b \in Nat /\ 2 * b > 0 /\ Nearest(a, b) = x \div (2 * b)
  BY DEF Nearest
<1>2. x >= lo * (2 * b)
  <2>1. lo * (2 * b) = 2 * (lo * b) /\ lo * b \in Nat
    OBVIOUS
  <2> QED BY <2>1
<1>3. ~(x >= (hi + 1) * (2 * b))
  <2>1. (hi + 1) * (2 * b) = 2 * (hi * b) + 2 * b /\ hi * b \in Nat
    OBVIOUS
  <2> QED BY <2>1
<1> HIDE DEF x
<1>4. x \div (2 * b) \in Nat /\ x \div (2 * b) >= lo
  BY <1>1, <1>2, QuotientAtLeast
<1>5. ~(x \div (2 * b) >= hi + 1)
  <2>1. hi + 1 \in Nat
    OBVIOUS
  <2> QED BY <1>1, <1>3, <2>1, QuotientAtLeast
<1> QED BY <1>1, <1>4, <1>5

LEMMA SpreadFacts ==
  ASSUME NEW low \in Nat, NEW high \in Nat, low <= high, NEW n \in Nat
  PROVE  Spread(low, high, n) # {} /\ Spread(low, high, n) \subseteq low..high
<1>1. CASE n <= 1 \/ high <= low
  <2>1. Spread(low, high, n) = {high}
    BY <1>1 DEF Spread
  <2> QED BY <2>1
<1>2. CASE ~(n <= 1 \/ high <= low)
  <2> DEFINE at(i) == low * (n - 1) + (high - low) * i
  <2>1. Spread(low, high, n) = {Nearest(at(i), n - 1) : i \in 0..(n - 1)}
    BY <1>2 DEF Spread
  <2>2. ASSUME NEW i \in 0..(n - 1) PROVE Nearest(at(i), n - 1) \in low..high
    <3> DEFINE m == n - 1
               gap == high - low
    <3>1. m \in Nat /\ m > 0 /\ gap \in Nat /\ i \in Nat /\ i <= m
      BY <1>2
    <3> HIDE DEF m, gap
    <3>2. gap * i >= 0 /\ gap * i <= gap * m /\ gap * i \in Int /\ low * m \in Nat /\ gap * m \in Nat
      BY <3>1
    <3>3. high * m = low * m + gap * m
      <4>1. high = low + gap
        BY DEF gap
      <4> QED BY <3>1, <4>1
    <3>4. low * m + gap * i \in Nat /\ low * m <= low * m + gap * i
          /\ low * m + gap * i <= high * m
      BY <3>2, <3>3
    <3>5. Nearest(low * m + gap * i, m) \in low..high
      BY <3>1, <3>4, NearestBetween
    <3> QED BY <3>5 DEF m, gap
  <2>3. 0 \in 0..(n - 1)
    BY <1>2
  <2> HIDE DEF at
  <2> QED BY <2>1, <2>2, <2>3
<1> QED BY <1>1, <1>2

\* Sorting keeps the members.
LEMMA Sorted ==
  ASSUME NEW S \in SUBSET Int, IsFiniteSet(S), S # {}
  PROVE  /\ Ascending(S) \in Seq(Int) /\ Ascending(S) # <<>>
         /\ \A i \in DOMAIN Ascending(S) : Ascending(S)[i] \in S
         /\ Descending(S) \in Seq(Int) /\ Descending(S) # <<>>
         /\ \A i \in DOMAIN Descending(S) : Descending(S)[i] \in S
<1> DEFINE m == Cardinality(S)
           up == [x \in S |-> x]
           down == [x \in S |-> -x]
<1>1. m \in Nat /\ m # 0
  BY FS_CardinalityType, FS_EmptySet
<1>2. ASSUME NEW i \in 1..m PROVE \E x \in S : Cardinality({y \in S : y < x}) = i - 1
  <2>1. \A x \in S : up[x] \in Int
    OBVIOUS
  <2>2. \A x, y \in S : up[x] = up[y] => x = y
    OBVIOUS
  <2> DEFINE k == i - 1
  <2>3. k \in 0..(Cardinality(S) - 1)
    BY <1>1
  <2>4. PICK x \in S, B \in SUBSET S :
          Cardinality(B) = k /\ \A y \in S : y \in B <=> up[y] < up[x]
    <3> HIDE DEF up, m, k
    <3> QED BY <2>1, <2>2, <2>3, RankIsTaken
  <2>5. B = {y \in S : y < x}
    BY <2>4
  <2> QED BY <2>4, <2>5
<1>3. ASSUME NEW i \in 1..m PROVE \E x \in S : Cardinality({y \in S : y > x}) = i - 1
  <2>1. \A x \in S : down[x] \in Int
    OBVIOUS
  <2>2. \A x, y \in S : down[x] = down[y] => x = y
    OBVIOUS
  <2> DEFINE k == i - 1
  <2>3. k \in 0..(Cardinality(S) - 1)
    BY <1>1
  <2>4. PICK x \in S, B \in SUBSET S :
          Cardinality(B) = k /\ \A y \in S : y \in B <=> down[y] < down[x]
    <3> HIDE DEF down, m, k
    <3> QED BY <2>1, <2>2, <2>3, RankIsTaken
  <2>5. B = {y \in S : y > x}
    <3>1. \A y \in S : down[y] = -y /\ y \in Int
      OBVIOUS
    <3>2. \A y \in S : down[y] < down[x] <=> y > x
      BY <3>1
    <3> HIDE DEF down
    <3> QED BY <2>4, <3>2
  <2> QED BY <2>4, <2>5
<1>4. /\ Ascending(S) = [i \in 1..m |-> CHOOSE x \in S : Cardinality({y \in S : y < x}) = i - 1]
      /\ Descending(S) = [i \in 1..m |-> CHOOSE x \in S : Cardinality({y \in S : y > x}) = i - 1]
  BY DEF Ascending, Descending
<1> HIDE DEF m
<1>5. Ascending(S) \in [1..m -> S] /\ Descending(S) \in [1..m -> S]
  BY <1>2, <1>3, <1>4
<1>6. \A s \in [1..m -> S] : s \in Seq(Int) /\ s # <<>> /\ \A i \in DOMAIN s : s[i] \in S
  <2> TAKE s \in [1..m -> S]
  <2>1. s \in [1..m -> Int]
    OBVIOUS
  <2>2. s \in Seq(Int) /\ Len(s) = m /\ DOMAIN s = 1..m
    BY <1>1, <2>1
  <2> QED BY <1>1, <2>2
<1> QED BY <1>5, <1>6

\* The upper edge of the eps band is one of the clocks compared.
LEMMA UpperEdgeFacts ==
  ASSUME NEW S \in SUBSET Int, IsFiniteSet(S), S # {}, NEW energy,
         \A f \in S : energy[f] \in Nat, NEW limited
  PROVE  UpperEdge(S, energy, limited) \in S
<1> DEFINE least == Min({energy[f] : f \in S})
           band == {f \in S : WithinEps(energy[f], least)}
           taken == IF band \subseteq limited THEN band ELSE band \ limited
<1>1. PICK m \in S : \A f \in S : energy[m] <= energy[f]
  <2>1. \A f \in S : energy[f] \in Int
    OBVIOUS
  <2> QED BY <2>1, LeastMember
<1>2. least = energy[m]
  <2>1. energy[m] \in {energy[f] : f \in S} /\ \A e \in {energy[f] : f \in S} : energy[m] <= e
    BY <1>1
  <2>2. \A e \in {energy[f] : f \in S} : e \in Nat
    OBVIOUS
  <2>3. \A e \in {energy[f] : f \in S} :
          (\A g \in {energy[f] : f \in S} : e <= g) => e = energy[m]
    BY <2>1, <2>2
  <2> QED BY <2>1, <2>3 DEF Min
<1>3. m \in band
  <2>1. energy[m] \in Nat
    OBVIOUS
  <2> QED BY <1>2, <2>1 DEF WithinEps
<1>4. taken # {} /\ taken \in SUBSET S
  BY <1>3
<1>5. IsFiniteSet(taken) /\ taken \in SUBSET Int
  <2> HIDE DEF taken
  <2>1. IsFiniteSet(taken)
    BY <1>4, FS_Subset
  <2> QED BY <1>4, <2>1
<1>6. UpperEdge(S, energy, limited) = Max(taken)
  BY DEF UpperEdge
<1> HIDE DEF taken
<1> QED BY <1>4, <1>5, <1>6, MaxIsLargest
-----------------------------------------------------------------------------
(***************************************************************************)
(* The locator's run: what each phase relies on.                            *)
(***************************************************************************)

\* The default fill loads contain the target load (target_load_fraction 0.8).
FillsAtTarget == \E i \in DOMAIN FillTenths : FillTenths[i] = 8

\* What the GPUs do in a window that was good.
Bears(w) ==
  /\ w.kind = "open" => /\ w.load \in 1..world.cap[w.p]
                        /\ w.d >= world.dmin
  /\ w.kind = "closed" => w.load <= world.clean[w.d]

\* The cache's good windows are true of the world.
CacheTrue == \A c \in cache : c[2] => Bears(c[1])

InCache(w) == <<w, TRUE>> \in cache

\* A queue of clocks or loads still to try.
Within(s, S) == s # <<>> /\ \A i \in DOMAIN s : s[i] \in S

TableShapes ==
  [h : P \X D, capacity : Nat \ {0}, target : Nat, b : Nat,
   caps : SUBSET (P \X D \X Nat), moved : BOOLEAN]

Locals ==
  [lo : Nat, hi : Nat, n : Int, todo : Seq(Int), seen : SUBSET Int, c0 : Nat,
   p : Int, d : Int, top : Nat, b : Nat]

\* The experiment that runs has its own phases, and all but a full one need a table.
KindFits ==
  /\ kind \in {"none", "full", "relocate", "recheck", "verify"}
  /\ (phase = "idle") <=> (kind = "none")
  /\ (phase = "recheck") <=> (kind = "recheck")
  /\ (phase = "verify") <=> (kind = "verify")
  /\ kind \in {"relocate", "recheck", "verify"} => table # NoTable

\* The P clock is searched among those seen feasible.
SearchFits ==
  /\ phase = "alpha" => v = Blank
  /\ phase \in {"ramp", "ramp_bisect"} => want.load \in Nat
  /\ phase \in {"coarse", "edge", "golden_c", "golden_d"} => v.seen \subseteq P /\ want.p \in P
  /\ phase = "coarse" => Within(v.todo, P)
  /\ phase \in {"edge", "golden_c", "golden_d"} =>
       v.lo \in P /\ v.hi \in P /\ \E f \in v.seen : InCache(At(f, v))
  /\ phase \in {"golden_c", "golden_d"} => Len(v.todo) = 2 /\ Within(v.todo, P)
  /\ phase \in {"coarse", "edge", "golden_c", "golden_d", "tables", "fit_top"} => v.top = 0
  /\ phase = "tables" => v.todo # <<>>

Walls == {"wall", "wall_bisect"}

\* The D clock and B*: what is carried on was clean.
DecodeFits ==
  /\ phase \in {"tables", "fit_top", "clock", "fit_low", "hint", "wall", "wall_bisect"} =>
       v.p \in P /\ v.top <= world.clean[ND]
  /\ phase = "clock" =>
       /\ Within(v.todo, D) /\ want = Closed(Head(v.todo), want.load)
       /\ want.load \in Nat \ {0}
       /\ v.seen \subseteq D /\ \A d \in v.seen : world.clean[d] >= 1
       /\ v.top = 0 => world.clean[ND] >= 1
  /\ phase = "fit_low" => want.d \in D /\ world.clean[want.d] >= 1 /\ v.top = 0
  /\ phase = "hint" => v.d \in D /\ want = Closed(v.d, v.top) /\ v.top >= 1
  /\ phase \in Walls =>
       /\ v.d \in D /\ want = Closed(v.d, want.load) /\ want.load \in Nat
       /\ v.lo <= world.clean[v.d]
       /\ v.top = 0 => v.d = ND
  /\ phase = "wall_bisect" => v.lo >= 1 /\ want.load >= 1

\* H and its capacity: of the loads seen at H the best is kept, and the target load is
\* still to come or already below it.
FillFits ==
  /\ phase \in {"joint", "fill", "fill_bisect"} =>
       v.p \in P /\ v.d \in D /\ v.b <= world.clean[v.d]
  /\ phase = "joint" =>
       Within(v.todo, v.d..ND) /\ want = Open(v.p, Head(v.todo), Target(v))
  /\ phase \in {"fill", "fill_bisect"} =>
       /\ want = Open(v.p, v.d, want.load) /\ want.load \in Nat
       /\ InCache(Open(v.p, v.d, Target(v)))
       /\ IsFiniteSet(v.seen)
       /\ v.lo = 0 \/ (InCache(Open(v.p, v.d, v.lo)) /\ v.lo \in v.seen)
       /\ \A load \in v.seen : InCache(Open(v.p, v.d, load)) => load <= v.lo
  /\ phase = "fill" =>
       /\ Within(v.todo, Nat) /\ want.load = (Head(v.todo) * v.c0) \div 10
       /\ (\E i \in DOMAIN v.todo : v.todo[i] = 8) \/ v.lo >= Target(v)
  /\ phase = "fill_bisect" =>
       /\ v.lo >= 1 /\ v.lo >= Target(v) /\ v.hi >= v.lo
       /\ want.load = (v.lo + v.hi) \div 2

\* A recheck and a verification measure at H and at the planned point.
CheckFits ==
  /\ phase = "recheck" =>
       v.seen \subseteq P /\ Within(v.todo, P) /\ want.p \in P
  /\ phase = "verify" => want.p \in P /\ want.d \in D /\ want.load \in Nat

PhaseFits == KindFits /\ SearchFits /\ DecodeFits /\ FillFits /\ CheckFits

TableFits == (table = NoTable \/ table \in TableShapes) /\ TargetMet

LocatorInv == world \in Worlds /\ v \in Locals /\ CacheTrue /\ TableFits /\ PhaseFits
-----------------------------------------------------------------------------
\* A measurement of a location that runs.
Going ==
  /\ LocatorInv /\ Measured /\ UNCHANGED world
  /\ phase \notin {"idle", "recheck", "verify"}

\* The capacity is the best load of those measured at the table's H.
BestLoad ==
  LET tested == v.seen \cup {want.load}
      good   == {load \in tested : Met(Open(table'.h[1], table'.h[2], load))}
  IN /\ table'.capacity \in good
     /\ \A load \in good : load <= table'.capacity

Publishing ==
  kind \in {"full", "relocate"} /\ kind' = "none" /\ outcome' = "published"

Kept == LocatorInv' /\ (Publishing => BestLoad)

LEMMA WorldFacts ==
  ASSUME world \in Worlds
  PROVE  /\ world.feff \in P /\ world.dmin \in D
         /\ \A d \in D : world.clean[d] \in Nat /\ world.joules[d] \in Nat
         /\ \A f \in P : world.cap[f] \in Nat /\ world.energy[f] \in Nat
         /\ \A d, e \in D : d <= e => world.clean[d] <= world.clean[e]
         /\ ND \in D /\ NP \in P
<1>1. /\ world.cap \in [P -> Nat] /\ world.energy \in [P -> Nat \ {0}]
      /\ world.clean \in [D -> Nat] /\ world.joules \in [D -> Nat \ {0}]
      /\ world.dmin \in D /\ world.feff \in P
  BY LocatorAssumption DEF LocatorAssumption
<1>2. \A d, e \in D : d <= e => world.clean[d] <= world.clean[e]
  BY LocatorAssumption DEF LocatorAssumption
<1>3. ND \in D /\ NP \in P
  BY Grid
<1> HIDE DEF D, P
<1> QED BY <1>1, <1>2, <1>3

\* A window that was measured now is true of the world, and none is forgotten.
LEMMA MeasuredFacts ==
  ASSUME CacheTrue, Measured, UNCHANGED world
  PROVE  /\ CacheTrue'
         /\ \A w : InCache(w) => Met(w)
         /\ \A w : Met(w) => InCache(w) \/ w = want
         /\ \A w : Met(w) => Bears(w)
<1>1. Shows(want) => Bears(want)
  BY DEF Shows, Bears
<1>2. cache' = cache \/ cache' = cache \cup {<<want, Shows(want)>>}
  BY DEF Measured
<1>3. \A c \in cache' : c \in cache \/ (c[1] = want /\ (c[2] => Bears(want)))
  BY <1>1, <1>2
<1>4. \A c \in cache' : c[2] => Bears(c[1])
  BY <1>3 DEF CacheTrue
<1>5. CacheTrue'
  BY <1>4 DEF CacheTrue, Bears
<1>6. \A w : Met(w) => InCache(w) \/ w = want
  BY <1>2 DEF Met, InCache
<1>7. \A w : Met(w) => Bears(w)
  <2> TAKE w
  <2> SUFFICES ASSUME <<w, TRUE>> \in cache' PROVE Bears(w)
    BY DEF Met
  <2> HIDE DEF Bears
  <2> QED BY <1>4
<1>8. \A w : InCache(w) => Met(w)
  BY <1>2 DEF Met, InCache
<1> QED BY <1>5, <1>6, <1>7, <1>8

\* The table and the cache stay true while a location goes on.
LEMMA AskKeeps ==
  ASSUME Going, NEW ph, NEW w, NEW r \in Locals, Ask(ph, w, r),
         ph \notin {"idle", "recheck", "verify"},
         SearchFits', DecodeFits', FillFits'
  PROVE  Kept
<1>1. CacheTrue'
  BY MeasuredFacts DEF Going, LocatorInv
<1>2. TableFits'
  BY DEF Ask, results, Going, LocatorInv, TableFits, TargetMet, Carries
<1>3. KindFits' /\ CheckFits' /\ kind' # "none"
  BY DEF Ask, results, Going, LocatorInv, PhaseFits, KindFits, CheckFits
<1> QED BY <1>1, <1>2, <1>3 DEF Ask, Going, LocatorInv, PhaseFits, Kept, Publishing

\* Nothing is claimed of a run that is over.
LEMMA IdleFits ==
  ASSUME phase' = "idle", kind' = "none", v' = Blank
  PROVE  PhaseFits' /\ (v \in Locals)'
<1>1. v' \in Locals
  <2>1. <<>> \in Seq(Int)
    OBVIOUS
  <2> QED BY <2>1 DEF Blank, Locals
<1> QED BY <1>1 DEF PhaseFits, KindFits, SearchFits, DecodeFits, FillFits, CheckFits, Walls

LEMMA FailsKeeps ==
  ASSUME Going, Fails
  PROVE  Kept
<1>1. CacheTrue'
  BY MeasuredFacts DEF Going, LocatorInv
<1>2. TableFits'
  BY DEF Fails, Going, LocatorInv, TableFits, TargetMet, Carries
<1> QED BY <1>1, <1>2, IdleFits DEF Fails, Stop, Going, LocatorInv, Kept, Publishing

(***************************************************************************)
(* Joint and fill.                                                          *)
(***************************************************************************)

\* What the locals say of H while it is filled.
FillLocals(r) ==
  /\ r \in Locals /\ r.p \in P /\ r.d \in D /\ r.b <= world.clean[r.d]
  /\ Met(Open(r.p, r.d, Target(r)))
  /\ IsFiniteSet(r.seen)
  /\ r.lo = 0 \/ (Met(Open(r.p, r.d, r.lo)) /\ r.lo \in r.seen)
  /\ \A load \in r.seen : Met(Open(r.p, r.d, load)) => load <= r.lo

LEMMA FillOrPublishKeeps ==
  ASSUME Going, NEW r, FillLocals(r), r.seen = v.seen \cup {want.load},
         r.lo >= 1, r.lo >= Target(r), r.hi = 0 \/ r.hi >= r.lo, FillOrPublish(r)
  PROVE  Kept
<1>1. r.lo \in Nat /\ r.hi \in Nat /\ r.b \in Nat /\ r.c0 \in Nat /\ Target(r) \in Nat
  BY DEF FillLocals, Locals, Target
<1>2. CASE r.hi = 0 \/ r.n = 0
  <2> DEFINE t == [h |-> <<r.p, r.d>>, capacity |-> r.lo, target |-> Target(r),
                   b |-> r.b, caps |-> {}, moved |-> FALSE]
  <2>1. Publishes(t)
    BY <1>2 DEF FillOrPublish
  <2>2. table' = t /\ phase' = "idle" /\ kind' = "none" /\ v' = Blank
    BY <2>1 DEF Publishes, Stop
  <2>3. t \in TableShapes
    BY <1>1 DEF FillLocals, TableShapes
  <2>4. Bears(Open(r.p, r.d, Target(r))) /\ Bears(Open(r.p, r.d, r.lo))
    BY <1>1, MeasuredFacts DEF FillLocals, Going, LocatorInv
  <2>5. TargetMet'
    <3>1. /\ Target(r) <= world.cap[r.p] /\ r.d >= world.dmin
          /\ r.lo <= world.cap[r.p] /\ r.b <= world.clean[r.d]
      BY <2>4 DEF Bears, Open, Window, FillLocals
    <3> QED BY <2>2, <3>1, <1>1 DEF TargetMet, Carries, Going
  <2>6. BestLoad
    BY <1>1, <2>2 DEF BestLoad, FillLocals
  <2>7. CacheTrue'
    BY MeasuredFacts DEF Going, LocatorInv
  <2> HIDE DEF t
  <2> QED BY <2>2, <2>3, <2>5, <2>6, <2>7, IdleFits DEF Going, LocatorInv, Kept, TableFits
<1>3. CASE ~(r.hi = 0 \/ r.n = 0)
  <2> DEFINE mid == (r.lo + r.hi) \div 2
  <2>1. Ask("fill_bisect", Open(r.p, r.d, mid), r)
    BY <1>3 DEF FillOrPublish
  <2>2. mid \in Nat
    BY <1>1
  <2>3. phase' = "fill_bisect" /\ want' = Open(r.p, r.d, mid) /\ v' = r
    BY <2>1 DEF Ask
  <2>4. SearchFits' /\ DecodeFits'
    BY <2>3 DEF SearchFits, DecodeFits, Walls
  <2>5. FillFits'
    BY <1>1, <1>3, <2>2, <2>3
       DEF FillFits, FillLocals, Open, Window, Met, InCache, Target, Going
  <2> HIDE DEF mid
  <2>6. r \in Locals
    BY DEF FillLocals
  <2> QED BY <2>1, <2>4, <2>5, <2>6, AskKeeps
<1> QED BY <1>2, <1>3

\* The target load is still to be measured, or below the best.
Fills(r) ==
  /\ FillLocals(r) /\ Within(r.todo, Nat)
  /\ (\E i \in DOMAIN r.todo : r.todo[i] = 8) \/ r.lo >= Target(r)

LEMMA AskFillKeeps ==
  ASSUME Going, NEW r, Fills(r), AskFill(r)
  PROVE  Kept
<1> DEFINE load == (Head(r.todo) * r.c0) \div 10
<1>1. r.c0 \in Nat /\ r.todo \in Seq(Int) /\ r \in Locals
  BY DEF Fills, FillLocals, Locals
<1>2. Head(r.todo) \in Nat
  BY <1>1 DEF Fills, Within
<1>3. load \in Nat
  <2>1. Head(r.todo) * r.c0 \in Nat
    BY <1>1, <1>2
  <2> QED BY <2>1
<1>4. Ask("fill", Open(r.p, r.d, load), r)
  BY DEF AskFill
<1>5. phase' = "fill" /\ want' = Open(r.p, r.d, load) /\ v' = r
  BY <1>4 DEF Ask
<1>6. SearchFits' /\ DecodeFits'
  BY <1>5 DEF SearchFits, DecodeFits, Walls
<1>7. FillFits'
  <2> HIDE DEF load
  <2>1. want'.load = load /\ want' = Open(v'.p, v'.d, want'.load)
    BY <1>5 DEF Open, Window
  <2>2. load = (Head(v'.todo) * v'.c0) \div 10
    BY <1>5 DEF load
  <2> QED
    BY <1>3, <1>5, <2>1, <2>2
       DEF FillFits, Fills, FillLocals, Met, InCache, Target, Going, Open, Window
<1> HIDE DEF load
<1> QED BY <1>1, <1>4, <1>6, <1>7, AskKeeps

\* A queue whose head was tried goes on with its tail.
LEMMA TailWithin ==
  ASSUME NEW s \in Seq(Int), NEW S, Within(s, S)
  PROVE  /\ Head(s) \in S /\ Tail(s) \in Seq(Int)
         /\ Tail(s) # <<>> => Within(Tail(s), S)
         /\ \A i \in DOMAIN s : i = 1 \/ (i - 1 \in DOMAIN Tail(s) /\ Tail(s)[i - 1] = s[i])
<1>1. Len(s) \in Nat /\ Len(s) >= 1 /\ DOMAIN s = 1..Len(s)
  BY DEF Within
<1>2. /\ Head(s) = s[1] /\ Tail(s) \in Seq(Int) /\ Len(Tail(s)) = Len(s) - 1
      /\ DOMAIN Tail(s) = 1..(Len(s) - 1) /\ \A i \in DOMAIN Tail(s) : Tail(s)[i] = s[i + 1]
  BY <1>1
<1>3. Head(s) \in S
  BY <1>1, <1>2 DEF Within
<1>4. \A i \in DOMAIN Tail(s) : Tail(s)[i] \in S
  BY <1>1, <1>2 DEF Within
<1>5. ASSUME NEW i \in DOMAIN s, i # 1
      PROVE  i - 1 \in DOMAIN Tail(s) /\ Tail(s)[i - 1] = s[i]
  BY <1>1, <1>2, <1>5
<1> QED BY <1>2, <1>3, <1>4, <1>5 DEF Within

\* The larger of two numbers.
LEMMA MaxOfTwo ==
  ASSUME NEW a \in Nat, NEW b \in Nat
  PROVE  Max({a, b}) \in Nat /\ Max({a, b}) = (IF a >= b THEN a ELSE b)
<1>1. IsFiniteSet({a}) /\ {a, b} = {a} \cup {b}
  BY FS_Singleton
<1>2. IsFiniteSet({a} \cup {b})
  BY <1>1, FS_AddElement
<1>3. {a, b} \in SUBSET Int /\ {a, b} # {} /\ IsFiniteSet({a, b})
  BY <1>1, <1>2
<1>4. Max({a, b}) \in {a, b} /\ \A y \in {a, b} : y <= Max({a, b})
  BY <1>3, MaxIsLargest
<1> QED BY <1>4

LEMMA FillKeeps ==
  ASSUME Going, Fill
  PROVE  Kept
<1>1. /\ phase = "fill" /\ v \in Locals /\ want = Open(v.p, v.d, want.load)
      /\ want.load \in Nat /\ want.load = (Head(v.todo) * v.c0) \div 10
      /\ Within(v.todo, Nat) /\ v.todo \in Seq(Int) /\ v.lo \in Nat /\ v.c0 \in Nat
  BY DEF Going, LocatorInv, PhaseFits, FillFits, Fill, Locals
<1> DEFINE best == IF Ok THEN Max({v.lo, want.load}) ELSE v.lo
           r == [v EXCEPT !.lo = best, !.seen = @ \cup {want.load}, !.todo = Tail(@)]
           bad == {load \in r.seen : ~Met(Open(r.p, r.d, load))}
           above == {load \in bad : load > best}
           next == [r EXCEPT !.n = FillBisectSteps, !.hi = IF above = {} THEN 0 ELSE Min(above)]
<1>2. best \in Nat /\ best >= v.lo /\ (Ok => best >= want.load /\ best \in {v.lo, want.load})
      /\ (~Ok => best = v.lo)
  <2>1. Max({v.lo, want.load}) = IF v.lo >= want.load THEN v.lo ELSE want.load
    BY <1>1, MaxOfTwo
  <2> QED BY <1>1, <2>1
<1> HIDE DEF best
<1>3. /\ r \in Locals /\ r.lo = best /\ r.seen = v.seen \cup {want.load}
      /\ r.todo = Tail(v.todo) /\ r.p = v.p /\ r.d = v.d /\ r.b = v.b /\ r.c0 = v.c0
  <2>1. Tail(v.todo) \in Seq(Int)
    BY <1>1, TailWithin
  <2>2. v.seen \cup {want.load} \in SUBSET Int
    BY <1>1 DEF Locals
  <2>3. /\ r.lo = best /\ r.seen = v.seen \cup {want.load}
        /\ r.todo = Tail(v.todo) /\ r.p = v.p /\ r.d = v.d /\ r.b = v.b /\ r.c0 = v.c0
    BY <1>1 DEF Locals
  <2>4. r \in Locals
    BY <1>1, <1>2, <2>1, <2>2 DEF Locals
  <2> QED BY <2>3, <2>4
<1> HIDE DEF r
<1>4. Target(r) = Target(v)
  BY <1>3 DEF Target
<1>5. /\ \A w : InCache(w) => Met(w)
      /\ \A w : Met(w) => InCache(w) \/ w = want
  BY MeasuredFacts DEF Going, LocatorInv
<1>6. FillLocals(r)
  <2>1. v.p \in P /\ v.d \in D /\ v.b <= world.clean[v.d]
    BY <1>1 DEF Going, LocatorInv, PhaseFits, FillFits
  <2>2. /\ InCache(Open(v.p, v.d, Target(v))) /\ IsFiniteSet(v.seen)
        /\ v.lo = 0 \/ (InCache(Open(v.p, v.d, v.lo)) /\ v.lo \in v.seen)
        /\ \A load \in v.seen : InCache(Open(v.p, v.d, load)) => load <= v.lo
    BY <1>1 DEF Going, LocatorInv, PhaseFits, FillFits
  <2>3. r.lo = 0 \/ (Met(Open(r.p, r.d, r.lo)) /\ r.lo \in r.seen)
    BY <1>1, <1>2, <1>3, <1>5, <2>2 DEF Ok
  <2>4. ASSUME NEW load \in r.seen, Met(Open(r.p, r.d, load)) PROVE load <= r.lo
    <3>1. CASE load = want.load
      <4>1. Ok
        BY <1>1, <1>3, <2>4, <3>1 DEF Ok
      <4> QED BY <1>2, <1>3, <3>1, <4>1
    <3>2. CASE load # want.load
      <4>1. load \in v.seen /\ Open(v.p, v.d, load) # want
        BY <1>1, <1>3, <3>2 DEF Open, Window
      <4>2. InCache(Open(v.p, v.d, load))
        BY <1>3, <1>5, <2>4, <4>1
      <4>3. load <= v.lo /\ load \in Int
        BY <1>1, <2>2, <4>1, <4>2 DEF Locals
      <4> QED BY <1>1, <1>2, <1>3, <4>3
    <3> QED BY <3>1, <3>2
  <2>5. IsFiniteSet(r.seen)
    BY <1>3, <2>2, FS_AddElement
  <2> QED BY <1>3, <1>4, <1>5, <2>1, <2>2, <2>3, <2>4, <2>5 DEF FillLocals
<1>7. (\E i \in DOMAIN r.todo : r.todo[i] = 8) \/ r.lo >= Target(r)
  <2>1. Target(v) \in Nat
    BY <1>1 DEF Target
  <2>2. CASE v.lo >= Target(v)
    BY <1>1, <1>2, <1>3, <1>4, <2>1, <2>2
  <2>3. CASE \E i \in DOMAIN v.todo : v.todo[i] = 8
    <3>1. PICK i \in DOMAIN v.todo : v.todo[i] = 8
      BY <2>3
    <3>2. CASE i = 1
      <4>1. Head(v.todo) = 8
        BY <1>1, <3>1, <3>2
      <4>2. want.load = Target(v)
        BY <1>1, <4>1 DEF Target
      <4>3. Ok
        BY <1>1, <1>5, <4>2 DEF Going, LocatorInv, PhaseFits, FillFits, Ok
      <4> QED BY <1>2, <1>3, <1>4, <4>2, <4>3
    <3>3. CASE i # 1
      <4>1. i - 1 \in DOMAIN Tail(v.todo) /\ Tail(v.todo)[i - 1] = v.todo[i]
        BY <1>1, <3>1, <3>3, TailWithin
      <4> QED BY <1>3, <3>1, <4>1
    <3> QED BY <3>2, <3>3
  <2> QED
    BY <1>1, <2>2, <2>3 DEF Going, LocatorInv, PhaseFits, FillFits
<1>8. CASE r.todo # <<>>
  <2>1. AskFill(r)
    BY <1>8 DEF Fill, r, best
  <2>2. Within(r.todo, Nat)
    BY <1>1, <1>3, <1>8, TailWithin
  <2> QED BY <1>6, <1>7, <2>1, <2>2, AskFillKeeps DEF Fills
<1>9. CASE r.todo = <<>> /\ best = 0
  <2>1. Fails
    BY <1>9 DEF Fill, r, best
  <2> QED BY <2>1, FailsKeeps
<1>10. CASE r.todo = <<>> /\ best # 0
  <2>1. FillOrPublish(next)
    BY <1>10 DEF Fill, r, best
  <2>2. r.seen \in SUBSET Int /\ IsFiniteSet(r.seen) /\ above \in SUBSET r.seen
    BY <1>3, <1>6 DEF Locals, FillLocals
  <2>3. above # {} => Min(above) \in above
    <3> HIDE DEF above
    <3>1. above \in SUBSET Int /\ IsFiniteSet(above)
      BY <2>2, FS_Subset
    <3> QED BY <3>1, MinIsLeast
  <2>4. next.hi = 0 \/ (next.hi \in Int /\ next.hi > best)
    <3> SUFFICES ASSUME above # {} PROVE Min(above) \in Int /\ Min(above) > best
      BY <1>3 DEF Locals
    <3> QED BY <2>2, <2>3
  <2>5. next \in Locals /\ next.lo = best /\ next.seen = r.seen /\ next.p = r.p
        /\ next.d = r.d /\ next.b = r.b /\ next.c0 = r.c0
    <3>1. next.hi \in Nat
      BY <1>2, <2>4
    <3>2. FillBisectSteps \in Int
      BY LocatorAssumption DEF LocatorAssumption
    <3> QED BY <1>3, <3>1, <3>2 DEF Locals
  <2> HIDE DEF next
  <2>6. Target(next) = Target(r) /\ FillLocals(next)
    BY <1>3, <1>6, <2>5 DEF Target, FillLocals
  <2>7. next.lo >= Target(next) /\ next.lo >= 1 /\ (next.hi = 0 \/ next.hi >= next.lo)
    <3>1. r.todo = <<>> => ~\E i \in DOMAIN r.todo : r.todo[i] = 8
      OBVIOUS
    <3>2. r.lo >= Target(r)
      BY <1>7, <1>10, <3>1
    <3> QED BY <1>2, <1>3, <1>10, <2>4, <2>5, <2>6, <3>2
  <2>8. next.seen = v.seen \cup {want.load}
    BY <1>3, <2>5
  <2> QED BY <2>1, <2>6, <2>7, <2>8, FillOrPublishKeeps
<1> QED BY <1>8, <1>9, <1>10

LEMMA FillBisectKeeps ==
  ASSUME Going, FillBisect
  PROVE  Kept
<1>1. /\ phase = "fill_bisect" /\ v \in Locals /\ want = Open(v.p, v.d, want.load)
      /\ want.load \in Nat /\ want.load = (v.lo + v.hi) \div 2
      /\ v.lo \in Nat /\ v.hi \in Nat /\ v.n \in Int /\ v.lo >= 1 /\ v.hi >= v.lo
      /\ Target(v) \in Nat /\ v.lo >= Target(v) /\ v.seen \in SUBSET Int
  <2>1. v \in Locals
    BY DEF Going, LocatorInv
  <2>2. /\ v.lo \in Nat /\ v.hi \in Nat /\ v.n \in Int /\ v.c0 \in Nat
        /\ v.seen \in SUBSET Int
    BY <2>1 DEF Locals
  <2>3. Target(v) \in Nat
    BY <2>2 DEF Target
  <2>4. phase = "fill_bisect" /\ FillFits
    BY DEF Going, LocatorInv, PhaseFits, FillBisect
  <2> QED BY <2>1, <2>2, <2>3, <2>4 DEF FillFits
<1>2. want.load >= v.lo /\ want.load >= 1
  BY <1>1
<1>3. /\ v.p \in P /\ v.d \in D /\ v.b <= world.clean[v.d]
      /\ InCache(Open(v.p, v.d, Target(v))) /\ IsFiniteSet(v.seen)
      /\ InCache(Open(v.p, v.d, v.lo)) /\ v.lo \in v.seen
      /\ \A load \in v.seen : InCache(Open(v.p, v.d, load)) => load <= v.lo
  BY <1>1 DEF Going, LocatorInv, PhaseFits, FillFits
<1>4. /\ \A w : InCache(w) => Met(w)
      /\ \A w : Met(w) => InCache(w) \/ w = want
  BY MeasuredFacts DEF Going, LocatorInv
<1> DEFINE r == [v EXCEPT !.seen = @ \cup {want.load}, !.n = @ - 1]
           next == IF Ok THEN [r EXCEPT !.lo = want.load] ELSE [r EXCEPT !.hi = want.load]
<1>5. FillOrPublish(next)
  BY DEF FillBisect
<1>6. /\ next \in Locals /\ next.seen = v.seen \cup {want.load} /\ next.p = v.p
      /\ next.d = v.d /\ next.b = v.b /\ next.c0 = v.c0
      /\ next.lo = (IF Ok THEN want.load ELSE v.lo)
      /\ next.hi = (IF Ok THEN v.hi ELSE want.load)
  <2>1. v.seen \cup {want.load} \in SUBSET Int /\ v.n - 1 \in Int
    BY <1>1
  <2>2. r \in Locals /\ r.seen = v.seen \cup {want.load} /\ r.p = v.p /\ r.d = v.d
        /\ r.b = v.b /\ r.c0 = v.c0 /\ r.lo = v.lo /\ r.hi = v.hi
    BY <1>1, <2>1 DEF Locals
  <2> HIDE DEF r
  <2> QED BY <1>1, <2>2 DEF Locals
<1> HIDE DEF next
<1>7. Target(next) = Target(v)
  BY <1>6 DEF Target
<1>8. Met(Open(v.p, v.d, next.lo)) /\ next.lo \in next.seen
  BY <1>1, <1>3, <1>4, <1>6 DEF Ok
<1>9. ASSUME NEW load \in next.seen, Met(Open(v.p, v.d, load)) PROVE load <= next.lo
  <2>1. CASE load = want.load
    <3>1. Ok
      BY <1>1, <1>9, <2>1 DEF Ok
    <3> QED BY <1>1, <1>6, <2>1, <3>1
  <2>2. CASE load # want.load
    <3>1. load \in v.seen /\ Open(v.p, v.d, load) # want
      BY <1>1, <1>6, <1>9, <2>2 DEF Open, Window
    <3>2. InCache(Open(v.p, v.d, load))
      BY <1>4, <1>9, <3>1
    <3>3. load <= v.lo /\ load \in Int
      BY <1>1, <1>3, <3>1, <3>2
    <3> QED BY <1>1, <1>2, <1>6, <3>3
  <2> QED BY <2>1, <2>2
<1>10. FillLocals(next)
  <2>1. IsFiniteSet(next.seen)
    BY <1>3, <1>6, FS_AddElement
  <2> QED BY <1>3, <1>4, <1>6, <1>7, <1>8, <1>9, <2>1 DEF FillLocals
<1>11. next.lo >= 1 /\ next.lo >= Target(next) /\ (next.hi = 0 \/ next.hi >= next.lo)
  <2>1. v.hi >= want.load
    BY <1>1
  <2> QED BY <1>1, <1>2, <1>6, <1>7, <2>1
<1> QED BY <1>5, <1>6, <1>10, <1>11, FillOrPublishKeeps

\* What the locals say once D's clock and B* are known.
JointLocals(r) ==
  r \in Locals /\ r.p \in P /\ r.d \in D /\ r.b <= world.clean[r.d]
  /\ Within(r.todo, r.d..ND)

LEMMA AskJointKeeps ==
  ASSUME Going, NEW r, JointLocals(r), AskJoint(r)
  PROVE  Kept
<1>1. phase' = "joint" /\ want' = Open(r.p, Head(r.todo), Target(r)) /\ v' = r
      /\ Ask("joint", Open(r.p, Head(r.todo), Target(r)), r)
  BY DEF AskJoint, Ask
<1>2. SearchFits' /\ DecodeFits'
  BY <1>1 DEF SearchFits, DecodeFits, Walls
<1>3. FillFits'
  BY <1>1 DEF FillFits, JointLocals, Target, Open, Window, Going
<1> QED BY <1>1, <1>2, <1>3, AskKeeps DEF JointLocals

LEMMA JointKeeps ==
  ASSUME FillsAtTarget, Going, Joint
  PROVE  Kept
<1>1. /\ phase = "joint" /\ v \in Locals /\ JointLocals(v) /\ v.todo \in Seq(Int)
      /\ want = Open(v.p, Head(v.todo), Target(v))
  BY DEF Going, LocatorInv, PhaseFits, FillFits, Joint, JointLocals, Locals
<1>2. Head(v.todo) \in v.d..ND /\ Tail(v.todo) \in Seq(Int)
      /\ (Tail(v.todo) # <<>> => Within(Tail(v.todo), v.d..ND))
  BY <1>1, TailWithin DEF JointLocals
<1>3. want.d \in v.d..ND /\ want.d \in D
  BY <1>1, <1>2, Grid DEF Open, Window, JointLocals
<1> DEFINE r == [v EXCEPT !.todo = Tail(@)]
           full == [v EXCEPT !.d = want.d, !.todo = FillTenths, !.lo = 0, !.hi = 0, !.seen = {}]
<1>4. CASE Ok
  <2>1. AskFill(full)
    BY <1>4 DEF Joint
  <2>2. FillTenths \in Seq(Nat) /\ FillTenths # <<>> /\ FillTenths \in Seq(Int)
    BY LocatorAssumption DEF LocatorAssumption
  <2>3. /\ full \in Locals /\ full.p = v.p /\ full.d = want.d /\ full.b = v.b
        /\ full.c0 = v.c0 /\ full.lo = 0 /\ full.seen = {} /\ full.todo = FillTenths
    <3>1. want.d \in Int /\ {} \in SUBSET Int
      BY <1>3, Grid
    <3> QED BY <1>1, <2>2, <3>1 DEF Locals
  <2> HIDE DEF full
  <2>4. full.b <= world.clean[full.d]
    <3>1. world.clean[v.d] <= world.clean[want.d]
      BY <1>1, <1>3, WorldFacts, Grid DEF Going, LocatorInv, JointLocals
    <3>2. world.clean[v.d] \in Nat /\ world.clean[want.d] \in Nat /\ v.b \in Nat
      BY <1>1, <1>3, WorldFacts DEF Going, LocatorInv, JointLocals, Locals
    <3> QED BY <1>1, <2>3, <3>1, <3>2 DEF JointLocals
  <2>5. Met(Open(full.p, full.d, Target(full)))
    <3>1. Target(full) = Target(v)
      BY <2>3 DEF Target
    <3>2. want = Open(v.p, want.d, Target(v))
      BY <1>1 DEF Open, Window
    <3> QED BY <1>4, <2>3, <3>1, <3>2 DEF Ok
  <2>6. FillLocals(full)
    BY <1>1, <1>3, <2>3, <2>4, <2>5, FS_EmptySet DEF FillLocals, JointLocals
  <2>7. Within(full.todo, Nat)
    BY <2>2, <2>3 DEF Within
  <2> QED BY <2>1, <2>3, <2>6, <2>7, AskFillKeeps DEF Fills, FillsAtTarget
<1>5. CASE ~Ok /\ Tail(v.todo) # <<>>
  <2>1. AskJoint(r)
    BY <1>1, <1>5 DEF Joint, Locals
  <2>2. JointLocals(r)
    BY <1>1, <1>2, <1>5 DEF JointLocals, Locals
  <2> QED BY <2>1, <2>2, AskJointKeeps
<1>6. CASE ~Ok /\ Tail(v.todo) = <<>>
  <2>1. Fails
    BY <1>1, <1>6 DEF Joint, Locals
  <2> QED BY <2>1, FailsKeeps
<1> QED BY <1>4, <1>5, <1>6

LEMMA ToJointKeeps ==
  ASSUME Going, NEW q \in Locals, q.p \in P, NEW d \in D, NEW b \in Nat,
         b <= world.clean[d], ToJoint(q, d, b)
  PROVE  Kept
<1> DEFINE S == Spread(d, ND, CoarsePoints - 1)
           r == [q EXCEPT !.d = d, !.b = b, !.todo = Ascending(S)]
<1>1. d \in Nat /\ ND \in Nat /\ d <= ND /\ CoarsePoints - 1 \in Nat
  BY Grid, LocatorAssumption DEF LocatorAssumption
<1>2. S # {} /\ S \subseteq d..ND
  BY <1>1, SpreadFacts
<1> HIDE DEF S
<1>3. S \in SUBSET Int /\ IsFiniteSet(S)
  <2>1. IsFiniteSet(d..ND)
    BY <1>1, FS_Interval
  <2>2. S \in SUBSET (d..ND)
    BY <1>2
  <2>3. IsFiniteSet(S)
    BY <2>1, <2>2, FS_Subset
  <2> QED BY <1>2, <2>3
<1>4. Ascending(S) \in Seq(Int) /\ Within(Ascending(S), d..ND)
  BY <1>2, <1>3, Sorted DEF Within
<1>5. JointLocals(r)
  <2>2. r \in Locals /\ r.p = q.p /\ r.d = d /\ r.b = b /\ r.todo = Ascending(S)
    <3>1. Ascending(S) \in Seq(Int) /\ d \in Int
      BY <1>1, <1>4
    <3>2. r \in Locals
      BY <3>1 DEF Locals
    <3> QED BY <3>2 DEF Locals
  <2> QED BY <1>4, <2>2 DEF JointLocals
<1>6. AskJoint(r)
  BY DEF ToJoint, S
<1> QED BY <1>5, <1>6, AskJointKeeps

(***************************************************************************)
(* Decode: the D clock and B*.                                              *)
(***************************************************************************)

\* What the locals say while D is searched.
DecodeLocals(r) == r \in Locals /\ r.p \in P /\ r.top <= world.clean[ND]

LEMMA ToClocksKeeps ==
  ASSUME Going, NEW r, DecodeLocals(r), r.top = 0 => world.clean[ND] >= 1,
         NEW b \in Nat, ToClocks(r, b)
  PROVE  Kept
<1> DEFINE S == Spread(1, ND, CoarsePoints)
           clocks == Descending(S)
           next == [r EXCEPT !.todo = clocks, !.seen = {}]
<1>1. 1 \in Nat /\ ND \in Nat /\ 1 <= ND /\ CoarsePoints \in Nat /\ IsFiniteSet(D) /\ D = 1..ND
  BY Grid, LocatorAssumption DEF LocatorAssumption
<1>2. S # {} /\ S \in SUBSET D
  BY <1>1, SpreadFacts
<1> HIDE DEF S
<1>3. S \in SUBSET Int /\ IsFiniteSet(S)
  <2>1. S \in SUBSET Int
    BY <1>1, <1>2
  <2> QED BY <1>1, <1>2, <2>1, FS_Subset
<1>4. clocks \in Seq(Int) /\ Within(clocks, D)
  BY <1>2, <1>3, Sorted DEF Within
<1> HIDE DEF clocks
<1>5. OfLoad(b) \in Nat \ {0}
  <2> DEFINE x == (7 * b + 5) \div 10
  <2>1. x \in Nat
    OBVIOUS
  <2> HIDE DEF x
  <2>2. IsFiniteSet({1}) /\ {1, x} = {1} \cup {x}
    BY FS_Singleton
  <2>3. IsFiniteSet({1} \cup {x})
    BY <2>2, FS_AddElement
  <2>4. {1, x} \in SUBSET Int /\ {1, x} # {} /\ IsFiniteSet({1, x})
    BY <2>1, <2>2, <2>3
  <2>5. Max({1, x}) \in {1, x} /\ \A y \in {1, x} : y <= Max({1, x})
    BY <2>4, MaxIsLargest
  <2>6. OfLoad(b) = Max({1, x})
    BY DEF OfLoad, x
  <2> QED BY <2>1, <2>5, <2>6
<1> HIDE DEF next
<1>6. Ask("clock", Closed(Head(clocks), OfLoad(b)), next)
  BY DEF ToClocks, clocks, S, next
<1>7. /\ next \in Locals /\ next.p = r.p /\ next.top = r.top /\ next.todo = clocks
      /\ next.seen = {}
  <2>1. {} \in SUBSET Int
    OBVIOUS
  <2>2. r \in Locals
    BY DEF DecodeLocals
  <2>3. next \in Locals
    BY <1>4, <2>1, <2>2 DEF next, Locals
  <2> QED BY <2>2, <2>3 DEF next, Locals
<1>8. /\ phase' = "clock" /\ v' = next /\ want'.load = OfLoad(b) /\ world' = world
      /\ want' = Closed(Head(clocks), OfLoad(b)) /\ (want = Closed(Head(v.todo), want.load))'
  BY <1>6, <1>7 DEF Ask, Closed, Window, Going
<1>9. SearchFits' /\ FillFits'
  BY <1>8 DEF SearchFits, FillFits
<1>10. DecodeFits'
  BY <1>4, <1>5, <1>7, <1>8 DEF DecodeFits, DecodeLocals, Walls
<1> QED BY <1>6, <1>7, <1>9, <1>10, AskKeeps

\* A window of the search for the highest clean concurrency.
WallLocals(r) ==
  /\ DecodeLocals(r) /\ r.d \in D /\ r.lo <= world.clean[r.d]
  /\ r.top = 0 => r.d = ND

LEMMA BStarKeeps ==
  ASSUME Going, NEW r, WallLocals(r), r.lo >= 1, BStar(r)
  PROVE  Kept
<1>1. r \in Locals /\ r.lo \in Nat /\ r.d \in D /\ r.top \in Nat /\ r.p \in P
  BY DEF WallLocals, DecodeLocals, Locals
<1>2. CASE r.top = 0
  <2> DEFINE next == [r EXCEPT !.top = r.lo]
  <2>1. ToClocks(next, r.lo)
    BY <1>2 DEF BStar
  <2>2. next \in Locals /\ next.p = r.p /\ next.top = r.lo
    BY <1>1 DEF Locals
  <2> HIDE DEF next
  <2>3. DecodeLocals(next) /\ next.top # 0
    BY <1>1, <1>2, <2>2 DEF DecodeLocals, WallLocals
  <2> QED BY <1>1, <2>1, <2>3, ToClocksKeeps
<1>3. CASE r.top # 0
  <2>1. ToJoint(r, r.d, r.lo)
    BY <1>3 DEF BStar
  <2>2. r.p \in P /\ r.lo <= world.clean[r.d]
    BY <1>1 DEF WallLocals
  <2> QED BY <1>1, <2>1, <2>2, ToJointKeeps
<1> QED BY <1>2, <1>3

LEMMA BisectWallKeeps ==
  ASSUME Going, NEW r, WallLocals(r), r.lo >= 1, BisectWall(r)
  PROVE  Kept
<1> DEFINE mid == (r.lo + r.hi) \div 2
<1>1. r \in Locals /\ r.lo \in Nat /\ r.hi \in Nat
  BY DEF WallLocals, DecodeLocals, Locals
<1>2. CASE r.hi = 0 \/ r.n = 0 \/ mid = r.lo
  <2>1. BStar(r)
    BY <1>2 DEF BisectWall
  <2> QED BY <2>1, BStarKeeps
<1>3. CASE ~(r.hi = 0 \/ r.n = 0 \/ mid = r.lo)
  <2>1. Ask("wall_bisect", Closed(r.d, mid), r)
    BY <1>3 DEF BisectWall
  <2>2. mid \in Nat /\ mid >= 1
    BY <1>1, <1>3
  <2> HIDE DEF mid
  <2>3. /\ phase' = "wall_bisect" /\ v' = r /\ want'.load = mid /\ world' = world
        /\ want' = Closed(r.d, mid) /\ (want = Closed(v.d, want.load))'
    BY <2>1 DEF Ask, Closed, Window, Going
  <2>4. SearchFits' /\ FillFits'
    BY <2>3 DEF SearchFits, FillFits
  <2>5. DecodeFits'
    BY <2>2, <2>3 DEF DecodeFits, WallLocals, DecodeLocals, Walls
  <2> QED BY <1>1, <2>1, <2>4, <2>5, AskKeeps
<1> QED BY <1>2, <1>3

LEMMA EndWallKeeps ==
  ASSUME Going, NEW r, WallLocals(r), EndWall(r)
  PROVE  Kept
<1>1. CASE r.lo = 0
  <2>1. Fails
    BY <1>1 DEF EndWall
  <2> QED BY <2>1, FailsKeeps
<1>2. CASE r.lo # 0
  <2> DEFINE next == [r EXCEPT !.n = 2]
  <2>1. BisectWall(next)
    BY <1>2 DEF EndWall
  <2>2. r \in Locals /\ r.lo \in Nat
    BY DEF WallLocals, DecodeLocals, Locals
  <2>3. next \in Locals /\ next.p = r.p /\ next.top = r.top /\ next.d = r.d /\ next.lo = r.lo
    <3>1. r \in Locals /\ 2 \in Int
      BY <2>2
    <3>2. next \in Locals
      BY <3>1, Zenon DEF Locals
    <3> QED BY <3>1, <3>2 DEF Locals
  <2> HIDE DEF next
  <2>4. WallLocals(next) /\ next.lo >= 1
    BY <1>2, <2>2, <2>3 DEF WallLocals, DecodeLocals
  <2> QED BY <2>1, <2>3, <2>4, BisectWallKeeps
<1> QED BY <1>1, <1>2

LEMMA AskWallKeeps ==
  ASSUME Going, NEW r, WallLocals(r), NEW c \in Nat, AskWall(c, r)
  PROVE  Kept
<1>1. r \in Locals
  BY DEF WallLocals, DecodeLocals
<1>2. CASE c <= DecodeMax /\ (r.hi = 0 \/ c < r.hi)
  <2>1. Ask("wall", Closed(r.d, c), r)
    BY <1>2 DEF AskWall
  <2>2. /\ phase' = "wall" /\ v' = r /\ want'.load = c /\ world' = world
        /\ want' = Closed(r.d, c) /\ (want = Closed(v.d, want.load))'
    BY <2>1 DEF Ask, Closed, Window, Going
  <2>3. SearchFits' /\ FillFits'
    BY <2>2 DEF SearchFits, FillFits
  <2>4. DecodeFits'
    BY <2>2 DEF DecodeFits, WallLocals, DecodeLocals, Walls
  <2> QED BY <1>1, <2>1, <2>3, <2>4, AskKeeps
<1>3. CASE ~(c <= DecodeMax /\ (r.hi = 0 \/ c < r.hi))
  <2>1. EndWall(r)
    BY <1>3 DEF AskWall
  <2> QED BY <2>1, EndWallKeeps
<1> QED BY <1>2, <1>3

\* A clean window of the wall is below what D runs cleanly.
LEMMA WallKnows ==
  ASSUME Going, phase \in Walls
  PROVE  /\ Ok => want.load <= world.clean[v.d]
         /\ WallLocals(v) /\ want.load \in Nat
         /\ phase = "wall_bisect" => v.lo >= 1 /\ want.load >= 1
<1>1. /\ WallLocals(v) /\ want = Closed(v.d, want.load) /\ want.load \in Nat
      /\ phase = "wall_bisect" => v.lo >= 1 /\ want.load >= 1
  BY DEF Going, LocatorInv, PhaseFits, DecodeFits, Walls, WallLocals, DecodeLocals
<1>2. ASSUME Ok PROVE want.load <= world.clean[v.d]
  <2>1. Bears(want)
    BY <1>2, MeasuredFacts DEF Ok, Going, LocatorInv
  <2>2. want.kind = "closed" /\ want.d = v.d
    BY <1>1 DEF Closed, Window
  <2> QED BY <2>1, <2>2 DEF Bears
<1> QED BY <1>1, <1>2

LEMMA WallKeeps ==
  ASSUME Going, Wall
  PROVE  Kept
<1>1. phase \in Walls
  BY DEF Wall, Walls
<1>2. WallLocals(v) /\ want.load \in Nat /\ (Ok => want.load <= world.clean[v.d])
  BY <1>1, WallKnows
<1>3. CASE Ok
  <2> DEFINE r == [v EXCEPT !.lo = want.load]
             c == 2 * want.load
  <2>1. AskWall(c, r) /\ c \in Nat
    BY <1>2, <1>3 DEF Wall
  <2>2. r \in Locals /\ r.lo = want.load /\ r.p = v.p /\ r.top = v.top /\ r.d = v.d
    BY <1>2 DEF WallLocals, DecodeLocals, Locals
  <2> HIDE DEF r, c
  <2>3. WallLocals(r)
    BY <1>2, <1>3, <2>2 DEF WallLocals, DecodeLocals
  <2> QED BY <2>1, <2>2, <2>3, AskWallKeeps
<1>4. CASE ~Ok
  <2> DEFINE r == [v EXCEPT !.hi = want.load]
  <2>1. EndWall(r)
    BY <1>4 DEF Wall
  <2>2. r \in Locals /\ r.lo = v.lo /\ r.p = v.p /\ r.top = v.top /\ r.d = v.d
    BY <1>2 DEF WallLocals, DecodeLocals, Locals
  <2> HIDE DEF r
  <2>3. WallLocals(r)
    BY <1>2, <2>2 DEF WallLocals, DecodeLocals
  <2> QED BY <2>1, <2>2, <2>3, EndWallKeeps
<1> QED BY <1>3, <1>4

LEMMA WallBisectKeeps ==
  ASSUME Going, WallBisect
  PROVE  Kept
<1>1. phase \in Walls /\ phase = "wall_bisect"
  BY DEF WallBisect, Walls
<1>2. /\ WallLocals(v) /\ want.load \in Nat /\ (Ok => want.load <= world.clean[v.d])
      /\ v.lo >= 1 /\ want.load >= 1
  BY <1>1, WallKnows
<1> DEFINE r == IF Ok THEN [v EXCEPT !.lo = want.load, !.n = @ - 1]
                      ELSE [v EXCEPT !.hi = want.load, !.n = @ - 1]
<1>3. BisectWall(r)
  BY DEF WallBisect
<1>4. /\ r \in Locals /\ r.lo = (IF Ok THEN want.load ELSE v.lo) /\ r.p = v.p
      /\ r.top = v.top /\ r.d = v.d
  <2>1. v \in Locals /\ v.n - 1 \in Int
    BY <1>2 DEF WallLocals, DecodeLocals, Locals
  <2> QED BY <1>2, <2>1 DEF Locals
<1> HIDE DEF r
<1>5. WallLocals(r) /\ r.lo >= 1
  BY <1>2, <1>4 DEF WallLocals, DecodeLocals
<1> QED BY <1>3, <1>4, <1>5, BisectWallKeeps

LEMMA ToCountKeeps ==
  ASSUME Going, DecodeLocals(v), ToCount(v)
  PROVE  Kept
<1> DEFINE r == [v EXCEPT !.lo = 0, !.hi = 0, !.d = ND]
<1>1. Ask("wall", Closed(ND, DecodeStart), r)
  BY DEF ToCount
<1>2. r \in Locals /\ r.lo = 0 /\ r.p = v.p /\ r.top = v.top /\ r.d = ND
  <2>1. v \in Locals /\ ND \in Int /\ 0 \in Nat
    BY Grid DEF DecodeLocals
  <2>2. r \in Locals
    BY <2>1 DEF Locals
  <2> QED BY <2>1, <2>2 DEF Locals
<1>3. world.clean[ND] \in Nat /\ DecodeStart \in Nat /\ ND \in D
  BY WorldFacts, LocatorAssumption DEF LocatorAssumption, Going, LocatorInv
<1> HIDE DEF r
<1>4. /\ phase' = "wall" /\ v' = r /\ want'.load = DecodeStart /\ world' = world
      /\ (want = Closed(v.d, want.load))'
  BY <1>1, <1>2 DEF Ask, Closed, Window, Going
<1>5. SearchFits' /\ FillFits'
  BY <1>4 DEF SearchFits, FillFits
<1>6. DecodeFits'
  BY <1>2, <1>3, <1>4 DEF DecodeFits, DecodeLocals, Walls
<1> QED BY <1>1, <1>2, <1>5, <1>6, AskKeeps

LEMMA FitTopKeeps ==
  ASSUME Going, FitTop
  PROVE  Kept
<1>1. DecodeLocals(v)
  BY DEF FitTop, Going, LocatorInv, PhaseFits, DecodeFits, DecodeLocals
<1>2. world.clean[ND] \in Nat
  BY WorldFacts DEF Going, LocatorInv
<1>3. CASE ~Ok
  <2>1. ToCount(v)
    BY <1>3 DEF FitTop
  <2> QED BY <1>1, <2>1, ToCountKeeps
<1>4. CASE Ok /\ world.clean[ND] = 0
  <2>1. Fails
    BY <1>4 DEF FitTop
  <2> QED BY <2>1, FailsKeeps
<1>5. CASE Ok /\ world.clean[ND] # 0
  <2>1. ToClocks(v, world.clean[ND])
    BY <1>5 DEF FitTop
  <2>2. world.clean[ND] >= 1
    BY <1>2, <1>5
  <2> QED BY <1>1, <1>2, <2>1, <2>2, ToClocksKeeps
<1> QED BY <1>3, <1>4, <1>5

LEMMA ChosenKeeps ==
  ASSUME Going, phase = "clock", NEW d \in D, world.clean[d] >= 1, Chosen(v, d)
  PROVE  Kept
<1>1. /\ v \in Locals /\ v.p \in P /\ v.top <= world.clean[ND] /\ v.top \in Nat
      /\ v.top = 0 => world.clean[ND] >= 1
  BY DEF Going, LocatorInv, PhaseFits, DecodeFits, Locals
<1>2. world.clean[ND] \in Nat /\ ND \in D
  BY WorldFacts DEF Going, LocatorInv
<1>3. CASE d = ND
  <2> DEFINE b == IF v.top = 0 THEN Max({1, world.clean[ND]}) ELSE v.top
  <2>1. ToJoint(v, d, b)
    BY <1>3 DEF Chosen
  <2>2. b \in Nat /\ b <= world.clean[d]
    <3>1. 1 \in Nat
      OBVIOUS
    <3>2. Max({1, world.clean[ND]}) = IF 1 >= world.clean[ND] THEN 1 ELSE world.clean[ND]
      BY <1>2, <3>1, MaxOfTwo
    <3> QED BY <1>1, <1>2, <1>3, <3>2
  <2> HIDE DEF b
  <2> QED BY <1>1, <2>1, <2>2, ToJointKeeps
<1>4. CASE d # ND /\ v.top = 0
  <2>1. Ask("fit_low", FitAt(d), v)
    BY <1>4 DEF Chosen
  <2>2. phase' = "fit_low" /\ v' = v /\ want'.d = d /\ world' = world
    BY <2>1 DEF Ask, FitAt, Window, Going
  <2>3. SearchFits' /\ FillFits'
    BY <2>2 DEF SearchFits, FillFits
  <2>4. DecodeFits'
    BY <1>1, <1>4, <2>2 DEF DecodeFits, Walls
  <2> QED BY <1>1, <2>1, <2>3, <2>4, AskKeeps
<1>5. CASE d # ND /\ v.top # 0
  <2> DEFINE r == [v EXCEPT !.d = d]
  <2>1. Ask("hint", Closed(d, v.top), r)
    BY <1>5 DEF Chosen
  <2>2. r \in Locals /\ r.p = v.p /\ r.top = v.top /\ r.d = d
    <3>1. d \in Int
      BY Grid
    <3>2. r \in Locals
      BY <1>1, <3>1 DEF Locals
    <3> QED BY <1>1, <3>2 DEF Locals
  <2> HIDE DEF r
  <2>3. /\ phase' = "hint" /\ v' = r /\ world' = world /\ want' = Closed(d, v.top)
        /\ (want = Closed(v.d, v.top))'
    BY <2>1, <2>2 DEF Ask, Closed, Window, Going
  <2>4. SearchFits' /\ FillFits'
    BY <2>3 DEF SearchFits, FillFits
  <2>5. DecodeFits'
    BY <1>1, <1>5, <2>2, <2>3 DEF DecodeFits, Walls
  <2> QED BY <2>1, <2>2, <2>4, <2>5, AskKeeps
<1> QED BY <1>3, <1>4, <1>5

LEMMA ClockKeeps ==
  ASSUME Going, Clock
  PROVE  Kept
<1> DEFINE clean == IF Ok THEN v.seen \cup {want.d} ELSE v.seen
           rest == Tail(v.todo)
<1>1. /\ phase = "clock" /\ v \in Locals /\ v.p \in P /\ v.top <= world.clean[ND]
      /\ Within(v.todo, D) /\ v.todo \in Seq(Int) /\ want = Closed(Head(v.todo), want.load)
      /\ want.load \in Nat \ {0} /\ v.seen \subseteq D
      /\ \A d \in v.seen : world.clean[d] >= 1
      /\ v.top = 0 => world.clean[ND] >= 1
  BY DEF Clock, Going, LocatorInv, PhaseFits, DecodeFits, Locals
<1>2. want.d = Head(v.todo) /\ want.d \in D /\ rest \in Seq(Int)
      /\ (rest # <<>> => Within(rest, D))
  BY <1>1, TailWithin DEF Closed, Window
<1>3. clean \in SUBSET D /\ \A d \in clean : world.clean[d] >= 1
  <2>1. ASSUME Ok PROVE world.clean[want.d] >= 1
    <3>1. Bears(want)
      BY <2>1, MeasuredFacts DEF Ok, Going, LocatorInv
    <3>2. want.kind = "closed"
      BY <1>1 DEF Closed, Window
    <3>3. world.clean[want.d] \in Nat
      BY <1>2, WorldFacts DEF Going, LocatorInv
    <3> QED BY <1>1, <3>1, <3>2, <3>3 DEF Bears
  <2> QED BY <1>1, <1>2, <2>1
<1> HIDE DEF clean
<1>4. CASE Ok /\ rest # <<>>
  <2> DEFINE r == [v EXCEPT !.todo = rest, !.seen = clean]
  <2>1. Ask("clock", Closed(Head(rest), want.load), r)
    BY <1>4 DEF Clock, clean
  <2>2. r \in Locals
    <3>1. clean \in SUBSET Int
      BY <1>3, Grid
    <3> QED BY <1>1, <1>2, <3>1 DEF Locals
  <2>3. r.p = v.p /\ r.top = v.top /\ r.todo = rest /\ r.seen = clean
    BY <1>1 DEF Locals
  <2> HIDE DEF r, rest
  <2>4. /\ phase' = "clock" /\ v' = r /\ world' = world /\ want'.load = want.load
        /\ want' = Closed(Head(rest), want.load) /\ (want = Closed(Head(v.todo), want.load))'
    BY <2>1, <2>3 DEF Ask, Closed, Window, Going
  <2>5. SearchFits' /\ FillFits'
    BY <2>4 DEF SearchFits, FillFits
  <2>6. DecodeFits'
    BY <1>1, <1>2, <1>3, <1>4, <2>3, <2>4 DEF DecodeFits, Walls
  <2> QED BY <2>1, <2>2, <2>5, <2>6, AskKeeps
<1>5. CASE ~(Ok /\ rest # <<>>) /\ clean = {}
  <2>1. Fails
    BY <1>5 DEF Clock, clean
  <2> QED BY <2>1, FailsKeeps
<1>6. CASE ~(Ok /\ rest # <<>>) /\ clean # {}
  <2> DEFINE d == UpperEdge(clean, world.joules, {})
  <2>1. Chosen(v, d)
    BY <1>6 DEF Clock, clean
  <2>2. d \in clean
    <3>1. clean \in SUBSET Int /\ IsFiniteSet(clean)
      <4>1. D \in SUBSET Int /\ IsFiniteSet(D)
        BY Grid
      <4> HIDE DEF D
      <4>2. IsFiniteSet(clean)
        BY <1>3, <4>1, FS_Subset
      <4> QED BY <1>3, <4>1, <4>2
    <3>2. \A f \in clean : world.joules[f] \in Nat
      BY <1>3, WorldFacts DEF Going, LocatorInv
    <3> QED BY <1>6, <3>1, <3>2, UpperEdgeFacts
  <2> HIDE DEF d
  <2>3. d \in D /\ world.clean[d] >= 1
    BY <1>3, <2>2
  <2> QED BY <1>1, <2>1, <2>3, ChosenKeeps
<1> QED BY <1>4, <1>5, <1>6

LEMMA FitLowKeeps ==
  ASSUME Going, FitLow
  PROVE  Kept
<1>1. DecodeLocals(v) /\ want.d \in D /\ world.clean[want.d] >= 1
  BY DEF FitLow, Going, LocatorInv, PhaseFits, DecodeFits, DecodeLocals
<1>2. CASE Ok
  <2> DEFINE b == Max({1, world.clean[want.d]})
  <2>1. ToJoint(v, want.d, b)
    BY <1>2 DEF FitLow
  <2>2. world.clean[want.d] \in Nat /\ 1 \in Nat
    BY <1>1, WorldFacts DEF Going, LocatorInv
  <2>3. b \in Nat /\ b <= world.clean[want.d]
    BY <1>1, <2>2, MaxOfTwo
  <2> HIDE DEF b
  <2> QED BY <1>1, <2>1, <2>3, ToJointKeeps DEF DecodeLocals
<1>3. CASE ~Ok
  <2>1. ToCount(v)
    BY <1>3 DEF FitLow
  <2> QED BY <1>1, <2>1, ToCountKeeps
<1> QED BY <1>2, <1>3

LEMMA HintKeeps ==
  ASSUME Going, Hint
  PROVE  Kept
<1>1. /\ DecodeLocals(v) /\ v.d \in D /\ want = Closed(v.d, v.top) /\ v.top >= 1
      /\ v.top \in Nat
  BY DEF Hint, Going, LocatorInv, PhaseFits, DecodeFits, DecodeLocals, Locals
<1>2. CASE Ok
  <2>1. ToJoint(v, v.d, v.top)
    BY <1>2 DEF Hint
  <2>2. Bears(want)
    BY <1>2, MeasuredFacts DEF Ok, Going, LocatorInv
  <2>3. v.top <= world.clean[v.d]
    BY <1>1, <2>2 DEF Bears, Closed, Window
  <2> QED BY <1>1, <2>1, <2>3, ToJointKeeps DEF DecodeLocals
<1>3. CASE ~Ok
  <2> DEFINE half == v.top \div 2
             c == Max({DecodeStart, half})
             r == [v EXCEPT !.lo = 0, !.hi = v.top]
  <2>1. AskWall(c, r)
    BY <1>3 DEF Hint
  <2>2. c \in Nat
    <3>1. half \in Nat /\ DecodeStart \in Nat
      BY <1>1, LocatorAssumption DEF LocatorAssumption
    <3> HIDE DEF half
    <3> QED BY <3>1, MaxOfTwo
  <2>3. r \in Locals
    BY <1>1 DEF DecodeLocals, Locals
  <2>4. r.p = v.p /\ r.top = v.top /\ r.d = v.d /\ r.lo = 0
    BY <1>1 DEF DecodeLocals, Locals
  <2> HIDE DEF r, c
  <2>5. WallLocals(r)
    <3>1. world.clean[v.d] \in Nat
      BY <1>1, WorldFacts DEF Going, LocatorInv
    <3> QED BY <1>1, <2>3, <2>4, <3>1 DEF WallLocals, DecodeLocals
  <2> QED BY <2>1, <2>2, <2>4, <2>5, AskWallKeeps
<1> QED BY <1>2, <1>3

(***************************************************************************)
(* The P clock.                                                             *)
(***************************************************************************)

\* What the locals say while P is searched.
SearchLocals(r) == r \in Locals /\ r.seen \in SUBSET P /\ r.top = 0

LEMMA AskTablesKeeps ==
  ASSUME Going, NEW r \in Locals, r.p \in P, r.top = 0, AskTables(r)
  PROVE  Kept
<1>1. world.clean[ND] \in Nat /\ world.clean[ND] >= 0 /\ kind \in {"full", "relocate"}
  BY WorldFacts DEF Going, LocatorInv, PhaseFits, KindFits
<1>2. CASE r.todo # <<>>
  <2>1. Ask("tables", Service(Head(r.todo)), r)
    BY <1>2 DEF AskTables
  <2>2. phase' = "tables" /\ v' = r /\ world' = world
    BY <2>1 DEF Ask, Going
  <2>3. SearchFits' /\ FillFits' /\ DecodeFits'
    BY <1>1, <1>2, <2>2 DEF SearchFits, FillFits, DecodeFits, Walls
  <2> QED BY <2>1, <2>3, AskKeeps
<1>3. CASE r.todo = <<>> /\ kind = "relocate"
  <2>1. ToJoint(r, table.h[2], table.b)
    BY <1>3 DEF AskTables
  <2>2. table \in TableShapes /\ table.b <= world.clean[table.h[2]]
    BY <1>3 DEF Going, LocatorInv, PhaseFits, KindFits, TableFits, TargetMet
  <2>3. table.h[2] \in D /\ table.b \in Nat
    BY <2>2 DEF TableShapes
  <2> QED BY <2>1, <2>2, <2>3, ToJointKeeps
<1>4. CASE r.todo = <<>> /\ kind # "relocate"
  <2>1. Ask("fit_top", FitAt(ND), r)
    BY <1>4 DEF AskTables
  <2>2. phase' = "fit_top" /\ v' = r /\ world' = world
    BY <2>1 DEF Ask, Going
  <2>3. SearchFits' /\ FillFits' /\ DecodeFits'
    BY <1>1, <2>2 DEF SearchFits, FillFits, DecodeFits, Walls
  <2> QED BY <2>1, <2>3, AskKeeps
<1> QED BY <1>2, <1>3, <1>4

LEMMA TablesKeeps ==
  ASSUME Going, Tables
  PROVE  Kept
<1> DEFINE r == [v EXCEPT !.todo = Tail(@)]
<1>1. v \in Locals /\ v.p \in P /\ v.todo # <<>> /\ v.todo \in Seq(Int) /\ v.top = 0
  BY DEF Tables, Going, LocatorInv, PhaseFits, SearchFits, DecodeFits, Locals
<1>2. Tail(v.todo) \in Seq(Int)
  BY <1>1
<1>3. r \in Locals
  BY <1>1, <1>2 DEF Locals
<1>4. r.p = v.p /\ r.top = v.top
  BY <1>1 DEF Locals
<1>5. AskTables(r)
  BY DEF Tables
<1> HIDE DEF r
<1> QED BY <1>1, <1>3, <1>4, <1>5, AskTablesKeeps

\* An ordered set is a sequence, also an empty one.
LEMMA AscendingSeq ==
  ASSUME NEW S \in SUBSET Int, IsFiniteSet(S)
  PROVE  Ascending(S) \in Seq(Int)
<1>1. CASE S # {}
  BY <1>1, Sorted
<1>2. CASE S = {}
  <2>1. Cardinality(S) = 0
    BY <1>2, FS_EmptySet
  <2> DEFINE s == [i \in 1..0 |-> CHOOSE x \in S : Cardinality({y \in S : y < x}) = i - 1]
  <2>2. Ascending(S) = s
    BY <2>1 DEF Ascending
  <2>3. s \in [1..0 -> Int]
    OBVIOUS
  <2> HIDE DEF s
  <2> QED BY <2>2, <2>3
<1> QED BY <1>1, <1>2

LEMMA ChooseKeeps ==
  ASSUME Going, NEW r, SearchLocals(r), Feasible(r) # {}, Choose(r)
  PROVE  Kept
<1> DEFINE S == Feasible(r)
           p == UpperEdge(S, world.energy, world.limited)
           others == (Spread(1, world.feff, CoarsePoints) \cup {p}) \ {NP}
           next == [r EXCEPT !.p = p, !.todo = Ascending(others)]
<1>1. P \in SUBSET Int /\ IsFiniteSet(P) /\ P = 1..NP /\ world.feff \in P /\ NP \in Nat
  BY Grid, WorldFacts DEF Going, LocatorInv
<1>2. S \in SUBSET P /\ S # {}
  BY DEF SearchLocals, Feasible
<1> HIDE DEF S
<1>3. p \in P
  <2>1. IsFiniteSet(S)
    <3> HIDE DEF P
    <3> QED BY <1>1, <1>2, FS_Subset
  <2>2. \A f \in S : world.energy[f] \in Nat
    BY <1>2, WorldFacts DEF Going, LocatorInv
  <2>3. S \in SUBSET Int
    BY <1>1, <1>2
  <2>4. p \in S
    BY <1>2, <2>1, <2>2, <2>3, UpperEdgeFacts
  <2> QED BY <1>2, <2>4
<1> HIDE DEF p
<1>4. others \in SUBSET Int /\ IsFiniteSet(others)
  <2>1. 1 \in Nat /\ world.feff \in Nat /\ 1 <= world.feff /\ CoarsePoints \in Nat
    BY <1>1, LocatorAssumption DEF LocatorAssumption
  <2>2. Spread(1, world.feff, CoarsePoints) \subseteq 1..world.feff
    BY <2>1, SpreadFacts
  <2>3. others \in SUBSET P
    BY <1>1, <1>3, <2>2
  <2> HIDE DEF others, P
  <2>4. IsFiniteSet(others)
    BY <1>1, <2>3, FS_Subset
  <2> QED BY <1>1, <2>3, <2>4
<1>5. others # {} => Ascending(others) # <<>>
  BY <1>4, Sorted
<1>6. Ascending(others) \in Seq(Int)
  BY <1>4, AscendingSeq
<1>7. next \in Locals /\ next.p = p /\ next.top = 0 /\ next.todo = Ascending(others)
  <2>1. r \in Locals /\ p \in Int /\ r.top = 0
    BY <1>1, <1>3 DEF SearchLocals
  <2> HIDE DEF others
  <2>2. next \in Locals
    BY <1>6, <2>1 DEF Locals
  <2> QED BY <2>1, <2>2 DEF Locals
<1>8. CASE others = {}
  <2>1. AskTables(next)
    BY <1>8 DEF Choose, S, p
  <2> HIDE DEF next
  <2> QED BY <1>3, <1>7, <2>1, AskTablesKeeps
<1>9. CASE others # {}
  <2>1. Ask("tables", Service(Min(others)), next)
    BY <1>9 DEF Choose, S, p
  <2> HIDE DEF next, others
  <2>2. phase' = "tables" /\ v' = next /\ world' = world
    BY <2>1 DEF Ask, Going
  <2>3. world.clean[ND] \in Nat /\ world.clean[ND] >= 0
    BY WorldFacts DEF Going, LocatorInv
  <2>4. SearchFits' /\ FillFits' /\ DecodeFits'
    BY <1>3, <1>5, <1>7, <1>9, <2>2, <2>3 DEF SearchFits, FillFits, DecodeFits, Walls
  <2> QED BY <1>7, <2>1, <2>4, AskKeeps
<1> QED BY <1>8, <1>9

\* A search between two clocks, with one seen feasible.
Between(r) == SearchLocals(r) /\ r.lo \in P /\ r.hi \in P /\ Feasible(r) # {}

LEMMA GoldenKeeps ==
  ASSUME Going, NEW r, Between(r), Golden(r)
  PROVE  Kept
<1>1. r.lo \in Nat /\ r.hi \in Nat /\ r.lo \in P /\ r.hi \in P /\ r \in Locals /\ P = 1..NP
      /\ NP \in Nat /\ r.seen \in SUBSET P /\ r.top = 0
  BY Grid DEF Between, SearchLocals
<1>2. CASE r.hi - r.lo <= 2 \/ r.n = 0
  <2>1. Choose(r)
    BY <1>2 DEF Golden
  <2> QED BY <2>1, ChooseKeeps DEF Between
<1>3. CASE ~(r.hi - r.lo <= 2 \/ r.n = 0)
  <2> DEFINE gap == 618 * (r.hi - r.lo)
             c == Nearest(1000 * r.hi - gap, 1000)
             d == Nearest(1000 * r.lo + gap, 1000)
             next == [r EXCEPT !.todo = <<c, d>>, !.seen = @ \cup {c}]
  <2>1. Ask("golden_c", At(c, r), next)
    BY <1>3 DEF Golden
  <2>2. c \in r.lo..r.hi /\ d \in r.lo..r.hi
    <3> DEFINE x == 1000 * r.hi - gap
               y == 1000 * r.lo + gap
               k == 1000
    <3>1. /\ x \in Nat /\ y \in Nat /\ k \in Nat /\ k > 0
          /\ r.lo * k <= x /\ x <= r.hi * k /\ r.lo * k <= y /\ y <= r.hi * k
      BY <1>1, <1>3
    <3> HIDE DEF x, y, k
    <3>2. Nearest(x, k) \in r.lo..r.hi
      BY <1>1, <3>1, NearestBetween
    <3>3. Nearest(y, k) \in r.lo..r.hi
      BY <1>1, <3>1, NearestBetween
    <3> QED BY <3>2, <3>3 DEF x, y, k
  <2> HIDE DEF c, d
  <2>3. c \in P /\ d \in P /\ c \in Int /\ d \in Int
    BY <1>1, <2>2
  <2> HIDE DEF P
  <2>4. <<c, d>> \in Seq(Int) /\ Len(<<c, d>>) = 2 /\ Within(<<c, d>>, P)
    BY <2>3 DEF Within
  <2>5. next \in Locals
    <3>1. r.seen \cup {c} \in SUBSET Int
      BY <1>1, <2>3 DEF Locals
    <3> QED BY <1>1, <2>4, <3>1 DEF Locals
  <2>6. /\ next.todo = <<c, d>> /\ next.seen = r.seen \cup {c} /\ next.lo = r.lo
        /\ next.hi = r.hi /\ next.top = r.top /\ next.c0 = r.c0
    BY <1>1 DEF Locals
  <2> HIDE DEF next
  <2>7. phase' = "golden_c" /\ v' = next /\ world' = world /\ want'.p = c
    BY <2>1 DEF Ask, Going, At, Open, Window
  <2>8. PICK f \in r.seen : Met(At(f, r))
    BY DEF Between, Feasible
  <2>9. f \in next.seen /\ At(f, next) = At(f, r)
    BY <2>6, <2>8 DEF At, Target
  <2>10. SearchFits'
    BY <1>1, <2>3, <2>4, <2>6, <2>7, <2>8, <2>9 DEF SearchFits, InCache, Met, At, Open, Window,
       Target
  <2>11. FillFits' /\ DecodeFits'
    BY <2>7 DEF FillFits, DecodeFits, Walls
  <2> QED BY <2>1, <2>5, <2>10, <2>11, AskKeeps
<1> QED BY <1>2, <1>3

\* A queue of two clocks.
LEMMA GoldenKnows ==
  ASSUME Going, phase \in {"edge", "golden_c", "golden_d"}
  PROVE  /\ v \in Locals /\ Between(v) /\ want.p \in P
         /\ phase # "edge" => /\ Len(v.todo) = 2 /\ Within(v.todo, P)
                              /\ v.todo[1] \in P /\ v.todo[2] \in P
<1>1. /\ v \in Locals /\ v.seen \subseteq P /\ want.p \in P /\ v.lo \in P /\ v.hi \in P
      /\ (\E f \in v.seen : InCache(At(f, v))) /\ v.top = 0
      /\ phase # "edge" => Len(v.todo) = 2 /\ Within(v.todo, P)
  BY DEF Going, LocatorInv, PhaseFits, SearchFits
<1>2. Feasible(v) # {}
  <2>1. PICK f \in v.seen : InCache(At(f, v))
    BY <1>1
  <2>2. Met(At(f, v))
    BY <2>1, MeasuredFacts DEF Going, LocatorInv
  <2> QED BY <2>1, <2>2 DEF Feasible
<1>3. ASSUME Len(v.todo) = 2, Within(v.todo, P) PROVE v.todo[1] \in P /\ v.todo[2] \in P
  <2>1. v.todo \in Seq(Int)
    BY <1>1 DEF Locals
  <2>2. 1 \in DOMAIN v.todo /\ 2 \in DOMAIN v.todo
    BY <1>3, <2>1
  <2> QED BY <1>3, <2>2 DEF Within
<1> QED BY <1>1, <1>2, <1>3 DEF Between, SearchLocals

LEMMA GoldenCKeeps ==
  ASSUME Going, GoldenC
  PROVE  Kept
<1>1. phase = "golden_c"
  BY DEF GoldenC
<1> DEFINE d == v.todo[2]
           next == [v EXCEPT !.seen = @ \cup {d}]
<1>2. /\ v \in Locals /\ Between(v) /\ Len(v.todo) = 2 /\ Within(v.todo, P) /\ d \in P
      /\ v.lo \in P /\ v.hi \in P /\ v.seen \in SUBSET P /\ v.top = 0
  BY <1>1, GoldenKnows DEF Between, SearchLocals
<1>3. Ask("golden_d", At(d, v), next)
  BY DEF GoldenC
<1>4. P \in SUBSET Int
  BY Grid
<1> HIDE DEF P, d
<1>5. next \in Locals
  <2>1. v.seen \cup {d} \in SUBSET Int
    BY <1>2, <1>4
  <2> QED BY <1>2, <2>1 DEF Locals
<1>6. /\ next.todo = v.todo /\ next.seen = v.seen \cup {d} /\ next.lo = v.lo
      /\ next.hi = v.hi /\ next.top = v.top /\ next.c0 = v.c0
  BY <1>2 DEF Locals
<1> HIDE DEF next
<1>7. phase' = "golden_d" /\ v' = next /\ world' = world /\ want'.p = d
  BY <1>3 DEF Ask, Going, At, Open, Window
<1>8. PICK f \in v.seen : Met(At(f, v))
  BY <1>2 DEF Between, Feasible
<1>9. f \in next.seen /\ At(f, next) = At(f, v)
  BY <1>6, <1>8 DEF At, Target
<1>10. SearchFits'
  BY <1>2, <1>6, <1>7, <1>8, <1>9 DEF SearchFits, InCache, Met, At, Open, Window, Target
<1>11. FillFits' /\ DecodeFits'
  BY <1>7 DEF FillFits, DecodeFits, Walls
<1> QED BY <1>3, <1>5, <1>10, <1>11, AskKeeps

\* A changed bound keeps the clocks seen.
LEMMA BetweenAgain ==
  ASSUME NEW q, Between(q), NEW r \in Locals, r.lo \in P, r.hi \in P, r.seen = q.seen,
         r.c0 = q.c0, r.top = q.top
  PROVE  Between(r)
BY DEF Between, SearchLocals, Feasible, At, Target

LEMMA GoldenDKeeps ==
  ASSUME Going, GoldenD
  PROVE  Kept
<1>1. phase = "golden_d"
  BY DEF GoldenD
<1> DEFINE c == v.todo[1]
           d == v.todo[2]
           right == ~Met(At(c, v)) \/ (Ok /\ world.energy[d] < world.energy[c])
           r == IF right THEN [v EXCEPT !.lo = c, !.n = @ - 1]
                         ELSE [v EXCEPT !.hi = d, !.n = @ - 1]
<1>2. v \in Locals /\ Between(v) /\ c \in P /\ d \in P /\ v.lo \in P /\ v.hi \in P
  BY <1>1, GoldenKnows DEF Between
<1>3. Golden(r)
  BY DEF GoldenD
<1> HIDE DEF c, d, right
<1>4. c \in Nat /\ d \in Nat /\ v.n - 1 \in Int
  <2>1. P \in SUBSET Nat
    BY Grid
  <2>2. v.n \in Int
    BY <1>2 DEF Locals
  <2> HIDE DEF P
  <2> QED BY <1>2, <2>1, <2>2
<1> HIDE DEF P
<1>5. r \in Locals
  BY <1>2, <1>4 DEF Locals
<1>6. r.lo \in P /\ r.hi \in P /\ r.seen = v.seen /\ r.c0 = v.c0 /\ r.top = v.top
  BY <1>2 DEF Locals
<1> HIDE DEF r
<1> QED BY <1>2, <1>3, <1>5, <1>6, BetweenAgain, GoldenKeeps

LEMMA EdgeKeeps ==
  ASSUME Going, NEW r, Between(r), Edge(r)
  PROVE  Kept
<1>1. r.lo \in Nat /\ r.hi \in Nat /\ r.lo \in P /\ r.hi \in P /\ r \in Locals /\ P = 1..NP
      /\ NP \in Nat /\ r.seen \in SUBSET P /\ r.top = 0
  BY Grid DEF Between, SearchLocals
<1>2. CASE r.hi - r.lo <= 2 \/ r.n = 0
  <2>1. Choose(r)
    BY <1>2 DEF Edge
  <2> QED BY <2>1, ChooseKeeps DEF Between
<1>3. CASE ~(r.hi - r.lo <= 2 \/ r.n = 0)
  <2> DEFINE mid == Nearest(r.lo + r.hi, 2)
             next == [r EXCEPT !.seen = @ \cup {mid}]
  <2>1. Ask("edge", At(mid, r), next)
    BY <1>3 DEF Edge
  <2>2. mid \in r.lo..r.hi
    <3> DEFINE x == r.lo + r.hi
    <3>1. x \in Nat /\ 2 \in Nat /\ 2 > 0 /\ r.lo * 2 <= x /\ x <= r.hi * 2
      BY <1>1, <1>3
    <3> HIDE DEF x
    <3>2. Nearest(x, 2) \in r.lo..r.hi
      BY <1>1, <3>1, NearestBetween
    <3> QED BY <3>2 DEF x
  <2> HIDE DEF mid
  <2>3. mid \in P /\ mid \in Int
    BY <1>1, <2>2
  <2> HIDE DEF P
  <2>4. next \in Locals
    <3>1. r.seen \cup {mid} \in SUBSET Int
      BY <1>1, <2>3 DEF Locals
    <3> QED BY <1>1, <3>1 DEF Locals
  <2>5. /\ next.seen = r.seen \cup {mid} /\ next.lo = r.lo
        /\ next.hi = r.hi /\ next.top = r.top /\ next.c0 = r.c0
    BY <1>1 DEF Locals
  <2> HIDE DEF next
  <2>6. phase' = "edge" /\ v' = next /\ world' = world /\ want'.p = mid
    BY <2>1 DEF Ask, Going, At, Open, Window
  <2>7. PICK f \in r.seen : Met(At(f, r))
    BY DEF Between, Feasible
  <2>8. f \in next.seen /\ At(f, next) = At(f, r)
    BY <2>5, <2>7 DEF At, Target
  <2>9. SearchFits'
    BY <1>1, <2>3, <2>5, <2>6, <2>7, <2>8 DEF SearchFits, InCache, Met, At, Open, Window, Target
  <2>10. FillFits' /\ DecodeFits'
    BY <2>6 DEF FillFits, DecodeFits, Walls
  <2> QED BY <2>1, <2>4, <2>9, <2>10, AskKeeps
<1> QED BY <1>2, <1>3

LEMMA EdgeStepKeeps ==
  ASSUME Going, EdgeStep
  PROVE  Kept
<1>1. phase = "edge"
  BY DEF EdgeStep
<1> DEFINE mid == want.p
           good == Ok /\ 100 * world.energy[mid] <= 101 * world.energy[v.hi]
           next == [v EXCEPT !.n = @ - 1]
           low == [next EXCEPT !.lo = mid]
           high == [next EXCEPT !.hi = mid]
<1>2. v \in Locals /\ Between(v) /\ mid \in P /\ v.lo \in P /\ v.hi \in P
  BY <1>1, GoldenKnows DEF Between
<1>3. mid \in Nat /\ v.n - 1 \in Int
  BY <1>2, Grid DEF Locals
<1>4. (good /\ Edge(high)) \/ (~good /\ (Choose(v) \/ Edge(low)))
  BY DEF EdgeStep
<1> HIDE DEF P, mid, good
<1>5. next \in Locals /\ low \in Locals /\ high \in Locals
  <2>1. next \in Locals
    BY <1>2, <1>3 DEF Locals
  <2> HIDE DEF next
  <2>2. low \in Locals
    BY <2>1, <1>3 DEF Locals
  <2>3. high \in Locals
    BY <2>1, <1>3 DEF Locals
  <2> QED BY <2>1, <2>2, <2>3
<1>6. /\ low.lo = mid /\ low.hi = v.hi /\ low.seen = v.seen /\ low.c0 = v.c0 /\ low.top = v.top
      /\ high.hi = mid /\ high.lo = v.lo /\ high.seen = v.seen /\ high.c0 = v.c0
      /\ high.top = v.top
  BY <1>2 DEF Locals
<1> HIDE DEF next, low, high
<1>7. Between(low) /\ Between(high)
  BY <1>2, <1>5, <1>6, BetweenAgain
<1> QED BY <1>2, <1>4, <1>7, EdgeKeeps, ChooseKeeps DEF Between

LEMMA RefineKeeps ==
  ASSUME Going, NEW r, SearchLocals(r), r.seen # {}, Refine(r)
  PROVE  Kept
<1> DEFINE S == Feasible(r)
           best == Max({f \in S : \A g \in S : world.energy[f] <= world.energy[g]})
           below == {f \in r.seen : f < best}
           above == {f \in r.seen : f > best}
           edge == [r EXCEPT !.lo = Max(below), !.hi = best, !.n = RefineSteps + 2]
           golden == [r EXCEPT !.n = RefineSteps,
                               !.lo = Max(below \cup (IF below = {} THEN {best} ELSE {})),
                               !.hi = Min(above \cup (IF above = {} THEN {best} ELSE {}))]
<1>1. /\ P \in SUBSET Int /\ IsFiniteSet(P) /\ P \in SUBSET Nat
      /\ r \in Locals /\ r.seen \in SUBSET P /\ r.top = 0 /\ S \in SUBSET r.seen
      /\ RefineSteps \in Nat
  BY Grid, LocatorAssumption DEF SearchLocals, Feasible, LocatorAssumption
<1>2. \A f \in P : world.energy[f] \in Nat
  BY WorldFacts DEF Going, LocatorInv
<1> HIDE DEF P, S
<1>3. CASE S = {}
  <2>1. Fails
    BY <1>3 DEF Refine, S
  <2> QED BY <2>1, FailsKeeps
<1>4. CASE S # {}
  <2>1. best \in S
    <3> DEFINE T == {f \in S : \A g \in S : world.energy[f] <= world.energy[g]}
               e == [f \in S |-> world.energy[f]]
    <3>1. IsFiniteSet(S) /\ S \in SUBSET Int
      <4>1. S \in SUBSET P
        BY <1>1
      <4> QED BY <1>1, <4>1, FS_Subset
    <3>2. PICK m \in S : \A g \in S : e[m] <= e[g]
      <4>1. \A f \in S : e[f] \in Int
        <5>1. \A f \in S : f \in P
          BY <1>1
        <5>2. \A f \in S : world.energy[f] \in Int
          BY <1>2, <5>1
        <5> QED BY <5>2
      <4> HIDE DEF e
      <4> QED BY <1>4, <3>1, <4>1, LeastMember
    <3>3. m \in T
      BY <3>2
    <3>4. T \in SUBSET S /\ T # {}
      BY <3>3
    <3> HIDE DEF T
    <3>5. IsFiniteSet(T) /\ T \in SUBSET Int
      BY <3>1, <3>4, FS_Subset
    <3>6. Max(T) \in T
      BY <3>4, <3>5, MaxIsLargest
    <3> QED BY <3>4, <3>6 DEF T
  <2> HIDE DEF best
  <2>2. best \in P
    BY <1>1, <2>1
  <2>3. ASSUME NEW T \in SUBSET P, T # {} PROVE Max(T) \in T /\ Min(T) \in T
    <3>1. IsFiniteSet(T) /\ T \in SUBSET Int
      BY <1>1, FS_Subset
    <3> QED BY <2>3, <3>1, MaxIsLargest, MinIsLeast
  <2>4. below \in SUBSET P /\ above \in SUBSET P
    BY <1>1
  <2> HIDE DEF below, above
  <2>5. CASE below # {} /\ Max(below \cup {0}) \notin S
    <3>1. Edge(edge)
      BY <1>4, <2>5 DEF Refine, S, best, below, above
    <3>2. Max(below) \in P
      BY <2>3, <2>4, <2>5
    <3>3. Max(below) \in Nat /\ best \in Nat
      BY <1>1, <2>2, <3>2
    <3>4. RefineSteps + 2 \in Int
      BY <1>1
    <3>5. edge \in Locals
      BY <1>1, <3>3, <3>4 DEF Locals
    <3>6. edge.lo = Max(below) /\ edge.hi = best /\ edge.seen = r.seen /\ edge.top = r.top
          /\ edge.c0 = r.c0
      BY <1>1 DEF Locals
    <3> HIDE DEF edge
    <3>7. Between(edge)
      BY <1>1, <1>4, <2>2, <3>2, <3>5, <3>6 DEF Between, SearchLocals, S, Feasible, At, Target
    <3> QED BY <3>1, <3>7, EdgeKeeps
  <2>6. CASE ~(below # {} /\ Max(below \cup {0}) \notin S)
    <3> DEFINE lo == Max(below \cup (IF below = {} THEN {best} ELSE {}))
               hi == Min(above \cup (IF above = {} THEN {best} ELSE {}))
    <3>1. Golden(golden)
      BY <1>4, <2>6 DEF Refine, S, best, below, above
    <3>2. lo \in P /\ hi \in P
      <4>1. below \cup (IF below = {} THEN {best} ELSE {}) \in SUBSET P
            /\ below \cup (IF below = {} THEN {best} ELSE {}) # {}
        BY <2>2, <2>4
      <4>2. above \cup (IF above = {} THEN {best} ELSE {}) \in SUBSET P
            /\ above \cup (IF above = {} THEN {best} ELSE {}) # {}
        BY <2>2, <2>4
      <4> QED BY <2>3, <4>1, <4>2
    <3> HIDE DEF lo, hi
    <3>3. lo \in Nat /\ hi \in Nat /\ RefineSteps \in Int
      BY <1>1, <3>2
    <3>4. golden = [r EXCEPT !.n = RefineSteps, !.lo = lo, !.hi = hi]
      BY DEF lo, hi
    <3>5. golden \in Locals
      BY <1>1, <3>3, <3>4 DEF Locals
    <3>6. golden.lo = lo /\ golden.hi = hi /\ golden.seen = r.seen /\ golden.top = r.top
          /\ golden.c0 = r.c0
      BY <1>1, <3>4 DEF Locals
    <3> HIDE DEF golden
    <3>7. Between(golden)
      BY <1>1, <1>4, <3>2, <3>5, <3>6 DEF Between, SearchLocals, S, Feasible, At, Target
    <3> QED BY <3>1, <3>7, GoldenKeeps
  <2> QED BY <2>5, <2>6
<1> QED BY <1>3, <1>4

LEMMA CoarseKeeps ==
  ASSUME Going, Coarse
  PROVE  Kept
<1> DEFINE r == [v EXCEPT !.seen = @ \cup {want.p}, !.todo = Tail(@)]
<1>1. /\ phase = "coarse" /\ v \in Locals /\ v.seen \subseteq P /\ want.p \in P
      /\ Within(v.todo, P) /\ v.top = 0 /\ v.todo \in Seq(Int)
  BY DEF Coarse, Going, LocatorInv, PhaseFits, SearchFits, Locals
<1>2. Tail(v.todo) \in Seq(Int) /\ (Tail(v.todo) # <<>> => Within(Tail(v.todo), P))
  BY <1>1, TailWithin
<1>3. P \in SUBSET Int
  BY Grid
<1>4. (Ok /\ r.todo # <<>> /\ Ask("coarse", At(Head(r.todo), r), r)) \/ Refine(r)
  BY DEF Coarse
<1> HIDE DEF P
<1>5. r \in Locals
  <2>1. v.seen \cup {want.p} \in SUBSET Int
    BY <1>1, <1>3
  <2> QED BY <1>1, <1>2, <2>1 DEF Locals
<1>6. r.seen = v.seen \cup {want.p} /\ r.todo = Tail(v.todo) /\ r.top = v.top
  BY <1>1 DEF Locals
<1> HIDE DEF r
<1>7. SearchLocals(r) /\ r.seen # {}
  BY <1>1, <1>5, <1>6 DEF SearchLocals
<1>8. CASE r.todo # <<>> /\ Ask("coarse", At(Head(r.todo), r), r)
  <2>1. Within(r.todo, P) /\ Head(r.todo) \in P
    BY <1>2, <1>6, <1>8, TailWithin
  <2>2. phase' = "coarse" /\ v' = r /\ world' = world /\ want'.p = Head(r.todo)
    BY <1>8 DEF Ask, Going, At, Open, Window
  <2>3. SearchFits'
    BY <1>7, <2>1, <2>2 DEF SearchFits, SearchLocals, Within
  <2>4. FillFits' /\ DecodeFits'
    BY <2>2 DEF FillFits, DecodeFits, Walls
  <2> QED BY <1>5, <1>8, <2>3, <2>4, AskKeeps
<1> QED BY <1>4, <1>7, <1>8, RefineKeeps

LEMMA ToCoarseKeeps ==
  ASSUME Going, NEW c0 \in Nat, ToCoarse(c0)
  PROVE  Kept
<1> DEFINE S == Spread(1, world.feff, CoarsePoints)
           clocks == Descending(S)
           r == [Blank EXCEPT !.c0 = c0, !.todo = clocks]
<1>1. /\ P \in SUBSET Int /\ IsFiniteSet(P) /\ P = 1..NP /\ world.feff \in P /\ NP \in Nat
      /\ CoarsePoints \in Nat
  BY Grid, WorldFacts, LocatorAssumption DEF Going, LocatorInv, LocatorAssumption
<1>2. S # {} /\ S \in SUBSET P
  <2>1. 1 \in Nat /\ world.feff \in Nat /\ 1 <= world.feff
    BY <1>1
  <2>2. S # {} /\ S \subseteq 1..world.feff
    BY <1>1, <2>1, SpreadFacts
  <2> QED BY <1>1, <2>2
<1> HIDE DEF S, P
<1>3. IsFiniteSet(S) /\ S \in SUBSET Int
  <2>1. IsFiniteSet(S)
    BY <1>1, <1>2, FS_Subset
  <2> QED BY <1>1, <1>2, <2>1
<1>4. clocks \in Seq(Int) /\ Within(clocks, P)
  BY <1>2, <1>3, Sorted DEF Within
<1>5. Head(clocks) \in P
  BY <1>4, TailWithin
<1>6. Ask("coarse", At(Head(r.todo), r), r)
  BY DEF ToCoarse, S
<1> HIDE DEF clocks
<1>7. r \in Locals /\ r.todo = clocks /\ r.seen = {} /\ r.top = 0
  <2>1. {} \in SUBSET Int /\ 0 \in Nat /\ 0 \in Int
    OBVIOUS
  <2> QED BY <1>4, <2>1 DEF Locals, Blank
<1> HIDE DEF r
<1>8. phase' = "coarse" /\ v' = r /\ world' = world /\ want'.p = Head(clocks)
  BY <1>6, <1>7 DEF Ask, Going, At, Open, Window
<1>9. SearchFits'
  BY <1>4, <1>5, <1>7, <1>8 DEF SearchFits, Within
<1>10. FillFits' /\ DecodeFits'
  BY <1>8 DEF FillFits, DecodeFits, Walls
<1> QED BY <1>6, <1>7, <1>9, <1>10, AskKeeps

(***************************************************************************)
(* The ramp.                                                                *)
(***************************************************************************)

LEMMA RampAsks ==
  ASSUME Going, NEW ph \in {"ramp", "ramp_bisect"}, NEW load \in Nat, NEW r \in Locals,
         Ask(ph, Open(NP, ND, load), r)
  PROVE  Kept
<1>1. phase' = ph /\ v' = r /\ want'.load = load
  BY DEF Ask, Open, Window
<1>2. SearchFits' /\ FillFits' /\ DecodeFits'
  BY <1>1 DEF SearchFits, FillFits, DecodeFits, Walls
<1> QED BY <1>2, AskKeeps

LEMMA RampBisectedKeeps ==
  ASSUME Going, NEW r \in Locals, RampBisected(r)
  PROVE  Kept
<1>1. r.lo \in Nat /\ r.hi \in Nat
  BY DEF Locals
<1>2. (r.lo + r.hi) \div 2 \in Nat
  BY <1>1
<1> QED BY <1>1, <1>2, RampAsks, ToCoarseKeeps DEF RampBisected

LEMMA EndRampKeeps ==
  ASSUME Going, NEW r \in Locals, EndRamp(r)
  PROVE  Kept
<1> DEFINE next == [r EXCEPT !.n = 2]
<1>1. r.lo \in Nat
  BY DEF Locals
<1>2. 2 \in Int
  OBVIOUS
<1>3. next \in Locals
  BY <1>2, Zenon DEF Locals
<1>4. Fails \/ ToCoarse(r.lo) \/ RampBisected(next)
  BY DEF EndRamp
<1> HIDE DEF next
<1> QED BY <1>1, <1>3, <1>4, FailsKeeps, ToCoarseKeeps, RampBisectedKeeps

LEMMA AskRampKeeps ==
  ASSUME Going, NEW r \in Locals, NEW load \in Nat, AskRamp(load, r)
  PROVE  Kept
BY RampAsks, EndRampKeeps DEF AskRamp

LEMMA RampKeeps ==
  ASSUME Going, Ramp \/ RampBisect \/ Alpha
  PROVE  Kept
<1>1. v \in Locals
  BY DEF Going, LocatorInv
<1>2. RampStart \in Nat /\ RampMaxSteps \in Nat
  BY LocatorAssumption DEF LocatorAssumption
<1>3. CASE Alpha
  <2>1. [v EXCEPT !.n = RampMaxSteps] \in Locals
    <3>1. RampMaxSteps \in Int
      BY <1>2
    <3> QED BY <1>1, <3>1 DEF Locals
  <2> QED BY <1>2, <1>3, <2>1, AskRampKeeps DEF Alpha
<1>4. CASE Ramp \/ RampBisect
  <2> DEFINE load == want.load
             next == [v EXCEPT !.n = @ - 1]
             low == [next EXCEPT !.lo = load]
             high == [next EXCEPT !.hi = load]
  <2>1. load \in Nat
    BY <1>4 DEF Ramp, RampBisect, Going, LocatorInv, PhaseFits, SearchFits
  <2>2. 2 * load \in Nat /\ load \div 2 \in Nat
    BY <2>1
  <2> HIDE DEF load
  <2>3. next \in Locals
    <3>1. v.n - 1 \in Int
      BY <1>1 DEF Locals
    <3> QED BY <1>1, <3>1 DEF Locals
  <2>4. low = [v EXCEPT !.lo = load, !.n = @ - 1] /\ high = [v EXCEPT !.hi = load, !.n = @ - 1]
    BY <1>1 DEF Locals
  <2>5. low \in Locals /\ high \in Locals
    <3> HIDE DEF next
    <3>1. low \in Locals
      BY <2>1, <2>3 DEF Locals
    <3>2. high \in Locals
      BY <2>1, <2>3 DEF Locals
    <3> QED BY <3>1, <3>2
  <2>6. \/ AskRamp(2 * load, low) \/ EndRamp(high) \/ AskRamp(load \div 2, high)
        \/ RampBisected(low) \/ RampBisected(high)
    <3>1. CASE Ramp
      BY <3>1 DEF Ramp, load
    <3>2. CASE RampBisect
      <4>1. RampBisected(IF Ok THEN low ELSE high)
        BY <2>4, <3>2 DEF RampBisect, load
      <4> HIDE DEF low, high
      <4> QED BY <4>1
    <3> QED BY <1>4, <3>1, <3>2
  <2> HIDE DEF low, high
  <2> QED BY <2>2, <2>5, <2>6, AskRampKeeps, EndRampKeeps, RampBisectedKeeps
<1> QED BY <1>3, <1>4

-----------------------------------------------------------------------------
(***************************************************************************)
(* A recheck, a verification, and the steps between experiments.            *)
(***************************************************************************)

\* H's neighbours are compared at the target load among those that met it.
LEMMA RecheckKeeps ==
  ASSUME LocatorInv, Measured, UNCHANGED world, Recheck
  PROVE  Kept
<1> DEFINE r == [v EXCEPT !.seen = @ \cup {want.p}, !.todo = Tail(@)]
           AtLoad(f) == Open(f, table.h[2], table.target)
           S == {f \in r.seen : Met(AtLoad(f))}
           best == Min({f \in S : \A g \in S : world.energy[f] <= world.energy[g]})
           moved == [table EXCEPT !.h = <<best, table.h[2]>>, !.moved = TRUE]
<1>1. /\ phase = "recheck" /\ kind = "recheck" /\ v \in Locals /\ table \in TableShapes
      /\ v.seen \subseteq P /\ Within(v.todo, P) /\ v.todo \in Seq(Int)
      /\ want.p \in P /\ TargetMet
  BY DEF Recheck, LocatorInv, PhaseFits, KindFits, CheckFits, TableFits, Locals
<1>2. P \in SUBSET Int /\ IsFiniteSet(P)
  BY Grid
<1> HIDE DEF P
<1>3. /\ Tail(v.todo) \in Seq(Int) /\ Head(v.todo) \in P
      /\ Tail(v.todo) # <<>> => Within(Tail(v.todo), P)
  BY <1>1, TailWithin
<1>4. want.p \in P
  BY <1>1
<1>5. r \in Locals
  <2>1. v.seen \cup {want.p} \in SUBSET Int
    BY <1>1, <1>2, <1>4
  <2> QED BY <1>1, <1>3, <2>1 DEF Locals
<1>6. r.seen = v.seen \cup {want.p} /\ r.todo = Tail(v.todo)
  BY <1>1 DEF Locals
<1>7. CacheTrue' /\ \A w : Met(w) => Bears(w)
  BY MeasuredFacts DEF LocatorInv
<1>8. \/ r.todo # <<>> /\ Ask("recheck", AtLoad(Head(r.todo)), r)
      \/ table.h[1] \in S /\ Publishes(moved)
      \/ Publishes(table)
  BY DEF Recheck
<1> HIDE DEF r
<1>9. CASE r.todo # <<>> /\ Ask("recheck", AtLoad(Head(r.todo)), r)
  <2>1. /\ phase' = "recheck" /\ v' = r /\ world' = world /\ table' = table /\ kind' = kind
        /\ want'.p = Head(r.todo)
    BY <1>9 DEF Ask, results, Open, Window
  <2>2. r.seen \subseteq P /\ Within(r.todo, P) /\ Head(r.todo) \in P
    BY <1>1, <1>3, <1>4, <1>5, <1>6, <1>9, TailWithin DEF Locals
  <2>3. CheckFits'
    BY <2>1, <2>2 DEF CheckFits
  <2>4. SearchFits' /\ FillFits' /\ DecodeFits'
    BY <2>1 DEF SearchFits, FillFits, DecodeFits, Walls
  <2>5. KindFits' /\ kind' = "recheck"
    BY <1>1, <2>1 DEF KindFits, LocatorInv, PhaseFits
  <2>6. TableFits'
    BY <2>1 DEF LocatorInv, TableFits, TargetMet, Carries
  <2> QED BY <1>5, <1>7, <2>1, <2>3, <2>4, <2>5, <2>6
       DEF LocatorInv, PhaseFits, Kept, Publishing
<1>10. CASE table.h[1] \in S /\ Publishes(moved)
  <2>1. best \in S
    <3> DEFINE T == {f \in S : \A g \in S : world.energy[f] <= world.energy[g]}
               e == [f \in S |-> world.energy[f]]
    <3>1. S \in SUBSET P
      BY <1>1, <1>4, <1>6
    <3> HIDE DEF S
    <3>2. IsFiniteSet(S) /\ S \in SUBSET Int /\ S # {}
      BY <1>2, <1>10, <3>1, FS_Subset
    <3>3. PICK m \in S : \A g \in S : e[m] <= e[g]
      <4>1. \A f \in S : e[f] \in Int
        <5>1. \A f \in S : world.energy[f] \in Nat
          BY <3>1, WorldFacts DEF LocatorInv
        <5> QED BY <5>1
      <4> HIDE DEF e
      <4> QED BY <3>2, <4>1, LeastMember
    <3>4. m \in T
      BY <3>3
    <3>5. T \in SUBSET S /\ T # {}
      BY <3>4
    <3> HIDE DEF T
    <3>6. IsFiniteSet(T) /\ T \in SUBSET Int
      BY <3>2, <3>5, FS_Subset
    <3>7. Min(T) \in T
      BY <3>5, <3>6, MinIsLeast
    <3> QED BY <3>5, <3>7 DEF T
  <2> HIDE DEF best
  <2>2. best \in P /\ Bears(Open(best, table.h[2], table.target))
    BY <1>1, <1>4, <1>6, <1>7, <2>1
  <2>3. table.h \in P \X D /\ table.target \in Nat /\ table.capacity \in Nat
    BY <1>1 DEF TableShapes
  <2>4. world.cap[best] \in Nat
    BY <2>2, WorldFacts DEF LocatorInv
  <2>5. table.target <= world.cap[best] /\ table.h[2] >= world.dmin
    BY <2>2, <2>3, <2>4 DEF Bears, Open, Window
  <2>6. moved \in TableShapes
    BY <1>1, <2>2, <2>3 DEF TableShapes
  <2>7. /\ moved.h = <<best, table.h[2]>> /\ moved.moved = TRUE /\ moved.b = table.b
        /\ moved.target = table.target /\ moved.capacity = table.capacity
    BY <1>1 DEF TableShapes
  <2> HIDE DEF moved
  <2>8. phase' = "idle" /\ kind' = "none" /\ v' = Blank /\ table' = moved
    BY <1>10 DEF Publishes, Stop
  <2>9. table # NoTable
    BY <1>1 DEF LocatorInv, PhaseFits, KindFits
  <2>10. TargetMet'
    BY <1>1, <2>5, <2>7, <2>8, <2>9 DEF TargetMet, Carries
  <2> QED BY <1>1, <1>7, <2>6, <2>8, <2>10, IdleFits
       DEF LocatorInv, TableFits, Kept, Publishing
<1>11. CASE Publishes(table)
  <2>1. phase' = "idle" /\ kind' = "none" /\ v' = Blank /\ table' = table
    BY <1>11 DEF Publishes, Stop
  <2>2. TableFits'
    BY <2>1 DEF LocatorInv, TableFits, TargetMet, Carries
  <2> QED BY <1>1, <1>7, <2>1, <2>2, IdleFits DEF LocatorInv, Kept, Publishing
<1> QED BY <1>8, <1>9, <1>10, <1>11

LEMMA VerifyKeeps ==
  ASSUME LocatorInv, Measured, UNCHANGED world, Verify
  PROVE  Kept
<1> DEFINE point == <<want.p, want.d, want.load>>
           capped == [table EXCEPT !.caps = @ \cup {point}]
<1>1. /\ phase = "verify" /\ kind = "verify" /\ table \in TableShapes /\ table # NoTable
      /\ point \in P \X D \X Nat /\ TargetMet
  BY DEF Verify, LocatorInv, PhaseFits, KindFits, CheckFits, TableFits
<1>2. /\ phase' = "idle" /\ kind' = "none" /\ v' = Blank
      /\ table' = table \/ table' = capped
  BY DEF Verify, Stop
<1>3. capped \in TableShapes
  <2>1. table.caps \cup {point} \in SUBSET (P \X D \X Nat)
    BY <1>1 DEF TableShapes
  <2> HIDE DEF point
  <2> QED BY <1>1, <2>1 DEF TableShapes
<1>4. /\ capped.h = table.h /\ capped.capacity = table.capacity /\ capped.b = table.b
      /\ capped.target = table.target /\ capped.moved = table.moved
  BY <1>1 DEF TableShapes
<1> HIDE DEF capped
<1>5. TableFits'
  <2>1. CASE table' = table
    BY <2>1 DEF LocatorInv, TableFits, TargetMet, Carries
  <2>2. CASE table' = capped
    BY <1>1, <1>3, <1>4, <2>2 DEF TableFits, TargetMet, Carries
  <2> QED BY <1>2, <2>1, <2>2
<1>6. CacheTrue'
  BY MeasuredFacts DEF LocatorInv
<1> QED BY <1>1, <1>2, <1>5, <1>6, IdleFits DEF LocatorInv, Kept, Publishing

\* An experiment begins with nothing seen.
LEMMA BeginKeeps ==
  ASSUME LocatorInv, Begin
  PROVE  Kept
<1>1. kind = "none" /\ phase = "idle" /\ table' = table /\ world' = world /\ CacheTrue'
  BY DEF Begin, BeginFull, BeginRelocate, BeginRecheck, BeginVerify, Begins, results,
         LocatorInv, PhaseFits, KindFits, CacheTrue, Bears
<1>2. TableFits'
  BY <1>1 DEF LocatorInv, TableFits, TargetMet, Carries
<1>3. Blank \in Locals /\ Blank.seen = {}
  <2>1. <<>> \in Seq(Int)
    OBVIOUS
  <2> QED BY <2>1 DEF Blank, Locals
<1>4. CASE BeginFull \/ (table # NoTable /\ Begins("relocate", "alpha", Service(NP), Blank))
  <2>1. phase' = "alpha" /\ v' = Blank /\ kind' \in {"full", "relocate"}
        /\ (kind' = "relocate" => table' # NoTable)
    BY <1>1, <1>4 DEF BeginFull, Begins
  <2>2. PhaseFits'
    BY <2>1 DEF PhaseFits, KindFits, SearchFits, DecodeFits, FillFits, CheckFits, Walls
  <2> QED BY <1>1, <1>2, <1>3, <2>1, <2>2 DEF LocatorInv, Kept, Publishing
<1>5. CASE BeginRecheck
  <2> DEFINE near == {table.h[1] - 1, table.h[1], table.h[1] + 1} \cap P
             r == [Blank EXCEPT !.todo = Ascending(near)]
  <2>1. /\ phase' = "recheck" /\ kind' = "recheck" /\ v' = r /\ table # NoTable
        /\ want' = Open(Min(near), table.h[2], table.target)
    BY <1>5 DEF BeginRecheck, Begins
  <2>2. table \in TableShapes
    BY <2>1 DEF LocatorInv, TableFits
  <2>3. near \in SUBSET P /\ near # {} /\ P \in SUBSET Int /\ IsFiniteSet(P)
    <3>1. table.h[1] \in P
      BY <2>2 DEF TableShapes
    <3> QED BY <3>1, Grid
  <2> HIDE DEF near, P
  <2>4. IsFiniteSet(near) /\ near \in SUBSET Int
    <3>1. IsFiniteSet(near)
      BY <2>3, FS_Subset
    <3> QED BY <2>3, <3>1
  <2>5. Ascending(near) \in Seq(Int) /\ Within(Ascending(near), P)
    BY <2>3, <2>4, Sorted DEF Within
  <2>6. Min(near) \in P
    BY <2>3, <2>4, MinIsLeast
  <2>7. r \in Locals /\ r.seen = {} /\ r.todo = Ascending(near)
    BY <1>3, <2>5 DEF Locals, Blank
  <2> HIDE DEF r
  <2>8. want'.p = Min(near)
    BY <2>1 DEF Open, Window
  <2>9. CheckFits'
    BY <2>1, <2>5, <2>6, <2>7, <2>8 DEF CheckFits
  <2>10. KindFits' /\ SearchFits' /\ DecodeFits' /\ FillFits'
    BY <1>1, <2>1 DEF KindFits, SearchFits, DecodeFits, FillFits, Walls
  <2> QED BY <1>1, <1>2, <2>1, <2>7, <2>9, <2>10 DEF LocatorInv, PhaseFits, Kept, Publishing
<1>6. CASE BeginVerify
  <2>1. PICK plan \in Plans : Begins("verify", "verify", Open(plan[1], plan[2], plan[3]), Blank)
    BY <1>6 DEF BeginVerify
  <2>2. plan[1] \in P /\ plan[2] \in D /\ plan[3] \in Nat
    BY LocatorAssumption DEF LocatorAssumption
  <2>3. /\ phase' = "verify" /\ kind' = "verify" /\ v' = Blank /\ table' # NoTable
        /\ want'.p = plan[1] /\ want'.d = plan[2] /\ want'.load = plan[3]
    BY <1>1, <1>6, <2>1 DEF BeginVerify, Begins, Open, Window
  <2>4. PhaseFits'
    BY <2>2, <2>3 DEF PhaseFits, KindFits, SearchFits, DecodeFits, FillFits, CheckFits, Walls
  <2> QED BY <1>1, <1>2, <1>3, <2>3, <2>4 DEF LocatorInv, Kept, Publishing
<1> QED BY <1>4, <1>5, <1>6 DEF Begin, BeginRelocate

\* An experiment is cancelled, the cache grows old or the controller starts again.
LEMMA CutKeeps ==
  ASSUME LocatorInv, Abort \/ Expire \/ Restart \/ UNCHANGED vars
  PROVE  Kept
<1>1. world' = world /\ table' = table /\ (cache' = cache \/ cache' = {})
  BY DEF Abort, Stop, Expire, Restart, vars, results
<1>2. CacheTrue' /\ TableFits'
  BY <1>1 DEF LocatorInv, CacheTrue, Bears, TableFits, TargetMet, Carries
<1>3. CASE Abort \/ Restart
  <2>1. phase' = "idle" /\ kind' = "none" /\ v' = Blank /\ outcome' # "published"
    BY <1>3 DEF Abort, Stop, Restart
  <2> QED BY <1>1, <1>2, <2>1, IdleFits DEF LocatorInv, Kept, Publishing
<1>4. CASE Expire
  <2>1. phase = "idle" /\ UNCHANGED <<phase, kind, v, want>> /\ kind = "none"
    BY <1>4 DEF Expire, LocatorInv, PhaseFits, KindFits
  <2>2. PhaseFits'
    BY <1>1, <2>1 DEF LocatorInv, PhaseFits, KindFits, SearchFits, DecodeFits, FillFits,
                      CheckFits, Walls
  <2> QED BY <1>1, <1>2, <2>1, <2>2 DEF LocatorInv, Kept, Publishing
<1>5. CASE UNCHANGED vars
  <2>1. UNCHANGED <<world, kind, phase, want, v, cache, table, outcome>>
    BY <1>5 DEF vars, results
  <2>2. KindFits' /\ CheckFits'
    BY <2>1 DEF LocatorInv, PhaseFits, KindFits, CheckFits, Open, Window
  <2>3. SearchFits'
    BY <2>1 DEF LocatorInv, PhaseFits, SearchFits, InCache, At, Open, Window, Target
  <2>4. DecodeFits'
    BY <2>1 DEF LocatorInv, PhaseFits, DecodeFits, Walls, Closed, Window
  <2>5. FillFits'
    BY <2>1 DEF LocatorInv, PhaseFits, FillFits, InCache, Open, Window, Target
  <2> QED BY <1>1, <1>2, <2>1, <2>2, <2>3, <2>4, <2>5
       DEF LocatorInv, PhaseFits, Kept, Publishing
<1> QED BY <1>3, <1>4, <1>5

\* Every step keeps what the locator relies on.
LEMMA StepKeeps ==
  ASSUME FillsAtTarget, LocatorInv, [Next]_vars
  PROVE  Kept
<1>1. CASE MeasuresOn
  <2>1. Measured /\ UNCHANGED world
    BY <1>1 DEF MeasuresOn
  <2>2. CASE Recheck \/ Verify
    BY <2>1, <2>2, RecheckKeeps, VerifyKeeps
  <2>3. CASE ~(Recheck \/ Verify)
    <3>1. \/ Alpha \/ Ramp \/ RampBisect \/ Coarse \/ EdgeStep \/ GoldenC \/ GoldenD
          \/ Tables \/ FitTop \/ Wall \/ WallBisect \/ Clock \/ FitLow \/ Hint
          \/ Joint \/ Fill \/ FillBisect
      BY <1>1, <2>3 DEF MeasuresOn
    <3>2. phase \notin {"idle", "recheck", "verify"}
      BY <3>1 DEF Alpha, Ramp, RampBisect, Coarse, EdgeStep, GoldenC, GoldenD, Tables,
                  FitTop, Wall, WallBisect, Clock, FitLow, Hint, Joint, Fill, FillBisect
    <3>3. Going
      BY <2>1, <3>2 DEF Going
    <3> QED
      BY <3>1, <3>3, RampKeeps, CoarseKeeps, EdgeStepKeeps, GoldenCKeeps, GoldenDKeeps,
         TablesKeeps, FitTopKeeps, WallKeeps, WallBisectKeeps, ClockKeeps, FitLowKeeps,
         HintKeeps, JointKeeps, FillKeeps, FillBisectKeeps
  <2> QED BY <2>2, <2>3
<1>2. CASE Begin
  BY <1>2, BeginKeeps
<1>3. CASE Abort \/ Expire \/ Restart \/ UNCHANGED vars
  BY <1>3, CutKeeps
<1> QED BY <1>1, <1>2, <1>3 DEF Next

LEMMA InitLocator == Init => LocatorInv
<1> SUFFICES ASSUME Init PROVE LocatorInv
  OBVIOUS
<1>1. v \in Locals
  <2>1. <<>> \in Seq(Int)
    OBVIOUS
  <2> QED BY <2>1 DEF Init, Blank, Locals
<1>2. PhaseFits
  BY DEF Init, PhaseFits, KindFits, SearchFits, DecodeFits, FillFits, CheckFits, Walls
<1> QED BY <1>1, <1>2 DEF Init, LocatorInv, CacheTrue, TableFits, TargetMet

LEMMA LocatorInvariant ==
  ASSUME FillsAtTarget
  PROVE  LocatingSpec => []LocatorInv
<1>1. LocatingInit => LocatorInv
  BY InitLocator DEF LocatingInit
<1>2. LocatorInv /\ [Next]_vars => LocatorInv'
  BY StepKeeps DEF Kept
<1> QED BY <1>1, <1>2, OneOfTwo, PTL DEF LocatingSpec

\* With the default fill loads a published H carries the target load in any world, also
\* after a recheck moved it, its capacity is not below that load and carried by the H it
\* was measured at, and D runs the published number of sequences cleanly.
THEOREM PublishedHCarries ==
  ASSUME FillsAtTarget
  PROVE  LocatingSpec => []TargetMet
<1>1. LocatorInv => TargetMet
  BY DEF LocatorInv, TableFits
<1> QED BY <1>1, LocatorInvariant, PTL

\* The capacity a location publishes is the highest load that met the target of those it
\* measured at H.
THEOREM BestIsPublished ==
  ASSUME FillsAtTarget
  PROVE  LocatingSpec => CapacityIsBest
<1> DEFINE A == (kind \in {"full", "relocate"} /\ kind' = "none" /\ outcome' = "published") =>
       LET tested == v.seen \cup {want.load}
           good   == {load \in tested : Met(Open(table'.h[1], table'.h[2], load))}
       IN /\ table'.capacity \in good
          /\ \A load \in good : load <= table'.capacity
<1>1. LocatorInv /\ [Next]_vars => [A]_vars
  BY StepKeeps DEF Kept, Publishing, BestLoad
<1>2. CapacityIsBest <=> [][A]_vars
  BY DEF CapacityIsBest
<1> HIDE DEF A
<1> QED BY <1>1, <1>2, LocatorInvariant, OneOfTwo, PTL DEF LocatingSpec
=============================================================================
