----------------------- MODULE RequestLifecycle_proofs -----------------------
(***************************************************************************)
(* Proofs about RequestLifecycle for every set of requests, groups, token  *)
(* counts and costs, with fixed or dynamic pairing and any epoch bound.    *)
(***************************************************************************)
EXTENDS RequestLifecycle, FiniteLemmas

\* The handler's place and the ticket's stage agree, and a ticket has its groups
\* and its first-token stamp exactly when its stage says so.  Every release
\* subtracts from the counters that the stage names, so exactness rests on this.
Coherent ==
  \A r \in Requests :
    /\ at[r] = "new" => stage[r] = "none"
    /\ at[r] = "prefill" => stage[r] = "prefill"
    /\ at[r] \in {"decode_call", "reading"} => stage[r] = "transfer"
    /\ at[r] = "streaming" => stage[r] \in {"transfer", "decode"}
    /\ at[r] = "cleanup" => stage[r] \in {"prefill", "transfer", "done"}
    /\ at[r] = "closed" => stage[r] = "done"
    /\ stage[r] = "none" => pg[r] = NoGroup /\ dg[r] = NoGroup
    /\ stage[r] # "none" => pg[r] \in Groups /\ dg[r] \in Groups
    /\ stage[r] = "decode" => r \in gotFirst
    /\ stage[r] \in {"none", "prefill", "transfer"} => r \notin gotFirst

\* The empty ledger before the first request is well typed.
LEMMA InitTypeOK == Init => TypeOK
  BY ConstantsAssumption DEF Init, TypeOK, Places, Stages

\* finish keeps the types of the ticket, the counters and the samples, whichever
\* stage it releases from; everything else about the ticket it leaves alone.
LEMMA FinishType ==
  ASSUME TypeOK, NEW r \in Requests, NEW status, Finish(r, status)
  PROVE  /\ pg' = pg /\ dg' = dg /\ own' = own
         /\ pEpoch' = pEpoch /\ dEpoch' = dEpoch /\ gotFirst' = gotFirst
         /\ stage' \in [Requests -> Stages]
         /\ samples' \subseteq Requests
         /\ nAtP' \in [Groups -> Int] /\ pendingMs' \in [Groups -> Int]
         /\ nAwait' \in [Groups -> Int] /\ tAwait' \in [Groups -> Int]
         /\ kvInflight' \in [Groups -> Int] /\ nDecoding' \in [Groups -> Int]
         /\ nInflight' \in [Groups -> Int]
  <1>1. CASE Finished(r) /\ UNCHANGED <<tickets, counters, samples>>
    BY <1>1 DEF TypeOK, tickets, counters
  <1>2. CASE Release(r, status)
    <2>1. Tokens[r] \in Int /\ own[r] \in Int
      BY ConstantsAssumption DEF TypeOK
    <2>2. \A x \in Int : Floor0(x) \in Int
      BY DEF Floor0
    <2>3. /\ nAtP' \in [Groups -> Int] /\ nAwait' \in [Groups -> Int]
          /\ nDecoding' \in [Groups -> Int] /\ nInflight' \in [Groups -> Int]
      BY <1>2 DEF TypeOK, Release, LeavePrefill, StopAwaiting, DecodingAfterLeaving
    <2>4. /\ pendingMs' \in [Groups -> Int] /\ tAwait' \in [Groups -> Int]
          /\ kvInflight' \in [Groups -> Int]
      BY <1>2, <2>1, <2>2 DEF TypeOK, Release, LeavePrefill, StopAwaiting, KvAfterLeaving
    <2>5. QED
      BY <1>2, <2>3, <2>4 DEF TypeOK, Release, Stages
  <1>3. QED
    BY <1>1, <1>2 DEF Finish

\* A handler step that calls finish and moves on keeps TypeOK.
LEMMA FinishStepType ==
  ASSUME TypeOK, NEW r \in Requests, NEW status, Finish(r, status),
         NEW place \in Places, Go(r, place), UNCHANGED <<clocks, crossed>>
  PROVE  TypeOK'
  BY FinishType DEF TypeOK, Go, clocks

\* Every step of the handler or of the stream of a request keeps TypeOK.
LEMMA RequestStepType ==
  ASSUME TypeOK, NEW r \in Requests, RequestStep(r)
  PROVE  TypeOK'
  <1>0. /\ Tokens[r] \in Int /\ own[r] \in Int
        /\ \A x \in Int : Floor0(x) \in Int
    BY ConstantsAssumption DEF TypeOK, Floor0
  <1>1. CASE Admit(r)
    <2>1. PICK p \in Groups, d \in Groups, c \in Costs : Reserve(r, p, d, c)
      BY <1>1 DEF Admit, Routes
    <2>2. c \in Nat
      BY ConstantsAssumption
    <2>3. /\ pg' \in [Requests -> Groups \cup {NoGroup}]
          /\ dg' \in [Requests -> Groups \cup {NoGroup}]
          /\ stage' \in [Requests -> Stages]
          /\ own' \in [Requests -> Nat]
          /\ pEpoch' \in [Requests -> Nat] /\ dEpoch' \in [Requests -> Nat]
          /\ gotFirst' \subseteq Requests
      BY <2>1, <2>2 DEF Reserve, TypeOK, Stages
    <2>4. /\ nAtP' \in [Groups -> Int] /\ pendingMs' \in [Groups -> Int]
          /\ nAwait' \in [Groups -> Int] /\ tAwait' \in [Groups -> Int]
          /\ kvInflight' \in [Groups -> Int] /\ nDecoding' \in [Groups -> Int]
          /\ nInflight' \in [Groups -> Int]
      BY <1>0, <2>1, <2>2 DEF Reserve, TypeOK
    <2>5. /\ at' \in [Requests -> Places] /\ samples' \subseteq Requests
          /\ crossed' \subseteq Requests
      BY <1>1 DEF Admit, TypeOK, Go, Places
    <2>6. QED
      BY <1>1, <2>3, <2>4, <2>5 DEF Admit, TypeOK, clocks
  <1>2. CASE AdmitBadRequest(r)
    BY <1>2 DEF AdmitBadRequest, Routes, TypeOK, Go, Places, Stages, counters, clocks
  <1>3. CASE PrefillReturns(r)
    <2>1. PrefillDone(r)
      BY <1>3 DEF PrefillReturns
    <2>2. nAtP' \in [Groups -> Int] /\ pendingMs' \in [Groups -> Int]
      BY <1>0, <2>1 DEF PrefillDone, LeavePrefill, TypeOK
    <2>3. kvInflight' \in [Groups -> Int]
      <3>1. \A g \in Groups : kvInflight[g] + Tokens[r] \in Int
        BY <1>0 DEF TypeOK
      <3>2. QED
        BY <2>1, <3>1 DEF PrefillDone, TypeOK
    <2>4. QED
      BY <1>3, <2>2, <2>3 DEF PrefillReturns, PrefillDone, TypeOK, Go, Places, Stages, clocks
  <1>4. CASE PrefillFails(r)
    BY <1>4, FinishStepType DEF PrefillFails, Places
  <1>5. CASE StreamHandedOff(r) \/ BodyRead(r) \/ Cancelled(r)
    BY <1>5 DEF StreamHandedOff, BodyRead, Cancelled, TypeOK, Go, Places, tickets,
                counters, clocks
  <1>6. CASE BodyComplete(r)
    BY <1>6, FinishStepType DEF BodyComplete, Places
  <1>7. CASE DecodeFails(r)
    BY <1>7, FinishStepType DEF DecodeFails, Places
  <1>8. CASE Finally(r)
    BY <1>8, FinishStepType DEF Finally, Places
  <1>9. CASE StreamEnds(r)
    BY <1>9, FinishStepType DEF StreamEnds, Places
  <1>10. CASE FirstToken(r)
    <2>1. TokenSeen(r)
      BY <1>10 DEF FirstToken
    <2>2. nAtP' \in [Groups -> Int] /\ nAwait' \in [Groups -> Int]
      BY <2>1 DEF TokenSeen, LeavePrefill, StopAwaiting, TypeOK
    <2>3. nDecoding' \in [Groups -> Int]
      <3>1. DecodingAfterLeaving(r) \in [Groups -> Int]
        BY DEF DecodingAfterLeaving, TypeOK
      <3>2. \A g \in Groups : DecodingAfterLeaving(r)[g] + 1 \in Int
        BY <3>1
      <3>3. QED
        BY <2>1, <3>1, <3>2 DEF TokenSeen
    <2>4. /\ pendingMs' \in [Groups -> Int] /\ tAwait' \in [Groups -> Int]
          /\ kvInflight' \in [Groups -> Int]
      BY <1>0, <2>1 DEF TokenSeen, LeavePrefill, StopAwaiting, KvAfterLeaving, TypeOK
    <2>5. QED
      BY <1>10, <2>1, <2>2, <2>3, <2>4 DEF FirstToken, TokenSeen, TypeOK, Stages, clocks
  <1>11. QED
    BY <1>1, <1>2, <1>3, <1>4, <1>5, <1>6, <1>7, <1>8, <1>9, <1>10
    DEF RequestStep, HandlerStep

\* Every set_tier, drain, undrain, park and wake keeps TypeOK.
LEMMA ControllerStepType ==
  ASSUME TypeOK, NEW g \in Groups, ControllerStep(g)
  PROVE  TypeOK'
  <1>0. InFlight(g) \subseteq Requests
    BY DEF InFlight
  <1>1. CASE ChangeClocks(g)
    BY <1>0, <1>1 DEF ChangeClocks, BeginChange, TypeOK, tickets, counters
  <1>2. CASE EndChange(g)
    BY <1>0, <1>2 DEF EndChange, TypeOK, tickets, counters
  <1>3. CASE CancelChange(g) \/ Drain(g) \/ Undrain(g)
    BY <1>3 DEF CancelChange, Drain, Undrain, TypeOK, tickets, counters
  <1>4. CASE FinishDraining(g)
    BY <1>0, <1>4 DEF FinishDraining, BeginChange, TypeOK, tickets, counters
  <1>5. CASE Wake(g)
    BY <1>0, <1>5 DEF Wake, BeginChange, TypeOK, tickets, counters
  <1>6. QED
    BY <1>1, <1>2, <1>3, <1>4, <1>5 DEF ControllerStep

\* The ledger, the tickets and the group states keep their types.
THEOREM TypeCorrect == Spec => []TypeOK
  <1>1. TypeOK /\ [Next]_vars => TypeOK'
    <2>1. TypeOK /\ UNCHANGED vars => TypeOK'
      BY DEF TypeOK, vars, tickets, counters, clocks
    <2>2. QED
      BY <2>1, RequestStepType, ControllerStepType DEF Next
  <1>2. QED
    BY InitTypeOK, <1>1, PTL DEF Spec

-----------------------------------------------------------------------------
(***************************************************************************)
(* Exactness of the counters.  A step moves one request between the sets   *)
(* AtP, Awaiting, Decoding and InFlight; the counters move by as much.     *)
(***************************************************************************)

\* Before the first request, handlers and tickets agree.
LEMMA InitCoherent == Init => Coherent
  BY DEF Init, Coherent

\* Every step keeps the handler and its ticket in agreement (the order of the
\* Router calls in proxy.handle).
LEMMA CoherentStep == TypeOK /\ Coherent /\ [Next]_vars => Coherent'
  <1> SUFFICES ASSUME TypeOK, Coherent, [Next]_vars
               PROVE  Coherent'
    OBVIOUS
  <1>1. ASSUME NEW r \in Requests, RequestStep(r)
        PROVE  Coherent'
    <2> USE DEF TypeOK, Coherent, Go
    <2>1. CASE Admit(r)
      BY <2>1 DEF Admit, Reserve, Routes
    <2>2. CASE AdmitBadRequest(r)
      BY <2>2 DEF AdmitBadRequest, Routes
    <2>3. CASE PrefillReturns(r)
      BY <2>3 DEF PrefillReturns, PrefillDone
    <2>4. CASE PrefillFails(r)
      BY <2>4 DEF PrefillFails, Finish, Release, Finished, tickets
    <2>5. CASE StreamHandedOff(r) \/ BodyRead(r) \/ Cancelled(r)
      BY <2>5 DEF StreamHandedOff, BodyRead, Cancelled, tickets
    <2>6. CASE BodyComplete(r) \/ DecodeFails(r)
      BY <2>6 DEF BodyComplete, DecodeFails, Finish, Release, Finished, tickets
    <2>7. CASE Finally(r)
      BY <2>7 DEF Finally, Finish, Release, Finished, tickets
    <2>8. CASE StreamEnds(r)
      BY <2>8 DEF StreamEnds, Finish, Release, Finished, tickets
    <2>9. CASE FirstToken(r)
      BY <2>9 DEF FirstToken, TokenSeen
    <2>10. QED
      BY <1>1, <2>1, <2>2, <2>3, <2>4, <2>5, <2>6, <2>7, <2>8, <2>9
      DEF RequestStep, HandlerStep
  <1>2. ASSUME NEW g \in Groups, ControllerStep(g)
        PROVE  Coherent'
    BY <1>2 DEF Coherent, ControllerStep, ChangeClocks, EndChange, CancelChange, Drain,
                Undrain, FinishDraining, Wake, BeginChange, tickets
  <1>3. CASE UNCHANGED vars
    BY <1>3 DEF Coherent, vars, tickets
  <1>4. QED
    BY <1>1, <1>2, <1>3 DEF Next

\* The requests a counter counts are finitely many.
LEMMA LedgerSetsFinite ==
  \A g : /\ IsFiniteSet(AtP(g)) /\ IsFiniteSet(Awaiting(g))
         /\ IsFiniteSet(Decoding(g)) /\ IsFiniteSet(InFlight(g))
  BY ConstantsAssumption, FS_Subset DEF AtP, Awaiting, Decoding, InFlight

\* What one request more or less does to the size of a ledger set.
LEMMA SizeWith ==
  ASSUME NEW S, NEW x, IsFiniteSet(S), x \notin S
  PROVE  Cardinality(S \cup {x}) = Cardinality(S) + 1
  BY FS_AddElement

\* Removing one request lowers the size by one if it was in the set.
LEMMA SizeWithout ==
  ASSUME NEW S, NEW x, IsFiniteSet(S)
  PROVE  Cardinality(S \ {x}) = IF x \in S THEN Cardinality(S) - 1 ELSE Cardinality(S)
  BY FS_RemoveElement

\* _issue: the request enters the sets of its P's and its D's group.
LEMMA ReserveExact ==
  ASSUME TypeOK, Coherent, CountersExact, NEW r \in Requests, stage[r] = "none",
         NEW p \in Groups, NEW d \in Groups, NEW c, Reserve(r, p, d, c)
  PROVE  CountersExact'
  <1> SUFFICES ASSUME NEW g \in Groups
               PROVE  /\ nAtP'[g] = Cardinality(AtP(g)')
                      /\ nAwait'[g] = Cardinality(Awaiting(g)')
                      /\ nDecoding'[g] = Cardinality(Decoding(g)')
                      /\ nInflight'[g] = Cardinality(InFlight(g)')
    BY DEF CountersExact
  <1>0. /\ pg' = [pg EXCEPT ![r] = p] /\ dg' = [dg EXCEPT ![r] = d]
        /\ stage' = [stage EXCEPT ![r] = "prefill"]
        /\ pg[r] = NoGroup /\ dg[r] = NoGroup /\ stage[r] = "none"
        /\ NoGroup # g
    BY ConstantsAssumption DEF Reserve, Coherent
  <1>1. /\ AtP(g)' = IF g = p THEN AtP(g) \cup {r} ELSE AtP(g)
        /\ r \notin AtP(g)
    BY <1>0 DEF AtP, TypeOK
  <1>2. /\ Awaiting(g)' = IF g = d THEN Awaiting(g) \cup {r} ELSE Awaiting(g)
        /\ r \notin Awaiting(g)
    BY <1>0 DEF Awaiting, TypeOK
  <1>3. Decoding(g)' = Decoding(g)
    BY <1>0 DEF Decoding, TypeOK
  <1>4. /\ InFlight(g)' = IF g \in {p, d} THEN InFlight(g) \cup {r} ELSE InFlight(g)
        /\ r \notin InFlight(g)
    BY <1>0 DEF InFlight, Live, TypeOK
  <1>5. /\ nAtP'[g] = IF g = p THEN nAtP[g] + 1 ELSE nAtP[g]
        /\ nAwait'[g] = IF g = d THEN nAwait[g] + 1 ELSE nAwait[g]
        /\ nDecoding'[g] = nDecoding[g]
        /\ nInflight'[g] = IF g \in {p, d} THEN nInflight[g] + 1 ELSE nInflight[g]
    BY DEF Reserve, TypeOK
  <1>6. /\ Cardinality(AtP(g) \cup {r}) = Cardinality(AtP(g)) + 1
        /\ Cardinality(Awaiting(g) \cup {r}) = Cardinality(Awaiting(g)) + 1
        /\ Cardinality(InFlight(g) \cup {r}) = Cardinality(InFlight(g)) + 1
    BY <1>1, <1>2, <1>4, LedgerSetsFinite, SizeWith
  <1>7. QED
    BY <1>1, <1>2, <1>3, <1>4, <1>5, <1>6 DEF CountersExact

\* prefill_done: the request leaves P's set and stays in the others.
LEMMA PrefillDoneExact ==
  ASSUME TypeOK, Coherent, CountersExact, NEW r \in Requests, stage[r] = "prefill",
         PrefillDone(r)
  PROVE  CountersExact'
  <1> SUFFICES ASSUME NEW g \in Groups
               PROVE  /\ nAtP'[g] = Cardinality(AtP(g)')
                      /\ nAwait'[g] = Cardinality(Awaiting(g)')
                      /\ nDecoding'[g] = Cardinality(Decoding(g)')
                      /\ nInflight'[g] = Cardinality(InFlight(g)')
    BY DEF CountersExact
  <1>0. /\ stage' = [stage EXCEPT ![r] = "transfer"]
        /\ UNCHANGED <<pg, dg, nAwait, nDecoding, nInflight>>
    BY DEF PrefillDone
  <1>1. /\ AtP(g)' = AtP(g) \ {r}
        /\ r \in AtP(g) <=> pg[r] = g
    BY <1>0 DEF AtP, TypeOK
  <1>2. /\ Awaiting(g)' = Awaiting(g)
        /\ Decoding(g)' = Decoding(g)
        /\ InFlight(g)' = InFlight(g)
    BY <1>0 DEF Awaiting, Decoding, InFlight, Live, TypeOK
  <1>3. nAtP'[g] = IF pg[r] = g THEN nAtP[g] - 1 ELSE nAtP[g]
    BY DEF PrefillDone, LeavePrefill
  <1>4. Cardinality(AtP(g) \ {r})
          = IF r \in AtP(g) THEN Cardinality(AtP(g)) - 1 ELSE Cardinality(AtP(g))
    BY LedgerSetsFinite, SizeWithout
  <1>5. QED
    BY <1>0, <1>1, <1>2, <1>3, <1>4 DEF CountersExact

\* first_token: the request moves from the awaiting to the decoding set of its D.
LEMMA TokenSeenExact ==
  ASSUME TypeOK, Coherent, CountersExact, NEW r \in Requests, stage[r] = "transfer",
         TokenSeen(r)
  PROVE  CountersExact'
  <1> SUFFICES ASSUME NEW g \in Groups
               PROVE  /\ nAtP'[g] = Cardinality(AtP(g)')
                      /\ nAwait'[g] = Cardinality(Awaiting(g)')
                      /\ nDecoding'[g] = Cardinality(Decoding(g)')
                      /\ nInflight'[g] = Cardinality(InFlight(g)')
    BY DEF CountersExact
  <1>0. /\ stage' = [stage EXCEPT ![r] = "decode"]
        /\ UNCHANGED <<pg, dg, nInflight>>
        /\ r \notin gotFirst
        /\ dg[r] \in Groups
    BY DEF TokenSeen, Coherent
  <1>1. /\ AtP(g)' = AtP(g)
        /\ InFlight(g)' = InFlight(g)
    BY <1>0 DEF AtP, InFlight, Live, TypeOK
  <1>2. /\ Awaiting(g)' = Awaiting(g) \ {r}
        /\ r \in Awaiting(g) <=> dg[r] = g
    BY <1>0 DEF Awaiting, TypeOK
  <1>3. /\ Decoding(g)' = IF dg[r] = g THEN Decoding(g) \cup {r} ELSE Decoding(g)
        /\ r \notin Decoding(g)
    BY <1>0 DEF Decoding, TypeOK
  <1>4. /\ nAtP'[g] = nAtP[g]
        /\ nAwait'[g] = IF dg[r] = g THEN nAwait[g] - 1 ELSE nAwait[g]
    BY <1>0 DEF TokenSeen, LeavePrefill, StopAwaiting
  <1>5. nDecoding'[g] = IF dg[r] = g THEN nDecoding[g] + 1 ELSE nDecoding[g]
    <2>1. /\ DecodingAfterLeaving(r)[g] = nDecoding[g]
          /\ DOMAIN DecodingAfterLeaving(r) = Groups
      BY DEF DecodingAfterLeaving
    <2>2. QED
      BY <2>1, <1>0 DEF TokenSeen
  <1>6. Cardinality(Awaiting(g) \ {r})
          = IF r \in Awaiting(g) THEN Cardinality(Awaiting(g)) - 1
                                ELSE Cardinality(Awaiting(g))
    BY LedgerSetsFinite, SizeWithout
  <1>7. Cardinality(Decoding(g) \cup {r}) = Cardinality(Decoding(g)) + 1
    BY <1>3, LedgerSetsFinite, SizeWith
  <1>8. QED
    BY <1>0, <1>1, <1>2, <1>3, <1>4, <1>5, <1>6, <1>7 DEF CountersExact

\* finish: the request leaves every set it is still in, once.
LEMMA ReleaseExact ==
  ASSUME TypeOK, Coherent, CountersExact, NEW r \in Requests, Live(r),
         NEW status, Release(r, status)
  PROVE  CountersExact'
  <1> SUFFICES ASSUME NEW g \in Groups
               PROVE  /\ nAtP'[g] = Cardinality(AtP(g)')
                      /\ nAwait'[g] = Cardinality(Awaiting(g)')
                      /\ nDecoding'[g] = Cardinality(Decoding(g)')
                      /\ nInflight'[g] = Cardinality(InFlight(g)')
    BY DEF CountersExact
  <1>0. /\ stage' = [stage EXCEPT ![r] = "done"]
        /\ UNCHANGED <<pg, dg>>
        /\ r \notin gotFirst <=> stage[r] \in {"prefill", "transfer"}
        /\ stage[r] \in {"prefill", "transfer", "decode"}
    BY DEF Release, Coherent, Live
  <1>1. /\ AtP(g)' = AtP(g) \ {r}
        /\ r \in AtP(g) <=> pg[r] = g /\ stage[r] = "prefill"
    BY <1>0 DEF AtP, TypeOK
  <1>2. /\ Awaiting(g)' = Awaiting(g) \ {r}
        /\ r \in Awaiting(g) <=> dg[r] = g /\ r \notin gotFirst
    BY <1>0 DEF Awaiting, TypeOK
  <1>3. /\ Decoding(g)' = Decoding(g) \ {r}
        /\ r \in Decoding(g) <=> dg[r] = g /\ stage[r] = "decode"
    BY <1>0 DEF Decoding, TypeOK
  <1>4. /\ InFlight(g)' = InFlight(g) \ {r}
        /\ r \in InFlight(g) <=> g \in {pg[r], dg[r]}
    BY <1>0 DEF InFlight, Live, TypeOK
  <1>5. /\ nAtP'[g] = IF pg[r] = g /\ stage[r] = "prefill" THEN nAtP[g] - 1 ELSE nAtP[g]
        /\ nAwait'[g] = IF dg[r] = g /\ r \notin gotFirst THEN nAwait[g] - 1 ELSE nAwait[g]
        /\ nDecoding'[g] = IF dg[r] = g /\ stage[r] = "decode"
                           THEN nDecoding[g] - 1 ELSE nDecoding[g]
        /\ nInflight'[g] = IF g \in {pg[r], dg[r]} THEN nInflight[g] - 1 ELSE nInflight[g]
    BY DEF Release, LeavePrefill, StopAwaiting, DecodingAfterLeaving
  <1>6. \A S \in {AtP(g), Awaiting(g), Decoding(g), InFlight(g)} :
          Cardinality(S \ {r}) = IF r \in S THEN Cardinality(S) - 1 ELSE Cardinality(S)
    BY LedgerSetsFinite, SizeWithout
  <1>7. QED
    BY <1>1, <1>2, <1>3, <1>4, <1>5, <1>6 DEF CountersExact

\* finish keeps the counters exact, the first time and every time after.
LEMMA FinishExact ==
  ASSUME TypeOK, Coherent, CountersExact, NEW r \in Requests, stage[r] # "none",
         NEW status, Finish(r, status)
  PROVE  CountersExact'
  <1>1. CASE Finished(r) /\ UNCHANGED <<tickets, counters, samples>>
    <2>1. \A g \in Groups :
            /\ AtP(g)' = AtP(g) /\ Awaiting(g)' = Awaiting(g)
            /\ Decoding(g)' = Decoding(g) /\ InFlight(g)' = InFlight(g)
      BY <1>1 DEF AtP, Awaiting, Decoding, InFlight, Live, tickets
    <2> QED
      BY <1>1, <2>1 DEF CountersExact, counters
  <1>2. CASE ~Finished(r) /\ Release(r, status)
    <2>1. Live(r)
      BY <1>2 DEF Finished, Live, TypeOK, Stages
    <2>2. QED
      BY <1>2, <2>1, ReleaseExact
  <1>3. QED
    BY <1>1, <1>2 DEF Finish

\* A step that touches neither tickets nor counters keeps the counters exact.
LEMMA LedgerUntouched ==
  ASSUME CountersExact, UNCHANGED <<tickets, counters>>
  PROVE  CountersExact'
  BY DEF CountersExact, AtP, Awaiting, Decoding, InFlight, Live, tickets, counters

\* All counters are zero and all sets are empty at the start.
LEMMA InitExact == Init => CountersExact
  <1> SUFFICES ASSUME Init, NEW g \in Groups
               PROVE  /\ nAtP[g] = Cardinality(AtP(g))
                      /\ nAwait[g] = Cardinality(Awaiting(g))
                      /\ nDecoding[g] = Cardinality(Decoding(g))
                      /\ nInflight[g] = Cardinality(InFlight(g))
    BY DEF CountersExact
  <1>1. AtP(g) = {} /\ Awaiting(g) = {} /\ Decoding(g) = {} /\ InFlight(g) = {}
    BY DEF Init, AtP, Awaiting, Decoding, InFlight, Live
  <1>2. QED
    BY <1>1, FS_EmptySet DEF Init

\* Every step moves the counters by as much as the sets they count.
LEMMA ExactStep ==
  TypeOK /\ Coherent /\ CountersExact /\ [Next]_vars => CountersExact'
  <1> SUFFICES ASSUME TypeOK, Coherent, CountersExact, [Next]_vars
               PROVE  CountersExact'
    OBVIOUS
  <1>1. ASSUME NEW r \in Requests, RequestStep(r)
        PROVE  CountersExact'
    <2>1. CASE Admit(r)
      <3>1. PICK p \in Groups, d \in Groups, c \in Costs : Reserve(r, p, d, c)
        BY <2>1 DEF Admit, Routes
      <3>2. QED
        BY <2>1, <3>1, ReserveExact DEF Admit, Coherent
    <2>2. CASE AdmitBadRequest(r)
      <3>1. stage[r] = "none" /\ stage' = [stage EXCEPT ![r] = "done"]
        BY <2>2 DEF AdmitBadRequest, Coherent
      <3>2. \A q \in Requests : q # r => pg'[q] = pg[q] /\ dg'[q] = dg[q]
        BY <2>2 DEF AdmitBadRequest, TypeOK
      <3>3. \A g : /\ AtP(g)' = AtP(g) /\ Awaiting(g)' = Awaiting(g)
                   /\ Decoding(g)' = Decoding(g) /\ InFlight(g)' = InFlight(g)
        BY <3>1, <3>2 DEF AtP, Awaiting, Decoding, InFlight, Live, TypeOK
      <3>4. QED
        BY <2>2, <3>3 DEF AdmitBadRequest, CountersExact, counters
    <2>3. CASE PrefillReturns(r)
      BY <2>3, PrefillDoneExact DEF PrefillReturns, Coherent
    <2>4. CASE PrefillFails(r)
      BY <2>4, FinishExact DEF PrefillFails, Coherent
    <2>5. CASE StreamHandedOff(r) \/ BodyRead(r) \/ Cancelled(r)
      BY <2>5, LedgerUntouched DEF StreamHandedOff, BodyRead, Cancelled
    <2>6. CASE BodyComplete(r)
      BY <2>6, FinishExact DEF BodyComplete, Coherent
    <2>7. CASE DecodeFails(r)
      BY <2>7, FinishExact DEF DecodeFails, Coherent
    <2>8. CASE Finally(r)
      BY <2>8, FinishExact DEF Finally, Coherent
    <2>9. CASE StreamEnds(r)
      BY <2>9, FinishExact DEF StreamEnds, Coherent
    <2>10. CASE FirstToken(r)
      <3>1. stage[r] = "transfer"
        BY <2>10 DEF FirstToken, Coherent
      <3>2. QED
        BY <2>10, <3>1, TokenSeenExact DEF FirstToken
    <2>11. QED
      BY <1>1, <2>1, <2>2, <2>3, <2>4, <2>5, <2>6, <2>7, <2>8, <2>9, <2>10
      DEF RequestStep, HandlerStep
  <1>2. ASSUME NEW g \in Groups, ControllerStep(g)
        PROVE  CountersExact'
    BY <1>2, LedgerUntouched DEF ControllerStep, ChangeClocks, EndChange, CancelChange,
                                Drain, Undrain, FinishDraining, Wake, BeginChange
  <1>3. CASE UNCHANGED vars
    BY <1>3, LedgerUntouched DEF vars
  <1>4. QED
    BY <1>1, <1>2, <1>3 DEF Next

\* The Router's counters are exact in every reachable state (finish is idempotent
\* and every stage gives back what it took).
THEOREM LedgerExact == Spec => []CountersExact
  <1>1. Init => TypeOK /\ Coherent /\ CountersExact
    BY InitTypeOK, InitCoherent, InitExact
  <1>2. TypeOK /\ Coherent /\ CountersExact /\ [Next]_vars => (Coherent /\ CountersExact)'
    BY CoherentStep, ExactStep
  <1>3. QED
    BY <1>1, <1>2, TypeCorrect, PTL DEF Spec

-----------------------------------------------------------------------------
(***************************************************************************)
(* Exactness of the sums.  As with the counters a step moves one request   *)
(* between the sets, and the sums move by what the request contributes;    *)
(* its own amount is in the sum, so the max(0, ...) never takes effect.    *)
(***************************************************************************)

\* SumsExact, with the totals named.
Totals ==
  \A g \in Groups :
    /\ tAwait[g] = TotalOf(Tokens, Awaiting(g))
    /\ kvInflight[g] = TotalOf(Tokens, InTransfer(g))
    /\ pendingMs[g] = TotalOf(own, AtP(g))

LEMMA TotalsAreSums == Totals <=> SumsExact
  BY DEF Totals, SumsExact, TotalOf

\* The requests whose amounts are added are finitely many, and no amount is negative.
LEMMA SummedSets ==
  ASSUME TypeOK
  PROVE  /\ \A g : /\ IsFiniteSet(Awaiting(g)) /\ Awaiting(g) \subseteq Requests
                 /\ IsFiniteSet(InTransfer(g)) /\ InTransfer(g) \subseteq Requests
                 /\ IsFiniteSet(AtP(g)) /\ AtP(g) \subseteq Requests
         /\ \A r \in Requests : Tokens[r] \in Nat /\ own[r] \in Nat
  BY ConstantsAssumption, FS_Subset DEF TypeOK, Awaiting, InTransfer, AtP

\* What a request that leaves takes from a sum, and that the floor does not alter it.
LEMMA Leaving ==
  ASSUME NEW S, IsFiniteSet(S), NEW f, \A x \in S : f[x] \in Nat, NEW r
  PROVE  /\ r \in S => TotalOf(f, S \ {r}) = TotalOf(f, S) - f[r]
         /\ r \in S => TotalOf(f, S \ {r}) = Floor0(TotalOf(f, S) - f[r])
         /\ r \notin S => TotalOf(f, S \ {r}) = TotalOf(f, S)
  <1>1. ASSUME r \in S
        PROVE  /\ TotalOf(f, S \ {r}) = TotalOf(f, S) - f[r]
               /\ TotalOf(f, S \ {r}) = Floor0(TotalOf(f, S) - f[r])
    <2>1. TotalOf(f, S) = f[r] + TotalOf(f, S \ {r})
      BY <1>1, TotalWithout
    <2>2. TotalOf(f, S \ {r}) \in Nat /\ f[r] \in Nat
      BY <1>1, TotalIsNat, FS_RemoveElement
    <2>3. QED
      BY <2>1, <2>2 DEF Floor0
  <1>2. ASSUME r \notin S
        PROVE  TotalOf(f, S \ {r}) = TotalOf(f, S)
    <2>1. S \ {r} = S
      BY <1>2
    <2>2. QED
      BY <2>1
  <1>3. QED
    BY <1>1, <1>2

\* What a request that enters adds.
LEMMA Entering ==
  ASSUME NEW S, IsFiniteSet(S), NEW f, NEW r, r \notin S, \A x \in S \cup {r} : f[x] \in Nat
  PROVE  TotalOf(f, S \cup {r}) = TotalOf(f, S) + f[r]
  <1>1. TotalOf(f, S \cup {r}) = f[r] + TotalOf(f, S)
    BY TotalWith
  <1>2. TotalOf(f, S) \in Nat /\ f[r] \in Nat
    BY TotalIsNat
  <1>3. QED
    BY <1>1, <1>2

\* _issue: the request's tokens and its cost enter the sums of its groups.
LEMMA ReserveTotals ==
  ASSUME TypeOK, Coherent, Totals, NEW r \in Requests, stage[r] = "none",
         NEW p \in Groups, NEW d \in Groups, NEW c \in Costs, Reserve(r, p, d, c)
  PROVE  Totals'
  <1> SUFFICES ASSUME NEW g \in Groups
               PROVE  /\ tAwait'[g] = TotalOf(Tokens, Awaiting(g)')
                      /\ kvInflight'[g] = TotalOf(Tokens, InTransfer(g)')
                      /\ pendingMs'[g] = TotalOf(own', AtP(g)')
    BY DEF Totals
  <1>0. /\ pg' = [pg EXCEPT ![r] = p] /\ dg' = [dg EXCEPT ![r] = d]
        /\ stage' = [stage EXCEPT ![r] = "prefill"]
        /\ own' = [own EXCEPT ![r] = c] /\ c \in Nat
        /\ pg[r] = NoGroup /\ dg[r] = NoGroup /\ NoGroup # g
    BY ConstantsAssumption DEF Reserve, Coherent
  <1>1. /\ AtP(g)' = IF g = p THEN AtP(g) \cup {r} ELSE AtP(g)
        /\ r \notin AtP(g)
    BY <1>0 DEF AtP, TypeOK
  <1>2. /\ Awaiting(g)' = IF g = d THEN Awaiting(g) \cup {r} ELSE Awaiting(g)
        /\ r \notin Awaiting(g)
    BY <1>0 DEF Awaiting, TypeOK
  <1>3. InTransfer(g)' = InTransfer(g)
    BY <1>0 DEF InTransfer, TypeOK
  <1>4. /\ pendingMs'[g] = IF g = p THEN pendingMs[g] + c ELSE pendingMs[g]
        /\ tAwait'[g] = IF g = d THEN tAwait[g] + Tokens[r] ELSE tAwait[g]
        /\ kvInflight'[g] = kvInflight[g]
    BY DEF Reserve, TypeOK
  <1>5. TotalOf(own', AtP(g)) = TotalOf(own, AtP(g))
    <2>1. \A x \in AtP(g) : own[x] \in Int /\ own'[x] = own[x]
      BY <1>0, <1>1, SummedSets DEF TypeOK
    <2>2. QED
      BY <2>1, SummedSets, TotalAgrees
  <1>6. TotalOf(own', AtP(g) \cup {r}) = TotalOf(own', AtP(g)) + c
    <2>1. own'[r] = c /\ \A x \in AtP(g) \cup {r} : own'[x] \in Nat
      BY <1>0, <1>1, SummedSets DEF TypeOK
    <2>2. IsFiniteSet(AtP(g)) /\ r \notin AtP(g)
      BY <1>1, SummedSets
    <2>3. TotalOf(own', AtP(g) \cup {r}) = TotalOf(own', AtP(g)) + own'[r]
      BY <2>1, <2>2, Entering
    <2>4. QED
      BY <2>1, <2>3
  <1>7. TotalOf(Tokens, Awaiting(g) \cup {r}) = TotalOf(Tokens, Awaiting(g)) + Tokens[r]
    BY <1>2, SummedSets, Entering
  <1>8. QED
    BY <1>1, <1>2, <1>3, <1>4, <1>5, <1>6, <1>7 DEF Totals

\* prefill_done: the cost leaves P's sum, the tokens enter D's KV in transfer.
LEMMA PrefillDoneTotals ==
  ASSUME TypeOK, Coherent, Totals, NEW r \in Requests, stage[r] = "prefill", PrefillDone(r)
  PROVE  Totals'
  <1> SUFFICES ASSUME NEW g \in Groups
               PROVE  /\ tAwait'[g] = TotalOf(Tokens, Awaiting(g)')
                      /\ kvInflight'[g] = TotalOf(Tokens, InTransfer(g)')
                      /\ pendingMs'[g] = TotalOf(own', AtP(g)')
    BY DEF Totals
  <1>0. /\ stage' = [stage EXCEPT ![r] = "transfer"]
        /\ UNCHANGED <<pg, dg, own, tAwait>>
    BY DEF PrefillDone
  <1>1. /\ AtP(g)' = AtP(g) \ {r}
        /\ r \in AtP(g) <=> pg[r] = g
    BY <1>0 DEF AtP, TypeOK
  <1>2. Awaiting(g)' = Awaiting(g)
    BY <1>0 DEF Awaiting, TypeOK
  <1>3. /\ InTransfer(g)' = IF dg[r] = g THEN InTransfer(g) \cup {r} ELSE InTransfer(g)
        /\ r \notin InTransfer(g)
    BY <1>0 DEF InTransfer, TypeOK
  <1>4. pendingMs'[g] = IF pg[r] = g THEN Floor0(pendingMs[g] - own[r]) ELSE pendingMs[g]
    BY DEF PrefillDone, LeavePrefill
  <1>5. kvInflight'[g] = IF dg[r] = g THEN kvInflight[g] + Tokens[r] ELSE kvInflight[g]
    BY DEF PrefillDone, TypeOK
  <1>6. /\ r \in AtP(g) => TotalOf(own, AtP(g) \ {r}) = Floor0(TotalOf(own, AtP(g)) - own[r])
        /\ r \notin AtP(g) => TotalOf(own, AtP(g) \ {r}) = TotalOf(own, AtP(g))
    BY SummedSets, Leaving
  <1>7. TotalOf(Tokens, InTransfer(g) \cup {r}) = TotalOf(Tokens, InTransfer(g)) + Tokens[r]
    BY <1>3, SummedSets, Entering
  <1>8. QED
    BY <1>0, <1>1, <1>2, <1>3, <1>4, <1>5, <1>6, <1>7 DEF Totals

\* A request that leaves the stages before D's first token, for its first token or for
\* good, takes from each sum what it had in it.
LEMMA LeaveTotals ==
  ASSUME TypeOK, Coherent, Totals, NEW r \in Requests, Live(r),
         StopAwaiting(r), LeavePrefill(r), kvInflight' = KvAfterLeaving(r),
         UNCHANGED <<pg, dg, own>>,
         NEW s \in {"decode", "done"}, stage' = [stage EXCEPT ![r] = s]
  PROVE  Totals'
  <1> SUFFICES ASSUME NEW g \in Groups
               PROVE  /\ tAwait'[g] = TotalOf(Tokens, Awaiting(g)')
                      /\ kvInflight'[g] = TotalOf(Tokens, InTransfer(g)')
                      /\ pendingMs'[g] = TotalOf(own', AtP(g)')
    BY DEF Totals
  <1>0. r \notin gotFirst <=> stage[r] \in {"prefill", "transfer"}
    BY DEF Coherent, Live
  <1>1. /\ AtP(g)' = AtP(g) \ {r}
        /\ r \in AtP(g) <=> pg[r] = g /\ stage[r] = "prefill"
    BY DEF AtP, TypeOK
  <1>2. /\ Awaiting(g)' = Awaiting(g) \ {r}
        /\ r \in Awaiting(g) <=> dg[r] = g /\ r \notin gotFirst
    BY <1>0 DEF Awaiting, TypeOK
  <1>3. /\ InTransfer(g)' = InTransfer(g) \ {r}
        /\ r \in InTransfer(g) <=> dg[r] = g /\ stage[r] = "transfer"
    BY DEF InTransfer, TypeOK
  <1>4. /\ pendingMs'[g] = IF pg[r] = g /\ stage[r] = "prefill"
                           THEN Floor0(pendingMs[g] - own[r]) ELSE pendingMs[g]
        /\ tAwait'[g] = IF dg[r] = g /\ r \notin gotFirst
                        THEN tAwait[g] - Tokens[r] ELSE tAwait[g]
        /\ kvInflight'[g] = IF dg[r] = g /\ stage[r] = "transfer"
                            THEN Floor0(kvInflight[g] - Tokens[r]) ELSE kvInflight[g]
    BY DEF LeavePrefill, StopAwaiting, KvAfterLeaving
  <1>5. /\ r \in AtP(g) => TotalOf(own, AtP(g) \ {r}) = Floor0(TotalOf(own, AtP(g)) - own[r])
        /\ r \notin AtP(g) => TotalOf(own, AtP(g) \ {r}) = TotalOf(own, AtP(g))
    BY SummedSets, Leaving
  <1>6. /\ r \in Awaiting(g) => TotalOf(Tokens, Awaiting(g) \ {r})
                                  = TotalOf(Tokens, Awaiting(g)) - Tokens[r]
        /\ r \notin Awaiting(g) => TotalOf(Tokens, Awaiting(g) \ {r})
                                     = TotalOf(Tokens, Awaiting(g))
    BY SummedSets, Leaving
  <1>7. /\ r \in InTransfer(g) => TotalOf(Tokens, InTransfer(g) \ {r})
                                    = Floor0(TotalOf(Tokens, InTransfer(g)) - Tokens[r])
        /\ r \notin InTransfer(g) => TotalOf(Tokens, InTransfer(g) \ {r})
                                       = TotalOf(Tokens, InTransfer(g))
    BY SummedSets, Leaving
  <1>8. QED
    BY <1>1, <1>2, <1>3, <1>4, <1>5, <1>6, <1>7 DEF Totals

\* A step that touches neither tickets nor counters keeps the sums exact.
LEMMA TotalsUntouched ==
  ASSUME Totals, UNCHANGED <<tickets, counters>>
  PROVE  Totals'
  BY DEF Totals, AtP, Awaiting, InTransfer, tickets, counters

\* finish keeps the sums exact, the first time and every time after.
LEMMA FinishTotals ==
  ASSUME TypeOK, Coherent, Totals, NEW r \in Requests, stage[r] # "none",
         NEW status, Finish(r, status)
  PROVE  Totals'
  <1>1. CASE Finished(r) /\ UNCHANGED <<tickets, counters, samples>>
    BY <1>1, TotalsUntouched
  <1>2. CASE ~Finished(r) /\ Release(r, status)
    <2>1. Live(r)
      BY <1>2 DEF Finished, Live, TypeOK, Stages
    <2>2. QED
      BY <1>2, <2>1, LeaveTotals DEF Release
  <1>3. QED
    BY <1>1, <1>2 DEF Finish

\* Nothing is summed at the start.
LEMMA InitTotals == Init => Totals
  <1> SUFFICES ASSUME Init, NEW g \in Groups
               PROVE  /\ tAwait[g] = TotalOf(Tokens, Awaiting(g))
                      /\ kvInflight[g] = TotalOf(Tokens, InTransfer(g))
                      /\ pendingMs[g] = TotalOf(own, AtP(g))
    BY DEF Totals
  <1>1. AtP(g) = {} /\ Awaiting(g) = {} /\ InTransfer(g) = {}
    BY DEF Init, AtP, Awaiting, InTransfer
  <1>2. QED
    BY <1>1, TotalOfNone DEF Init

\* Every step moves the sums by what the request that moves contributes.
LEMMA TotalsStep == TypeOK /\ Coherent /\ Totals /\ [Next]_vars => Totals'
  <1> SUFFICES ASSUME TypeOK, Coherent, Totals, [Next]_vars
               PROVE  Totals'
    OBVIOUS
  <1>1. ASSUME NEW r \in Requests, RequestStep(r)
        PROVE  Totals'
    <2>1. CASE Admit(r)
      <3>1. PICK p \in Groups, d \in Groups, c \in Costs : Reserve(r, p, d, c)
        BY <2>1 DEF Admit, Routes
      <3>2. QED
        BY <2>1, <3>1, ReserveTotals DEF Admit, Coherent
    <2>2. CASE AdmitBadRequest(r)
      <3>1. stage[r] = "none" /\ stage' = [stage EXCEPT ![r] = "done"]
        BY <2>2 DEF AdmitBadRequest, Coherent
      <3>2. \A q \in Requests : q # r => pg'[q] = pg[q] /\ dg'[q] = dg[q]
        BY <2>2 DEF AdmitBadRequest, TypeOK
      <3>3. \A g : AtP(g)' = AtP(g) /\ Awaiting(g)' = Awaiting(g)
                   /\ InTransfer(g)' = InTransfer(g)
        BY <3>1, <3>2 DEF AtP, Awaiting, InTransfer, TypeOK
      <3>4. QED
        BY <2>2, <3>3 DEF AdmitBadRequest, Totals, counters
    <2>3. CASE PrefillReturns(r)
      BY <2>3, PrefillDoneTotals DEF PrefillReturns, Coherent
    <2>4. CASE PrefillFails(r)
      BY <2>4, FinishTotals DEF PrefillFails, Coherent
    <2>5. CASE StreamHandedOff(r) \/ BodyRead(r) \/ Cancelled(r)
      BY <2>5, TotalsUntouched DEF StreamHandedOff, BodyRead, Cancelled
    <2>6. CASE BodyComplete(r)
      BY <2>6, FinishTotals DEF BodyComplete, Coherent
    <2>7. CASE DecodeFails(r)
      BY <2>7, FinishTotals DEF DecodeFails, Coherent
    <2>8. CASE Finally(r)
      BY <2>8, FinishTotals DEF Finally, Coherent
    <2>9. CASE StreamEnds(r)
      BY <2>9, FinishTotals DEF StreamEnds, Coherent
    <2>10. CASE FirstToken(r)
      <3>1. Live(r)
        BY <2>10 DEF FirstToken, Coherent, Live
      <3>2. /\ StopAwaiting(r) /\ LeavePrefill(r) /\ kvInflight' = KvAfterLeaving(r)
            /\ UNCHANGED <<pg, dg, own>> /\ stage' = [stage EXCEPT ![r] = "decode"]
        BY <2>10 DEF FirstToken, TokenSeen
      <3>3. QED
        BY <3>1, <3>2, LeaveTotals
    <2>11. QED
      BY <1>1, <2>1, <2>2, <2>3, <2>4, <2>5, <2>6, <2>7, <2>8, <2>9, <2>10
      DEF RequestStep, HandlerStep
  <1>2. ASSUME NEW g \in Groups, ControllerStep(g)
        PROVE  Totals'
    BY <1>2, TotalsUntouched DEF ControllerStep, ChangeClocks, EndChange, CancelChange,
                                 Drain, Undrain, FinishDraining, Wake, BeginChange
  <1>3. CASE UNCHANGED vars
    BY <1>3, TotalsUntouched DEF vars
  <1>4. QED
    BY <1>1, <1>2, <1>3 DEF Next

\* The sums the Router decides on are exact in every reachable state: each is what the
\* tickets it stands for reserved, and the max(0, ...) of _leave_stage hides nothing.
THEOREM SumsAreExact == Spec => []SumsExact
  <1>1. Init => Coherent /\ Totals
    BY InitCoherent, InitTotals
  <1>2. TypeOK /\ Coherent /\ Totals /\ [Next]_vars => (Coherent /\ Totals)'
    BY CoherentStep, TotalsStep
  <1>3. QED
    BY <1>1, <1>2, TypeCorrect, TotalsAreSums, PTL DEF Spec

-----------------------------------------------------------------------------
(***************************************************************************)
(* Parking.  _finish_draining decides on n_inflight alone; the count being *)
(* exact, the group it parks has no live ticket, and none appears while it *)
(* is parked because only routable groups are admitted to.                 *)
(***************************************************************************)

\* No live ticket is on a parked group.
ParkedEmpty == \A g \in Groups : gstate[g] = "park" => InFlight(g) = {}

\* No step parks a group with a live ticket or gives a parked group one.
LEMMA ParkedEmptyStep ==
  TypeOK /\ Coherent /\ CountersExact /\ ParkedEmpty /\ [Next]_vars => ParkedEmpty'
  <1> SUFFICES ASSUME TypeOK, Coherent, CountersExact, ParkedEmpty, [Next]_vars,
                      NEW h \in Groups, gstate'[h] = "park"
               PROVE  InFlight(h)' = {}
    BY DEF ParkedEmpty
  <1>1. ASSUME NEW r \in Requests, RequestStep(r)
        PROVE  InFlight(h)' = {}
    <2>1. gstate' = gstate
      BY <1>1 DEF RequestStep, HandlerStep, Admit, AdmitBadRequest, PrefillReturns,
                  PrefillFails, StreamHandedOff, BodyRead, BodyComplete, DecodeFails,
                  Cancelled, Finally, FirstToken, StreamEnds, clocks
    <2>2. InFlight(h) = {}
      BY <2>1 DEF ParkedEmpty
    <2>3. CASE Admit(r)
      <3>1. PICK p \in Groups, d \in Groups, c \in Costs :
              /\ gstate[p] = "active" /\ gstate[d] = "active"
              /\ Reserve(r, p, d, c)
        BY <2>3 DEF Admit, Routes, Routable
      <3>2. h # p /\ h # d
        BY <2>1, <3>1
      <3>3. QED
        BY <2>2, <3>1, <3>2 DEF Reserve, InFlight, Live, TypeOK
    <2>4. CASE AdmitBadRequest(r)
      BY <2>2, <2>4 DEF AdmitBadRequest, InFlight, Live, TypeOK
    <2>5. CASE PrefillReturns(r)
      BY <2>2, <2>5 DEF PrefillReturns, PrefillDone, Coherent, InFlight, Live, TypeOK
    <2>6. CASE PrefillFails(r) \/ BodyComplete(r) \/ DecodeFails(r) \/ Finally(r)
      BY <2>2, <2>6 DEF PrefillFails, BodyComplete, DecodeFails, Finally, Finish,
                        Release, tickets, InFlight, Live, TypeOK
    <2>7. CASE StreamEnds(r)
      BY <2>2, <2>7 DEF StreamEnds, Finish, Release, tickets, InFlight, Live, TypeOK
    <2>8. CASE StreamHandedOff(r) \/ BodyRead(r) \/ Cancelled(r)
      BY <2>2, <2>8 DEF StreamHandedOff, BodyRead, Cancelled, tickets, InFlight, Live
    <2>9. CASE FirstToken(r)
      BY <2>2, <2>9 DEF FirstToken, TokenSeen, Coherent, InFlight, Live, TypeOK
    <2>10. QED
      BY <1>1, <2>3, <2>4, <2>5, <2>6, <2>7, <2>8, <2>9 DEF RequestStep, HandlerStep
  <1>2. ASSUME NEW g \in Groups, ControllerStep(g)
        PROVE  InFlight(h)' = {}
    <2>1. InFlight(h)' = InFlight(h)
      BY <1>2 DEF ControllerStep, ChangeClocks, EndChange, CancelChange, Drain, Undrain,
                  FinishDraining, Wake, BeginChange, tickets, InFlight, Live
    <2>2. CASE FinishDraining(g) /\ g = h
      <3>1. Cardinality(InFlight(h)) = 0
        BY <2>2 DEF FinishDraining, CountersExact
      <3>2. QED
        BY <2>1, <3>1, LedgerSetsFinite, FS_EmptySet
    <2>3. CASE ~(FinishDraining(g) /\ g = h)
      <3>1. gstate[h] = "park"
        BY <1>2, <2>3 DEF ControllerStep, ChangeClocks, EndChange, CancelChange, Drain,
                          Undrain, FinishDraining, Wake, BeginChange, TypeOK
      <3>2. QED
        BY <2>1, <3>1 DEF ParkedEmpty
    <2>4. QED
      BY <2>2, <2>3
  <1>3. CASE UNCHANGED vars
    BY <1>3 DEF vars, tickets, clocks, ParkedEmpty, InFlight, Live
  <1>4. QED
    BY <1>1, <1>2, <1>3 DEF Next

\* A group without live tickets is used by no handler: ParkedIdle.
LEMMA EmptyIsIdle == TypeOK /\ Coherent /\ ParkedEmpty => ParkedIdle
  BY ConstantsAssumption
  DEF TypeOK, Coherent, ParkedEmpty, ParkedIdle, InFlight, Live, Finished, Stages

\* A parked group has no handler that uses it or still holds a reservation on it.
THEOREM ParkedGroupsIdle == Spec => []ParkedIdle
  <1>1. Init => TypeOK /\ Coherent /\ CountersExact /\ ParkedEmpty
    BY InitTypeOK, InitCoherent, InitExact DEF Init, ParkedEmpty
  <1>2. TypeOK /\ Coherent /\ CountersExact /\ ParkedEmpty /\ [Next]_vars
        => (Coherent /\ CountersExact /\ ParkedEmpty)'
    BY CoherentStep, ExactStep, ParkedEmptyStep
  <1>3. QED
    BY <1>1, <1>2, TypeCorrect, EmptyIsIdle, PTL DEF Spec

-----------------------------------------------------------------------------
(***************************************************************************)
(* Samples.  Epochs only grow, so an epoch that moved while a request was  *)
(* in flight still differs from the ticket's when the request finishes.    *)
(***************************************************************************)

\* A live ticket's epochs are not ahead of its groups', and one of them is behind
\* once a change began or ended on a group of the ticket.
EpochTells ==
  \A r \in Requests :
    /\ Live(r) => pEpoch[r] <= epoch[pg[r]] /\ dEpoch[r] <= epoch[dg[r]]
    /\ Live(r) /\ r \in crossed => pEpoch[r] < epoch[pg[r]] \/ dEpoch[r] < epoch[dg[r]]
    /\ stage[r] = "none" => r \notin crossed
    /\ r \in samples => Finished(r) /\ r \notin crossed

\* finish records a sample only when both epochs are those of the admission,
\* so never for a request that a change crossed.
LEMMA FinishTells ==
  ASSUME TypeOK, Coherent, EpochTells, NEW r \in Requests, stage[r] # "none",
         NEW status, Finish(r, status), UNCHANGED <<epoch, crossed>>
  PROVE  EpochTells'
  <1>1. CASE Finished(r) /\ UNCHANGED <<tickets, counters, samples>>
    BY <1>1 DEF EpochTells, Live, Finished, tickets
  <1>2. CASE ~Finished(r) /\ Release(r, status)
    <2>1. /\ stage' = [stage EXCEPT ![r] = "done"]
          /\ UNCHANGED <<pg, dg, pEpoch, dEpoch>>
      BY <1>2 DEF Release
    <2>2. Live(r)
      BY <1>2 DEF Finished, Live, TypeOK, Stages
    <2>3. r \in samples' => r \notin crossed
      <3>1. r \notin samples
        BY <2>2 DEF EpochTells, Live, Finished
      <3>2. CASE Clean(r, status)
        <4>1. epoch[pg[r]] = pEpoch[r] /\ epoch[dg[r]] = dEpoch[r]
          BY <3>2 DEF Clean
        <4>2. epoch[pg[r]] \in Nat /\ epoch[dg[r]] \in Nat
          BY <2>2 DEF TypeOK, Coherent, Live
        <4>3. QED
          BY <2>2, <4>1, <4>2 DEF EpochTells
      <3>3. CASE ~Clean(r, status)
        BY <1>2, <3>1, <3>3 DEF Release
      <3>4. QED
        BY <3>2, <3>3
    <2>4. \A q \in Requests : q # r => (q \in samples' <=> q \in samples)
      BY <1>2 DEF Release
    <2>5. QED
      BY <2>1, <2>3, <2>4 DEF EpochTells, Live, Finished, TypeOK
  <1>3. QED
    BY <1>1, <1>2 DEF Finish

\* A begin or an end of a change bumps the epoch and marks who is in flight.
LEMMA BumpTells ==
  ASSUME TypeOK, Coherent, EpochTells, NEW g \in Groups,
         epoch' = [epoch EXCEPT ![g] = @ + 1],
         crossed' = crossed \cup InFlight(g),
         UNCHANGED <<tickets, samples>>
  PROVE  EpochTells'
  <1> SUFFICES ASSUME NEW r \in Requests
               PROVE  /\ Live(r) => pEpoch[r] <= epoch'[pg[r]] /\ dEpoch[r] <= epoch'[dg[r]]
                      /\ Live(r) /\ r \in crossed' =>
                           pEpoch[r] < epoch'[pg[r]] \/ dEpoch[r] < epoch'[dg[r]]
                      /\ stage[r] = "none" => r \notin crossed'
                      /\ r \in samples => Finished(r) /\ r \notin crossed'
    BY DEF EpochTells, tickets, Live, Finished
  <1>1. ASSUME NEW x \in Groups
        PROVE  /\ epoch[x] \in Nat
               /\ epoch'[x] = IF x = g THEN epoch[x] + 1 ELSE epoch[x]
    BY DEF TypeOK
  <1>2. pEpoch[r] \in Nat /\ dEpoch[r] \in Nat
    BY DEF TypeOK
  <1>3. CASE Live(r)
    <2>1. pg[r] \in Groups /\ dg[r] \in Groups
      BY <1>3 DEF Coherent, Live
    <2>2. r \in crossed' => r \in crossed \/ pg[r] = g \/ dg[r] = g
      BY DEF InFlight
    <2>3. QED
      BY <1>1, <1>2, <1>3, <2>1, <2>2 DEF EpochTells, Live, Finished
  <1>4. CASE ~Live(r)
    BY <1>4 DEF EpochTells, InFlight
  <1>5. QED
    BY <1>3, <1>4

\* Every step keeps the epochs telling which requests a change crossed.
LEMMA EpochTellsStep ==
  TypeOK /\ Coherent /\ EpochTells /\ [Next]_vars => EpochTells'
  <1> SUFFICES ASSUME TypeOK, Coherent, EpochTells, [Next]_vars
               PROVE  EpochTells'
    OBVIOUS
  <1>1. ASSUME NEW r \in Requests, RequestStep(r)
        PROVE  EpochTells'
    <2>0. UNCHANGED <<epoch, crossed>>
      BY <1>1 DEF RequestStep, HandlerStep, Admit, AdmitBadRequest, PrefillReturns,
                  PrefillFails, StreamHandedOff, BodyRead, BodyComplete, DecodeFails,
                  Cancelled, Finally, FirstToken, StreamEnds, clocks
    <2>1. CASE Admit(r)
      <3>1. PICK p \in Groups, d \in Groups, c \in Costs : Reserve(r, p, d, c)
        BY <2>1 DEF Admit, Routes
      <3>2. stage[r] = "none" /\ samples' = samples
        BY <2>1 DEF Admit, Coherent
      <3>3. epoch[p] \in Nat /\ epoch[d] \in Nat
        BY DEF TypeOK
      <3>4. QED
        BY <2>0, <3>1, <3>2, <3>3 DEF Reserve, EpochTells, Live, Finished, TypeOK
    <2>2. CASE AdmitBadRequest(r)
      BY <2>0, <2>2 DEF AdmitBadRequest, EpochTells, Live, Finished, TypeOK
    <2>3. CASE PrefillReturns(r)
      BY <2>0, <2>3 DEF PrefillReturns, PrefillDone, Coherent, EpochTells, Live,
                        Finished, TypeOK
    <2>4. CASE PrefillFails(r)
      BY <2>0, <2>4, FinishTells DEF PrefillFails, Coherent
    <2>5. CASE StreamHandedOff(r) \/ BodyRead(r) \/ Cancelled(r)
      BY <2>0, <2>5 DEF StreamHandedOff, BodyRead, Cancelled, tickets, EpochTells, Live,
                        Finished
    <2>6. CASE BodyComplete(r)
      BY <2>0, <2>6, FinishTells DEF BodyComplete, Coherent
    <2>7. CASE DecodeFails(r)
      BY <2>0, <2>7, FinishTells DEF DecodeFails, Coherent
    <2>8. CASE Finally(r)
      BY <2>0, <2>8, FinishTells DEF Finally, Coherent
    <2>9. CASE StreamEnds(r)
      BY <2>0, <2>9, FinishTells DEF StreamEnds, Coherent
    <2>10. CASE FirstToken(r)
      BY <2>0, <2>10 DEF FirstToken, TokenSeen, Coherent, EpochTells, Live, Finished,
                         TypeOK
    <2>11. QED
      BY <1>1, <2>1, <2>2, <2>3, <2>4, <2>5, <2>6, <2>7, <2>8, <2>9, <2>10
      DEF RequestStep, HandlerStep
  <1>2. ASSUME NEW g \in Groups, ControllerStep(g)
        PROVE  EpochTells'
    <2>1. CASE ChangeClocks(g) \/ FinishDraining(g) \/ Wake(g)
      BY <2>1, BumpTells DEF ChangeClocks, FinishDraining, Wake, BeginChange
    <2>2. CASE EndChange(g)
      BY <2>2, BumpTells DEF EndChange
    <2>3. CASE CancelChange(g) \/ Drain(g) \/ Undrain(g)
      BY <2>3 DEF CancelChange, Drain, Undrain, tickets, EpochTells, Live, Finished
    <2>4. QED
      BY <1>2, <2>1, <2>2, <2>3 DEF ControllerStep
  <1>3. CASE UNCHANGED vars
    BY <1>3 DEF vars, tickets, clocks, EpochTells, Live, Finished
  <1>4. QED
    BY <1>1, <1>2, <1>3 DEF Next

\* No sample is recorded across a begin or an end of a clock change, for any number
\* of overlapping or cancelled changes.
THEOREM SamplesDoNotCross == Spec => []NoSampleAcrossChange
  <1>1. Init => Coherent /\ EpochTells
    BY InitCoherent DEF Init, EpochTells, Live
  <1>2. TypeOK /\ Coherent /\ EpochTells /\ [Next]_vars => (Coherent /\ EpochTells)'
    BY CoherentStep, EpochTellsStep
  <1>3. TypeOK /\ EpochTells => NoSampleAcrossChange
    BY DEF TypeOK, EpochTells, NoSampleAcrossChange
  <1>4. QED
    BY <1>1, <1>2, <1>3, TypeCorrect, PTL DEF Spec
=============================================================================
