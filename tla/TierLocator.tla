---------------------------- MODULE TierLocator ----------------------------
(***************************************************************************)
(* The Canary's experiments (controller/locator.py, started by             *)
(* CanaryScheduler._experiment of controller/canary.py): a full location   *)
(* of the working point H and its capacity, a relocation that keeps the D  *)
(* results, a recheck of H's neighbours and the verification of a planned  *)
(* point.                                                                  *)
(*                                                                         *)
(* A step is one measurement window (`want`) with the code up to the next  *)
(* one; windows that differ in repetition or prompt mix only are one.      *)
(* Windows are cached.  A run may be cancelled in a window that has to be  *)
(* measured; the next run starts over and takes what the cache has.  What  *)
(* the GPUs show is the `world`, chosen at the start.  Clocks are numbered *)
(* on their grid, loads are integers.                                      *)
(***************************************************************************)
EXTENDS Integers, Sequences, FiniteSets, FiniteSetsExt, SequencesExt

CONSTANTS
  NP, ND,        \* number of P and of D clocks
  Worlds,        \* what measurements may find
  Plans,         \* <<P clock, D clock, load>> the solver may plan
  RampStart, RampMaxSteps,       \* ramp_start_rps in tokens/s, ramp_max_steps
  CoarsePoints, RefineSteps,     \* coarse_points, refine_steps
  FillTenths, FillBisectSteps,   \* fill_load_fractions x 10, fill_bisect_steps
  DecodeStart, DecodeMax,        \* decode_start_concurrency, decode_max_concurrency
  MaxRuns        \* bound: experiments and restarts after the first table

P == 1..NP
D == 1..ND

ASSUME LocatorAssumption ==
  /\ NP \in Nat \ {0} /\ ND \in Nat \ {0}
  /\ CoarsePoints \in Nat /\ CoarsePoints >= 2 /\ RefineSteps \in Nat
  /\ RampStart \in Nat \ {0} /\ RampMaxSteps \in Nat \ {0}
  /\ FillTenths \in Seq(Nat) /\ FillTenths # <<>> /\ FillBisectSteps \in Nat
  /\ DecodeStart \in Nat \ {0} /\ DecodeMax \in Nat /\ MaxRuns \in Nat
  /\ Plans \subseteq P \X D \X Nat
  \* cap: load a P clock carries, with D at clock dmin or higher; feff: the clock P
  \* reaches under load; limited: clocks held down by power or heat; clean: sequences
  \* D runs cleanly; fits: D clocks whose length model has enough requests; oversized:
  \* some prompts miss the target even on an idle system.  A faster D runs no fewer
  \* sequences cleanly: joint raises D's clock and keeps B*.
  /\ \A w \in Worlds :
       /\ w.cap \in [P -> Nat] /\ w.energy \in [P -> Nat \ {0}] /\ w.limited \subseteq P
       /\ w.clean \in [D -> Nat] /\ w.joules \in [D -> Nat \ {0}] /\ w.fits \subseteq D
       /\ \A d, e \in D : d <= e => w.clean[d] <= w.clean[e]
       /\ w.dmin \in D /\ w.feff \in P /\ w.oversized \in BOOLEAN

VARIABLES
  world,
  kind,      \* the experiment that runs: full, relocate, recheck, verify or none
  phase,     \* where it is
  want,      \* the window it measures next
  v,         \* its locals
  cache,     \* _cache: the windows measured, with their outcome
  short,     \* the backend probes short prompts only (set_prompt_limit)
  table,     \* the published tier table
  verified,  \* CanaryScheduler.verified: <<P clock, D clock, load>>
  outcome,   \* of the last experiment
  runs

results == <<table, verified, outcome>>
vars == <<world, kind, phase, want, v, cache, short, results, runs>>

NoTable == [h |-> <<0, 0>>, capacity |-> 0, target |-> 0, b |-> 0,
            caps |-> {}, moved |-> FALSE]
Blank   == [lo |-> 0, hi |-> 0, n |-> 0, todo |-> <<>>, seen |-> {},
            c0 |-> 0, p |-> 0, d |-> 0, top |-> 0, b |-> 0]

-----------------------------------------------------------------------------
\* Numbers.

\* a / b on a grid of step one, ties to the lower clock (snap).
Nearest(a, b) == (2 * a + b - 1) \div (2 * b)

\* spread: n clocks evenly spaced between low and high.
Spread(low, high, n) ==
  IF n <= 1 \/ high <= low THEN {high}
  ELSE {Nearest(low * (n - 1) + (high - low) * i, n - 1) : i \in 0..(n - 1)}

Ascending(S) ==
  [i \in 1..Cardinality(S) |-> CHOOSE x \in S : Cardinality({y \in S : y < x}) = i - 1]

Descending(S) ==
  [i \in 1..Cardinality(S) |-> CHOOSE x \in S : Cardinality({y \in S : y > x}) = i - 1]

Target(r) == (8 * r.c0) \div 10                    \* target_load_fraction
WithinEps(e, base) == 100 * e <= 102 * base        \* e <= (1 + eps) * base
OfLoad(b) == Max({1, (7 * b + 5) \div 10})         \* round(0.7 * b)

\* choose: the upper edge of the eps band, without clocks held down by limits.
UpperEdge(S, energy, limited) ==
  LET least == Min({energy[f] : f \in S})
      band  == {f \in S : WithinEps(energy[f], least)}
  IN Max(IF band \subseteq limited THEN band ELSE band \ limited)

-----------------------------------------------------------------------------
\* Windows.

Window(k, p, d, load) == [kind |-> k, p |-> p, d |-> d, load |-> load]
Open(p, d, load) == Window("open", p, d, load)
Closed(d, n)     == Window("closed", world.feff, d, n)
FitAt(d)         == Window("fit", world.feff, d, 0)
Service(p)       == Window("service", p, ND, 0)
NoWindow         == Window("none", 0, 0, 0)

\* What a window shows if it is measured now: meets_target, decode_clean, or a length
\* model with enough usable requests.
Shows(w) ==
  CASE w.kind = "open"   -> /\ w.load \in 1..world.cap[w.p] /\ w.d >= world.dmin
                            /\ world.oversized => short
    [] w.kind = "closed" -> w.load <= world.clean[w.d]
    [] w.kind = "fit"    -> w.d \in world.fits
    [] OTHER             -> TRUE

Cached(w) == \E ok \in BOOLEAN : <<w, ok>> \in cache

\* _cached: a window that is not in the cache is measured and kept.
Measured ==
  cache' = IF Cached(want) THEN cache ELSE cache \cup {<<want, Shows(want)>>}

Met(w) == <<w, TRUE>> \in cache'
Ok == Met(want)

-----------------------------------------------------------------------------
\* Going on, and the ends of an experiment (_experiment).

Ask(ph, w, r) == phase' = ph /\ want' = w /\ v' = r /\ UNCHANGED <<kind, results>>

Stop(result) ==
  /\ kind' = "none" /\ phase' = "idle" /\ want' = NoWindow /\ v' = Blank
  /\ outcome' = result

Fails == Stop("failed") /\ UNCHANGED <<table, verified>>

\* publish; the fill windows confirmed H up to C_H.
Publishes(t) ==
  /\ Stop("published")
  /\ table' = t
  /\ verified' = {<<t.h[1], t.h[2], t.capacity>>}

-----------------------------------------------------------------------------
\* Joint and fill: H and its capacity.

FillOrPublish(r) ==
  IF r.hi = 0 \/ r.n = 0
    THEN Publishes([h |-> <<r.p, r.d>>, capacity |-> r.lo, target |-> Target(r),
                    b |-> r.b, caps |-> {}, moved |-> FALSE])
    ELSE Ask("fill_bisect", Open(r.p, r.d, (r.lo + r.hi) \div 2), r)

\* Mutant: takes the last window instead of the last good one.
FillBisectTakesLast ==
  /\ phase = "fill_bisect"
  /\ LET r == [v EXCEPT !.lo = want.load, !.seen = @ \cup {want.load}, !.n = @ - 1]
     IN FillOrPublish(IF Ok THEN r ELSE [r EXCEPT !.hi = want.load])

\* seen: the loads measured at H.
FillBisect ==
  /\ phase = "fill_bisect"
  /\ LET r == [v EXCEPT !.seen = @ \cup {want.load}, !.n = @ - 1]
     IN FillOrPublish(IF Ok THEN [r EXCEPT !.lo = want.load] ELSE [r EXCEPT !.hi = want.load])

AskFill(r) == Ask("fill", Open(r.p, r.d, (Head(r.todo) * r.c0) \div 10), r)

Fill ==
  /\ phase = "fill"
  /\ LET best == IF Ok THEN Max({v.lo, want.load}) ELSE v.lo
         r    == [v EXCEPT !.lo = best, !.seen = @ \cup {want.load}, !.todo = Tail(@)]
         bad  == {load \in r.seen : ~Met(Open(r.p, r.d, load))}
         above == {load \in bad : load > best}
     IN CASE r.todo # <<>> -> AskFill(r)
          [] r.todo = <<>> /\ best = 0 -> Fails
          [] OTHER -> FillOrPublish([r EXCEPT !.n = FillBisectSteps,
                        !.hi = IF above = {} THEN 0 ELSE Min(above)])

AskJoint(r) == Ask("joint", Open(r.p, Head(r.todo), Target(r)), r)

Joint ==
  /\ phase = "joint"
  /\ LET r == [v EXCEPT !.todo = Tail(@)]
     IN CASE Ok -> AskFill([v EXCEPT !.d = want.d, !.todo = FillTenths,
                                     !.lo = 0, !.hi = 0, !.seen = {}])
          [] ~Ok /\ r.todo # <<>> -> AskJoint(r)
          [] OTHER -> Fails

\* D's clock and B* are known: with P at its clock, D from there up.
ToJoint(r, d, b) ==
  AskJoint([r EXCEPT !.d = d, !.b = b,
                     !.todo = Ascending(Spread(d, ND, CoarsePoints - 1))])

-----------------------------------------------------------------------------
\* Decode: the length model, or the count model where it cannot be fitted.

\* The D clock by J/token at 0.7 of what D carries, descending while clean.
ToClocks(r, b) ==
  LET clocks == Descending(Spread(1, ND, CoarsePoints))
  IN Ask("clock", Closed(Head(clocks), OfLoad(b)), [r EXCEPT !.todo = clocks, !.seen = {}])

ToCount(r) == Ask("wall", Closed(ND, DecodeStart), [r EXCEPT !.lo = 0, !.hi = 0, !.d = ND])

FitTop ==
  /\ phase = "fit_top"
  /\ CASE ~Ok -> ToCount(v)
       [] Ok /\ world.clean[ND] = 0 -> Fails      \* not even one sequence alone
       [] OTHER -> ToClocks(v, world.clean[ND])

\* b_star ends: v.top is B* at the highest D clock, zero while that is searched.
BStar(r) == IF r.top = 0 THEN ToClocks([r EXCEPT !.top = r.lo], r.lo) ELSE ToJoint(r, r.d, r.lo)

BisectWall(r) ==
  LET mid == (r.lo + r.hi) \div 2
  IN IF r.hi = 0 \/ r.n = 0 \/ mid = r.lo
       THEN BStar(r) ELSE Ask("wall_bisect", Closed(r.d, mid), r)

EndWall(r) == IF r.lo = 0 THEN Fails ELSE BisectWall([r EXCEPT !.n = 2])

\* The next concurrency, while it is allowed and below one that was not clean.
AskWall(c, r) ==
  IF c <= DecodeMax /\ (r.hi = 0 \/ c < r.hi) THEN Ask("wall", Closed(r.d, c), r) ELSE EndWall(r)

Wall ==
  /\ phase = "wall"
  /\ IF Ok THEN AskWall(2 * want.load, [v EXCEPT !.lo = want.load])
           ELSE EndWall([v EXCEPT !.hi = want.load])

WallBisect ==
  /\ phase = "wall_bisect"
  /\ BisectWall(IF Ok THEN [v EXCEPT !.lo = want.load, !.n = @ - 1]
                      ELSE [v EXCEPT !.hi = want.load, !.n = @ - 1])

Chosen(r, d) ==
  CASE d = ND -> ToJoint(r, d, IF r.top = 0 THEN Max({1, world.clean[ND]}) ELSE r.top)
    [] d # ND /\ r.top = 0 -> Ask("fit_low", FitAt(d), r)
    [] OTHER -> Ask("hint", Closed(d, r.top), [r EXCEPT !.d = d])

Clock ==
  /\ phase = "clock"
  /\ LET clean == IF Ok THEN v.seen \cup {want.d} ELSE v.seen
         rest  == Tail(v.todo)
     IN CASE Ok /\ rest # <<>> ->
               Ask("clock", Closed(Head(rest), want.load),
                   [v EXCEPT !.todo = rest, !.seen = clean])
          [] (~Ok \/ rest = <<>>) /\ clean = {} -> Fails
          [] OTHER -> Chosen(v, UpperEdge(clean, world.joules, {}))

FitLow ==
  /\ phase = "fit_low"
  /\ IF Ok THEN ToJoint(v, want.d, Max({1, world.clean[want.d]})) ELSE ToCount(v)

\* B* at a lower clock: that of the highest clock is tried first.
Hint ==
  /\ phase = "hint"
  /\ IF Ok THEN ToJoint(v, v.d, v.top)
           ELSE AskWall(Max({DecodeStart, v.top \div 2}), [v EXCEPT !.lo = 0, !.hi = v.top])

-----------------------------------------------------------------------------
\* The P clock: tables of the chosen clocks, refinement, coarse search, ramp.

AskTables(r) ==
  IF r.todo # <<>> THEN Ask("tables", Service(Head(r.todo)), r)
  ELSE IF kind = "relocate" THEN ToJoint(r, table.h[2], table.b)
  ELSE Ask("fit_top", FitAt(ND), r)

Tables == phase = "tables" /\ AskTables([v EXCEPT !.todo = Tail(@)])

At(f, r) == Open(f, ND, Target(r))
Feasible(r) == {f \in r.seen : Met(At(f, r))}

\* S(L) is measured at every P clock the solver may choose, the top one has it.
Choose(r) ==
  LET p == UpperEdge(Feasible(r), world.energy, world.limited)
      others == (Spread(1, world.feff, CoarsePoints) \cup {p}) \ {NP}
      next == [r EXCEPT !.p = p, !.todo = Ascending(others)]
  IN IF others = {} THEN AskTables(next) ELSE Ask("tables", Service(Min(others)), next)

Golden(r) ==
  IF r.hi - r.lo <= 2 \/ r.n = 0 THEN Choose(r)
  ELSE LET gap == 618 * (r.hi - r.lo)
           c == Nearest(1000 * r.hi - gap, 1000)
           d == Nearest(1000 * r.lo + gap, 1000)
       IN Ask("golden_c", At(c, r), [r EXCEPT !.todo = <<c, d>>, !.seen = @ \cup {c}])

GoldenC ==
  /\ phase = "golden_c"
  /\ Ask("golden_d", At(v.todo[2], v), [v EXCEPT !.seen = @ \cup {v.todo[2]}])

GoldenD ==
  /\ phase = "golden_d"
  /\ LET c == v.todo[1]
         d == v.todo[2]
         right == ~Met(At(c, v)) \/ (Ok /\ world.energy[d] < world.energy[c])
     IN Golden(IF right THEN [v EXCEPT !.lo = c, !.n = @ - 1]
                        ELSE [v EXCEPT !.hi = d, !.n = @ - 1])

\* hi is feasible, lo is not, or costs more.
Edge(r) ==
  IF r.hi - r.lo <= 2 \/ r.n = 0 THEN Choose(r)
  ELSE LET mid == Nearest(r.lo + r.hi, 2)
       IN Ask("edge", At(mid, r), [r EXCEPT !.seen = @ \cup {mid}])

EdgeStep ==
  /\ phase = "edge"
  /\ LET mid == want.p
         good == Ok /\ 100 * world.energy[mid] <= 101 * world.energy[v.hi]
         next == [v EXCEPT !.n = @ - 1]
     IN CASE good        -> Edge([next EXCEPT !.hi = mid])
          [] Ok /\ ~good -> Choose(v)
          [] OTHER       -> Edge([next EXCEPT !.lo = mid])

\* Mutant: the cheapest coarse clock is taken without a search around it.
RefineNothing(r) == IF Feasible(r) = {} THEN Fails ELSE Choose(r)

\* The edge of the feasible clocks is bisected when the cheapest one touches it.
Refine(r) ==
  LET S == Feasible(r)
      best == Max({f \in S : \A g \in S : world.energy[f] <= world.energy[g]})
      below == {f \in r.seen : f < best}
      above == {f \in r.seen : f > best}
  IN CASE S = {} -> Fails
       [] S # {} /\ below # {} /\ Max(below \cup {0}) \notin S ->
            Edge([r EXCEPT !.lo = Max(below), !.hi = best, !.n = RefineSteps + 2])
       [] OTHER ->
            Golden([r EXCEPT !.n = RefineSteps,
                             !.lo = Max(below \cup (IF below = {} THEN {best} ELSE {})),
                             !.hi = Min(above \cup (IF above = {} THEN {best} ELSE {}))])

Coarse ==
  /\ phase = "coarse"
  /\ LET r == [v EXCEPT !.seen = @ \cup {want.p}, !.todo = Tail(@)]
     IN IF Ok /\ r.todo # <<>> THEN Ask("coarse", At(Head(r.todo), r), r) ELSE Refine(r)

ToCoarse(c0) ==
  LET r == [Blank EXCEPT !.c0 = c0, !.todo = Descending(Spread(1, world.feff, CoarsePoints))]
  IN Ask("coarse", At(Head(r.todo), r), r)

RampBisected(r) ==
  IF r.n = 0 THEN ToCoarse(r.lo) ELSE Ask("ramp_bisect", Open(NP, ND, (r.lo + r.hi) \div 2), r)

RampBisect ==
  /\ phase = "ramp_bisect"
  /\ RampBisected(IF Ok THEN [v EXCEPT !.lo = want.load, !.n = @ - 1]
                        ELSE [v EXCEPT !.hi = want.load, !.n = @ - 1])

EndRamp(r) ==
  CASE r.lo = 0 -> Fails
    [] r.lo # 0 /\ r.hi = 0 -> ToCoarse(r.lo)
    [] OTHER -> RampBisected([r EXCEPT !.n = 2])

AskRamp(load, r) == IF r.n = 0 THEN EndRamp(r) ELSE Ask("ramp", Open(NP, ND, load), r)

Ramp ==
  /\ phase = "ramp"
  /\ LET load == want.load
         next == [v EXCEPT !.n = @ - 1]
     IN CASE Ok -> AskRamp(2 * load, [next EXCEPT !.lo = load])
          [] ~Ok /\ v.lo # 0 -> EndRamp([next EXCEPT !.hi = load])
          [] OTHER -> AskRamp(load \div 2, [next EXCEPT !.hi = load])

\* alpha: prompts that miss the target when idle are left out from now on.
Alpha ==
  /\ phase = "alpha"
  /\ AskRamp(RampStart, [v EXCEPT !.n = RampMaxSteps])

-----------------------------------------------------------------------------
\* Mutant: moves to a cheaper neighbour whether or not it met the target.
RecheckUnmet ==
  /\ phase = "recheck"
  /\ LET r == [v EXCEPT !.seen = @ \cup {want.p}, !.todo = Tail(@)]
         best == Min({f \in r.seen : \A g \in r.seen : world.energy[f] <= world.energy[g]})
     IN CASE r.todo # <<>> ->
               Ask("recheck", Open(Head(r.todo), table.h[2], table.target), r)
          [] OTHER -> Publishes([table EXCEPT !.h = <<best, table.h[2]>>, !.moved = TRUE])

\* A neighbour of H at the target load that is cheaper beyond eps becomes H.
Recheck ==
  /\ phase = "recheck"
  /\ LET r == [v EXCEPT !.seen = @ \cup {want.p}, !.todo = Tail(@)]
         AtLoad(f) == Open(f, table.h[2], table.target)
         S == {f \in r.seen : Met(AtLoad(f))}
         best == Min({f \in S : \A g \in S : world.energy[f] <= world.energy[g]})
         move == /\ table.h[1] \in S
                 /\ 100 * world.energy[best] < 98 * world.energy[table.h[1]]
     IN CASE r.todo # <<>> -> Ask("recheck", AtLoad(Head(r.todo)), r)
          [] r.todo = <<>> /\ move ->
               Publishes([table EXCEPT !.h = <<best, table.h[2]>>, !.moved = TRUE])
          [] OTHER -> Publishes(table)

\* The plan's point holds at its rate, or the model caps it there.
Verify ==
  /\ phase = "verify"
  /\ LET point == <<want.p, want.d, want.load>>
     IN IF Ok
          THEN /\ Stop("verified")
               /\ verified' = verified \cup {point}
               /\ UNCHANGED table
          ELSE /\ Stop("verification_failed")
               /\ table' = [table EXCEPT !.caps = @ \cup {point}]
               /\ UNCHANGED verified

\* _verify and locate lift the prompt limit; alpha sets it again.
MeasuresOn ==
  /\ kind # "none"
  /\ Measured
  /\ short' = IF phase = "alpha" THEN world.oversized ELSE short
  /\ \/ Alpha \/ Ramp \/ RampBisect \/ Coarse \/ EdgeStep \/ GoldenC \/ GoldenD
     \/ Tables \/ FitTop \/ Wall \/ WallBisect \/ Clock \/ FitLow \/ Hint
     \/ Joint \/ Fill \/ FillBisect \/ Recheck \/ Verify
  /\ UNCHANGED <<world, runs>>

Begins(k, ph, w, r) ==
  /\ kind = "none"
  /\ kind' = k /\ phase' = ph /\ want' = w /\ v' = r
  /\ IF table = NoTable THEN UNCHANGED runs ELSE runs < MaxRuns /\ runs' = runs + 1
  /\ UNCHANGED <<world, results>>

BeginFull ==
  /\ Begins("full", "alpha", Service(NP), Blank)
  /\ short' = FALSE
  /\ UNCHANGED cache

\* A relocation forgets the windows of the workload before.
BeginRelocate ==
  /\ table # NoTable
  /\ Begins("relocate", "alpha", Service(NP), Blank)
  /\ cache' = {}
  /\ short' = FALSE

BeginRecheck ==
  /\ table # NoTable
  /\ LET near == {table.h[1] - 1, table.h[1], table.h[1] + 1} \cap P
     IN Begins("recheck", "recheck", Open(Min(near), table.h[2], table.target),
               [Blank EXCEPT !.todo = Ascending(near)])
  /\ UNCHANGED <<cache, short>>

\* The plan's point is not verified at this load, nor capped at or below it.
BeginVerify ==
  /\ table # NoTable
  /\ \E plan \in Plans :
       /\ \A u \in verified : u[1] = plan[1] /\ u[2] = plan[2] => u[3] < plan[3]
       /\ \A u \in table.caps : u[1] = plan[1] /\ u[2] = plan[2] => u[3] > plan[3]
       /\ Begins("verify", "verify", Open(plan[1], plan[2], plan[3]), Blank)
  /\ short' = FALSE
  /\ UNCHANGED cache

\* Mutant: an aborted run loses its windows.
AbortForgets ==
  /\ kind # "none" /\ ~Cached(want)
  /\ Stop("aborted")
  /\ cache' = {}
  /\ UNCHANGED <<world, short, table, verified, runs>>

\* Pressure, full effort or the API cancels the task in a window it measures.
Abort ==
  /\ kind # "none" /\ ~Cached(want)
  /\ Stop("aborted")
  /\ UNCHANGED <<world, cache, short, table, verified, runs>>

\* Windows older than cache_ttl_s count as not measured.
Expire ==
  /\ kind = "none" /\ table # NoTable /\ cache # {} /\ runs < MaxRuns
  /\ cache' = {} /\ runs' = runs + 1
  /\ UNCHANGED <<world, kind, phase, want, v, short, results>>

\* The controller is started again: it loads the table and remembers nothing else.
Restart ==
  /\ table # NoTable /\ runs < MaxRuns
  /\ kind' = "none" /\ phase' = "idle" /\ want' = NoWindow /\ v' = Blank
  /\ cache' = {} /\ short' = FALSE /\ verified' = {} /\ outcome' = "none"
  /\ runs' = runs + 1
  /\ UNCHANGED <<world, table>>

Begin == BeginFull \/ BeginRelocate \/ BeginRecheck \/ BeginVerify

Init ==
  /\ world \in Worlds
  /\ kind = "none" /\ phase = "idle" /\ want = NoWindow /\ v = Blank
  /\ cache = {} /\ short = FALSE
  /\ table = NoTable /\ verified = {} /\ outcome = "none"
  /\ runs = 0

Next == MeasuresOn \/ Begin \/ Abort \/ Expire \/ Restart

Spec == Init /\ [][Next]_vars

NewWindow == ~Cached(want) /\ MeasuresOn

\* The scheduler starts a location while there is no table, a run goes on (WF), and not
\* every window of every run is interrupted for ever (SF).
Goes == WF_vars(BeginFull) /\ WF_vars(MeasuresOn) /\ SF_vars(NewWindow)

FairSpec == Spec /\ Goes

-----------------------------------------------------------------------------
\* What is true of the GPUs, whatever was measured.
Carries(p, d, load) == load <= world.cap[p] /\ d >= world.dmin

\* Types; no experiment runs exactly when no phase is entered (CanaryScheduler.running).
TypeOK ==
  /\ world \in Worlds /\ runs \in 0..MaxRuns /\ short \in BOOLEAN
  /\ kind \in {"none", "full", "relocate", "recheck", "verify"}
  /\ (phase = "idle") = (kind = "none")
  /\ want.kind \in {"none", "open", "closed", "fit", "service"}
  /\ \A c \in cache : c[1].kind # "none" /\ c[2] \in BOOLEAN
  /\ table = NoTable \/ (table.h \in P \X D /\ table.capacity \in Nat \ {0})

\* A published H was seen to carry the target load, also after a recheck moved it, and
\* the capacity published with it is not below that load, and carried by H unless a
\* recheck moved H (test_locator.py:404); D runs the published number of sequences
\* cleanly at its clock.
TargetMet ==
  table # NoTable =>
    /\ Carries(table.h[1], table.h[2], table.target)
    /\ table.target <= table.capacity
    /\ table.moved \/ Carries(table.h[1], table.h[2], table.capacity)
    /\ table.b <= world.clean[table.h[2]]

\* Of the loads a location measured at H, the capacity it publishes is the highest that
\* met the target, whatever the order of the windows and whichever came from the cache
\* (fill: best starts as the largest good load, the bisection only raises it).
CapacityIsBest ==
  [][(kind \in {"full", "relocate"} /\ kind' = "none" /\ outcome' = "published") =>
       LET tested == v.seen \cup {want.load}
           good   == {load \in tested : Met(Open(table'.h[1], table'.h[2], load))}
       IN /\ table'.capacity \in good
          /\ \A load \in good : load <= table'.capacity]_vars

\* The searched H is as good as the best clock that carries the target load, up to the
\* eps band and the two grid steps at which the search stops.
NearOptimum ==
  (table # NoTable /\ ~table.moved) =>
    LET able == {f \in 1..world.feff : Carries(f, ND, table.target)}
    IN \E f \in able :
         /\ \A g \in able : world.energy[f] <= world.energy[g]
         /\ \E g \in able : /\ g - f \in -2..2
                            /\ WithinEps(world.energy[table.h[1]], world.energy[g])

\* A first location that is interrupted resumes and ends, with a table or with an error.
LocationOver == outcome \in {"published", "failed"}

Resumes == <>LocationOver

\* Not so: what groups.py:92 says of capacity_h, H carries it, TTFT within the target.  A recheck
\* moves H and keeps the capacity of the H before.
CapacityHolds == table # NoTable => Carries(table.h[1], table.h[2], table.capacity)
=============================================================================
