------------------------------ MODULE Locating ------------------------------
(***************************************************************************)
(* What the Canary measures, and one window of it: the locator's runs over  *)
(* a world (TierLocator), and the probe's window and quiesce (ProbeWindow). *)
(* A behaviour is one of either; the other stays as it begins, and nothing  *)
(* of it is obliged to happen.                                              *)
(***************************************************************************)
EXTENDS TierLocator

CONSTANTS Probes, Workers, AbortMin   \* of ProbeWindow

VARIABLES
  probing, \* which of the two
  form, place, ending, stage, late, ok, violations, aborted, sampler,
  nAwait, inflight, decoding, atPrefill, engine

W == INSTANCE ProbeWindow WITH Req <- Probes, kind <- form, phase <- place

ASSUME ProbesFinite == IsFiniteSet(Probes)

window ==
  <<form, place, ending, stage, late, ok, violations, aborted, sampler,
    nAwait, inflight, decoding, atPrefill, engine>>

LocatingInit ==
  /\ probing \in BOOLEAN
  /\ Init /\ (probing => world = CHOOSE w \in Worlds : TRUE)
  /\ W!Init /\ (~probing => form = "open")

LocatorStep == ~probing /\ Next /\ UNCHANGED <<probing, window>>

ProbeStep == probing /\ W!Next /\ UNCHANGED <<probing, vars>>

LocatingNext == LocatorStep \/ ProbeStep

LocatingSpec == LocatingInit /\ [][LocatingNext]_<<probing, vars, window>>

\* Goes and Timers, for the behaviours that are their own.
LocatingFair ==
  /\ WF_vars(~probing /\ BeginFull) /\ WF_vars(~probing /\ MeasuresOn)
  /\ SF_vars(~probing /\ NewWindow)
  /\ WF_window(probing /\ W!WindowStep)
  /\ \A r \in Probes : WF_window(probing /\ W!Send(r))

LocatingFairSpec == LocatingSpec /\ LocatingFair

-----------------------------------------------------------------------------
\* A window leaves nothing behind, and quiesce means idle engines (ProbeWindow).
EndsClean == W!EndsClean

\* An interrupted location is resumed and ends (TierLocator), and a window ends although
\* requests hang (ProbeWindow): one property, as a behaviour is one of either.
MeasuringEnds == <>(IF probing THEN W!WindowOver ELSE LocationOver)
=============================================================================
