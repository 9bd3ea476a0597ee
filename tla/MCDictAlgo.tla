----------------------------- MODULE MCDictAlgo -----------------------------
(***************************************************************************)
(* The two checks of the table algorithms as one model for TLC.  A        *)
(* behaviour either runs the probe loop of DictTableAlgo from one (mask,  *)
(* hash), or holds one request of DictCapacity; the two state spaces add  *)
(* up and neither check constrains the other.                             *)
(***************************************************************************)
EXTENDS DictTable

CONSTANTS Masks, HashMax, SizeMax

VARIABLES mask, h, i, perturb, visited, steps, n

ProbeCheck    == INSTANCE DictTableAlgo
CapacityCheck == INSTANCE DictCapacity

probeVars == <<mask, h, i, perturb, visited, steps>>
vars == <<probeVars, n>>

(* n of a probe behaviour, and the probe variables of a capacity one. *)
NoRequest == -1
ProbeIdle ==
  mask = 0 /\ h = 0 /\ i = 0 /\ perturb = 0 /\ visited = {} /\ steps = 0

Init ==
  \/ ProbeCheck!Init /\ n = NoRequest
  \/ CapacityCheck!Init /\ ProbeIdle

Next ==
  \/ n = NoRequest /\ ProbeCheck!Next /\ UNCHANGED n
  \/ n # NoRequest /\ CapacityCheck!Next /\ UNCHANGED probeVars

Spec == Init /\ [][Next]_vars

TypeOK ==
  IF n = NoRequest THEN ProbeCheck!TypeOK ELSE CapacityCheck!TypeOK /\ ProbeIdle

(* dictNextIndex reaches every slot of the hash part within ProbeFuel    *)
(* steps from every hash, so the probe loops of lookupEntry and          *)
(* insertAbsentEntry terminate (see DictTableAlgo).                      *)
ProbeCoversTable == n = NoRequest => ProbeCheck!ProbeCoversTable

(* newDictTable's rounding gives the reference capacity and hash part    *)
(* for every checked request (see DictCapacity).                         *)
RoundCapacityCorrect == n # NoRequest => CapacityCheck!RoundCapacityCorrect

=============================================================================
