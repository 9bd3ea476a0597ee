----------------------------- MODULE MCDictSize -----------------------------
(***************************************************************************)
(* The size limits of Dict in one model for TLC. A behaviour is one of:   *)
(*  - "dict": the Dict of MCDict with its tables capped at MaxDictSize   *)
(*    (a full table cannot grow: OverflowError), a writer and a repr     *)
(*    thread sharing d.mutex;                                            *)
(*  - "probe": the probe loop of DictTableAlgo from one (mask, hash);     *)
(*  - "capacity": one request of DictCapacity, with the code's           *)
(*    maxDictSize of 2^30.                                               *)
(* The parts share no variable: the Dict variables stay at their initial *)
(* values outside "dict", and the algorithm variables at ProbeIdle and   *)
(* NoRequest outside their own part.                                     *)
(***************************************************************************)
EXTENDS MCDict

CONSTANTS Masks, HashMax, SizeMax, CodeMaxDictSize

VARIABLES part, mask, h, i, perturb, visited, steps, n

ProbeCheck    == INSTANCE DictTableAlgo WITH MaxDictSize <- CodeMaxDictSize
CapacityCheck == INSTANCE DictCapacity WITH MaxDictSize <- CodeMaxDictSize

probeVars == <<mask, h, i, perturb, visited, steps>>
algoVars  == <<probeVars, n>>
allVars   == <<vars, part, algoVars>>

NoRequest == -1
ProbeIdle ==
  mask = 0 /\ h = 0 /\ i = 0 /\ perturb = 0 /\ visited = {} /\ steps = 0

SizeInit ==
  \/ part = "dict" /\ Init /\ ProbeIdle /\ n = NoRequest
  \/ part = "probe" /\ Init /\ ProbeCheck!Init /\ n = NoRequest
  \/ part = "capacity" /\ Init /\ ProbeIdle /\ CapacityCheck!Init

SizeNext ==
  \/ part = "dict" /\ Next /\ UNCHANGED <<part, algoVars>>
  \/ part = "probe" /\ ProbeCheck!Next /\ UNCHANGED <<vars, part, n>>
  \/ part = "capacity" /\ CapacityCheck!Next /\ UNCHANGED <<vars, part, probeVars>>

(* The fairness of Dict's FairSpec, for the Dict part. *)
SizeFairSpec ==
  /\ SizeInit /\ [][SizeNext]_allVars
  /\ \A w \in Writers : WF_allVars(HeldStep(w) /\ UNCHANGED <<part, algoVars>>)
  /\ \A p \in Reprs : WF_allVars(ReprStep(p) /\ UNCHANGED <<part, algoVars>>)

SizeView == <<part, algoVars, DictView>>

(* dictNextIndex reaches every slot of the hash part within ProbeFuel    *)
(* steps from every hash, so the probe loops of lookupEntry and          *)
(* insertAbsentEntry terminate (see DictTableAlgo).                      *)
ProbeCoversTable == part = "probe" => ProbeCheck!ProbeCoversTable

(* newDictTable's rounding gives the reference capacity and hash part    *)
(* for every checked request (see DictCapacity).                         *)
RoundCapacityCorrect == part = "capacity" => CapacityCheck!RoundCapacityCorrect

=============================================================================
