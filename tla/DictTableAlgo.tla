--------------------------- MODULE DictTableAlgo ---------------------------
(***************************************************************************)
(* The probe loop of lookupEntry and insertAbsentEntry (dictNextIndex),   *)
(* run step by step from every hash of a bounded range in hash parts of   *)
(* several sizes: it must visit every slot, which is what makes the loops *)
(* terminate (the hash part is never more than half full).               *)
(***************************************************************************)
EXTENDS DictTable

CONSTANTS
  Masks,     \* the hash-part masks checked (2 * capacity - 1)
  HashMax    \* hashes 0..HashMax are checked

VARIABLES mask, h, i, perturb, visited, steps

vars == <<mask, h, i, perturb, visited, steps>>

Init ==
  /\ mask \in Masks
  /\ h \in 0..HashMax
  /\ i = h % (mask + 1)
  /\ perturb = h
  /\ visited = {i}
  /\ steps = 0

(* One iteration of the probe loop: i, perturb = dictNextIndex(i, perturb) *)
ProbeStep ==
  /\ steps < ProbeFuel
  /\ LET n == DictNextIndex(i, perturb, mask)
     IN  /\ i' = n[1]
         /\ perturb' = n[2]
         /\ visited' = visited \cup {n[1]}
  /\ steps' = steps + 1
  /\ UNCHANGED <<mask, h>>

(* The walk stops once the fuel is spent. *)
Exhausted == steps = ProbeFuel /\ UNCHANGED vars

Next == ProbeStep \/ Exhausted

Spec == Init /\ [][Next]_vars

TypeOK ==
  /\ mask \in Masks
  /\ i \in 0..mask
  /\ perturb \in 0..HashMax
  /\ visited \subseteq 0..mask
  /\ steps \in 0..ProbeFuel

(* Every probe sequence of dictNextIndex visits every slot of the hash    *)
(* part within ProbeFuel steps, so lookupEntry always meets an empty slot *)
(* (at most half the slots are ever written) and the bound used by       *)
(* DictTable!Probe is enough.                                            *)
ProbeCoversTable == steps = ProbeFuel => visited = 0..mask

=============================================================================
