---------------------------- MODULE DictCapacity ----------------------------
(***************************************************************************)
(* The capacity computation of newDictTable, checked against a reference *)
(* definition: every request of a bounded range, and the requests next  *)
(* to each power of two up to maxDictSize, is one initial state.        *)
(***************************************************************************)
EXTENDS DictTable

CONSTANTS
  SizeMax    \* every request 0..SizeMax is checked

VARIABLE n   \* the numEntries argument of newDictTable

Requests ==
  (0..SizeMax) \cup
  {x \in {2^j + d : j \in 2..30, d \in {-1, 0, 1}} : x <= MaxDictSize}

Init == n \in Requests

(* newDictTable has no state of its own: the check is on every input. *)
Next == UNCHANGED n

Spec == Init /\ [][Next]_n

TypeOK == n \in Requests

(* Reference: the smallest power of two that is at least the request and *)
(* at least MinDictSize.                                                 *)
RefCapacity(m) ==
  Min({c \in {2^j : j \in 0..30} : c >= m /\ c >= MinDictSize})

(* newDictTable's bit-fill rounding on uint32 yields exactly the         *)
(* reference capacity, and the table has a hash part of twice that size *)
(* exactly when the capacity exceeds maxDictWithoutHashSize.            *)
RoundCapacityCorrect ==
  /\ RoundCapacity(n) = RefCapacity(n)
  /\ TableMask(RoundCapacity(n)) =
       IF RefCapacity(n) > MaxDictWithoutHashSize THEN 2 * (RefCapacity(n) - 1) + 1 ELSE 0

=============================================================================
