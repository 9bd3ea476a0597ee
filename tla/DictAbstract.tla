--------------------------- MODULE DictAbstract ---------------------------
(***************************************************************************)
(* What a Dict promises, with every operation atomic: an insertion-ordered *)
(* map. Setting a present key replaces its value in place, setting an     *)
(* absent key (including one deleted earlier) appends it, deleting removes *)
(* it, clear empties the map. popitem is a delete of the last key.        *)
(***************************************************************************)
EXTENDS Sequences, SequencesExt

CONSTANTS Keys, Vals

VARIABLE items   \* sequence of <<key, value>> in insertion order

Holds(k) == \E i \in DOMAIN items : items[i][1] = k

Set(k, v) ==
  IF Holds(k)
  THEN \E i \in DOMAIN items : items[i][1] = k /\ items' = [items EXCEPT ![i] = <<k, v>>]
  ELSE items' = Append(items, <<k, v>>)

Delete(k) == \E i \in DOMAIN items : items[i][1] = k /\ items' = RemoveAt(items, i)

Clear == items' = <<>>

Init == items = <<>>

Next ==
  \/ \E k \in Keys, v \in Vals : Set(k, v)
  \/ \E k \in Keys : Delete(k)
  \/ Clear

Spec == Init /\ [][Next]_items

=============================================================================
