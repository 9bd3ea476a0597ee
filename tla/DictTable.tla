----------------------------- MODULE DictTable -----------------------------
(***************************************************************************)
(* The hash table underlying a grumpy Dict (runtime/dict.go, dictTable).   *)
(*                                                                         *)
(* A table is a record                                                     *)
(*   [capa, mask, indices, entries, used, fill]                            *)
(* where entries is the insertion-ordered array of dictEntry records       *)
(* [hash, key, value] (only the written prefix is kept: Len(entries) is    *)
(* the number of slots ever written), indices maps each slot 0..mask of    *)
(* the hash part to a 1-based position in entries (0 = never written), and *)
(* mask = 0 when the table is small enough to have no hash part.           *)
(* A deleted entry keeps its hash and key and has value Nil (a tombstone). *)
(*                                                                         *)
(* This module holds no variables: its operators are the table-level      *)
(* functions of dict.go, used by the Dict module for the steps that run on *)
(* a table nobody else can see yet (growTable, insertAbsentEntry) and by  *)
(* the atomic steps of the lock-free protocol.                            *)
(***************************************************************************)
EXTENDS Naturals, Sequences, FiniteSets, FiniteSetsExt, SequencesExt, Bitwise, TLC

CONSTANTS
  Nil,                    \* the nil *Object: absent value, deleted entry
  MinDictSize,            \* minDictSize (4 in the code)
  MaxDictWithoutHashSize, \* maxDictWithoutHashSize (8 in the code)
  MaxDictSize,            \* maxDictSize (1 << 30 in the code)
  ProbeFuel               \* bound on the probe loop, see DictTableAlgo

ASSUME MinDictSize \in Nat \ {0}
ASSUME MaxDictWithoutHashSize \in Nat
ASSUME MaxDictSize \in Nat /\ MaxDictSize >= MinDictSize
ASSUME ProbeFuel \in Nat \ {0}

-----------------------------------------------------------------------------
(* Faulty variant: the `>> 4` step of the bit-fill is missing. *)
RoundCapacityNoShift4(numEntries) ==
  IF numEntries <= MinDictSize THEN MinDictSize
  ELSE IF ((numEntries - 1) & numEntries) # 0
       THEN LET a == numEntries | shiftR(numEntries, 1)
                b == a | shiftR(a, 2)
                d == b | shiftR(b, 8)
            IN  (d | shiftR(d, 16)) + 1
       ELSE numEntries

(* Capacity rounding of newDictTable: at least MinDictSize, and a          *)
(* non-power of two is rounded up with the bit-fill trick on uint32.       *)
RoundCapacity(numEntries) ==
  IF numEntries <= MinDictSize THEN MinDictSize
  ELSE IF ((numEntries - 1) & numEntries) # 0
       THEN LET a == numEntries | shiftR(numEntries, 1)
                b == a | shiftR(a, 2)
                c == b | shiftR(b, 4)
                d == c | shiftR(c, 8)
                e == d | shiftR(d, 16)
            IN  e + 1
       ELSE numEntries

(* The mask of newDictTable: a hash part of twice the capacity only     *)
(* above MaxDictWithoutHashSize, else none. capa * 2 - 1 is computed as *)
(* capa + (capa - 1), which stays within TLC's integers at capa = 2^30.  *)
TableMask(capa) == IF capa > MaxDictWithoutHashSize THEN capa + (capa - 1) ELSE 0

(* newDictTable; indices is nil (empty domain) when the mask is 0.       *)
NewDictTable(numEntries) ==
  LET capa == RoundCapacity(numEntries)
      mask == TableMask(capa)
  IN  [capa    |-> capa,
       mask    |-> mask,
       indices |-> [i \in IF mask = 0 THEN {} ELSE 0..mask |-> 0],
       entries |-> <<>>,
       used    |-> 0,
       fill    |-> 0]

Entry(h, k, v) == [hash |-> h, key |-> k, value |-> v]

(* Faulty variants of dictNextIndex: the index used without `& mask`,  *)
(* and the recurrence without its `+ 1` (slot 0 then maps to itself).  *)
DictNextIndexUnmasked(i, perturb, mask) == <<5 * i + perturb + 1, perturb \div 32>>

DictNextIndexNoIncrement(i, perturb, mask) ==
  <<(5 * i + perturb) % (mask + 1), perturb \div 32>>

(* dictNextIndex. The code keeps i unmasked in a uint32 and uses i & mask; *)
(* since mask + 1 divides 2^32 only the low bits matter, so i is kept      *)
(* reduced modulo mask + 1 here (TLC integers are 32-bit signed).         *)
DictNextIndex(i, perturb, mask) ==
  <<(5 * i + perturb + 1) % (mask + 1), perturb \div 32>>

(* The open-addressing probe loop of lookupEntry (and of                  *)
(* insertAbsentEntry, which probes with a key no entry has). Returns the   *)
(* terminal slot, the 1-based position of the entry found (0 if none) and *)
(* whether the user-level equality was called on the way (an entry with   *)
(* the same hash was met), which is where a callback may run.             *)
RECURSIVE Probe(_, _, _, _, _, _, _)
Probe(t, h, k, i, perturb, fuel, eq) ==
  LET idx == t.indices[i]
  IN  IF idx = 0 THEN [slot |-> i, pos |-> 0, eq |-> eq]
      ELSE LET e    == t.entries[idx]
               same == e.hash = h
           IN  IF same /\ e.key = k THEN [slot |-> i, pos |-> idx, eq |-> TRUE]
               ELSE LET n == DictNextIndex(i, perturb, t.mask)
                    IN  IF fuel = 0
                        THEN Assert(FALSE, "probe sequence did not reach an empty slot")
                        ELSE Probe(t, h, k, n[1], n[2], fuel - 1, eq \/ same)

(* Faulty variant: a small table scanned forwards, so a tombstone hides *)
(* the entry of the same key re-inserted after it.                      *)
LookupEntryForward(t, fill, h, k) ==
  IF t.mask = 0
  THEN LET hits == {p \in 1..fill : t.entries[p].hash = h /\ t.entries[p].key = k}
       IN  [slot |-> 0,
            pos  |-> IF hits = {} THEN 0 ELSE Min(hits),
            eq   |-> \E p \in 1..fill : t.entries[p].hash = h]
  ELSE Probe(t, h, k, h % (t.mask + 1), h, ProbeFuel, FALSE)

(* lookupEntry on table t (the caller passes the fill it loaded). Small   *)
(* tables are scanned from fill down to 1 so that a key re-inserted      *)
(* after a delete is found before its tombstone: the result is the       *)
(* highest matching position.                                            *)
LookupEntry(t, fill, h, k) ==
  IF t.mask = 0
  THEN LET hits == {p \in 1..fill : t.entries[p].hash = h /\ t.entries[p].key = k}
       IN  [slot |-> 0,
            pos  |-> IF hits = {} THEN 0 ELSE Max(hits),
            eq   |-> \E p \in 1..fill : t.entries[p].hash = h]
  ELSE Probe(t, h, k, h % (t.mask + 1), h, ProbeFuel, FALSE)

(* Faulty variant: the index stored at the home slot without probing.  *)
InsertAbsentEntryNoProbe(t, e) ==
  [t EXCEPT !.indices = IF t.mask = 0 THEN @
                        ELSE [@ EXCEPT ![e.hash % (t.mask + 1)] = t.fill + 1],
            !.entries = Append(@, e),
            !.used    = @ + 1,
            !.fill    = @ + 1]

(* insertAbsentEntry on a table no reader can see yet: probe for the     *)
(* first empty slot, store fill + 1 there, append, used++ and fill++.    *)
InsertAbsentEntry(t, e) ==
  LET slot == Probe(t, e.hash, Nil, e.hash % (t.mask + 1), e.hash, ProbeFuel, FALSE).slot
  IN  [t EXCEPT !.indices = IF t.mask = 0 THEN @ ELSE [@ EXCEPT ![slot] = t.fill + 1],
                !.entries = Append(@, e),
                !.used    = @ + 1,
                !.fill    = @ + 1]

(* writeNewEntry as one step: append at fill, store fill + 1 into the     *)
(* slot lookupEntry returned, used++ and fill++. The Dict module splits   *)
(* it into its four stores where other threads can see the table.       *)
WriteNewEntry(t, slot, e) ==
  [t EXCEPT !.entries = Append(@, e),
            !.indices = IF t.mask = 0 THEN @ ELSE [@ EXCEPT ![slot] = t.fill + 1],
            !.used    = @ + 1,
            !.fill    = @ + 1]

(* writeValue as one step: store the value, and used-- when it is nil.   *)
WriteValue(t, pos, v) ==
  [t EXCEPT !.entries[pos].value = v,
            !.used = IF v = Nil THEN @ - 1 ELSE @]

(* The panic("overrun") guard of insertAbsentEntry. *)
Overrun(t) == t.fill = t.capa

Live(t) == {p \in 1..t.fill : t.entries[p].value # Nil}

(* Faulty variant: no maxDictSize limit on doubling. *)
GrowSizeUnbounded(t) == IF t.used < t.capa \div 2 THEN t.used * 2 ELSE t.capa * 2

(* The requested size of growTable, or -1 when it returns false. *)
GrowSize(t) ==
  IF t.used < t.capa \div 2 THEN t.used * 2
  ELSE IF t.capa <= MaxDictSize \div 2 THEN t.capa * 2
  ELSE -1

(* Faulty variants of growTable: the old entries copied from the last   *)
(* to the first, and deleted entries copied along with the live ones.  *)
GrowTableReversed(t) ==
  FoldLeft(LAMBDA acc, e : IF e.value # Nil THEN InsertAbsentEntry(acc, e) ELSE acc,
           NewDictTable(GrowSize(t)), Reverse(t.entries))

GrowTableKeepTombstones(t) ==
  FoldLeft(LAMBDA acc, e : InsertAbsentEntry(acc, e), NewDictTable(GrowSize(t)), t.entries)

(* growTable: a fresh table with every live entry re-inserted in order.  *)
GrowTable(t) ==
  FoldLeft(LAMBDA acc, e : IF e.value # Nil THEN InsertAbsentEntry(acc, e) ELSE acc,
           NewDictTable(GrowSize(t)), t.entries)

(* The opportunistic-shrink test of putItem after a delete, with the     *)
(* code's integer arithmetic: used < capa/8 && fill > capa/8*5.          *)
ShrinkWanted(t) == t.used < t.capa \div 8 /\ t.fill > (t.capa \div 8) * 5

IsPowerOfTwo(n) == \E j \in 0..30 : n = 2^j

=============================================================================
