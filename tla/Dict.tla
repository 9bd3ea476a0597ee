------------------------------- MODULE Dict -------------------------------
(***************************************************************************)
(* The grumpy Dict container (runtime/dict.go): a table pointer published *)
(* atomically, a recursive mutex serialising writers, and a version        *)
(* counter that detects a write re-entering through a user callback.      *)
(*                                                                         *)
(* Writers (putItem for SetItem/DelItem/Pop/setdefault, popitem, clear)    *)
(* run step by step under the lock; every atomic store a lock-free reader  *)
(* can observe is a step of its own. Readers (GetItem) take no lock.      *)
(*                                                                         *)
(* A user __eq__ called by lookupEntry under the lock may re-enter the     *)
(* same Dict on the same thread: Reenter applies one whole nested write    *)
(* at that point (a nested putItem cannot be interleaved with other       *)
(* writers, who wait on the lock).                                        *)
(*                                                                         *)
(* Tables live in tbl, indexed by TableIds; a table no thread refers to    *)
(* any more is garbage and its id is reused by the next allocation.      *)
(* version is d.version: it only ever grows and is only compared for      *)
(* equality with a snapshot, so the VIEW keeps just those comparisons.   *)
(***************************************************************************)
EXTENDS DictTable

CONSTANTS
  Keys,         \* key objects (model values)
  Vals,         \* value objects other than nil
  Hash,         \* the hash of each key (non-negative, bounded)
  Writers,      \* threads calling the write operations
  Readers,      \* threads calling GetItem
  TableIds,     \* identities of allocated dictTables
  NoTable,      \* the nil *dictTable
  NoOwner,      \* the mutex is free
  MaxReentry,   \* nested writes one putItem may see from its callbacks
  NewDictInit,  \* TRUE: the Dict is NewDict()'s zero value (table nil)
  Consumers,    \* threads calling next() on one shared key/item iterator
  Listers,      \* threads calling Keys()
  MaxIterWrites, \* bound: version increments once the iterator exists
  SelfUpdate,    \* TRUE: writers may also call d.Update(d)
  Comparers,     \* threads calling dictsAreEqual(d, d2)
  Other,         \* d2, a Dict nobody modifies, as a function key -> value
  Reprs,         \* threads calling dictRepr (repr(d))
  MaxReprWrites  \* bound: writes the __repr__ of d's keys and values make

ASSUME Keys \subseteq DOMAIN Hash /\ \A k \in Keys : Hash[k] \in Nat
ASSUME NoTable \notin TableIds
ASSUME Cardinality(TableIds) >= 2 + Cardinality(Writers) + Cardinality(Readers)
                                  + Cardinality(Listers)
                                  + (IF Consumers = {} THEN 0 ELSE 1)
                                  + (IF SelfUpdate THEN Cardinality(Writers) ELSE 0)
                                  + Cardinality(Comparers) + Cardinality(Reprs)
ASSUME MaxReentry \in Nat /\ NewDictInit \in BOOLEAN /\ MaxReprWrites \in Nat

VARIABLES
  tbl,    \* TableIds -> dictTable
  cur,    \* d.table
  owner,  \* holder of d.mutex
  wr,     \* per writer: program counter and locals of the call in progress
  rd,     \* per reader: program counter and locals of GetItem
  version, \* d.version
  obs,    \* history: values each reader's key held during its GetItem
  it,     \* the shared dictEntryIterator and its dictVersionGuard
  cs,     \* per consumer: program counter and locals of dictIteratorNext
  ls,     \* per lister: program counter and locals of Keys
  yl,     \* history: <<position, key, value>> the iterator yielded
  snaps,  \* history: every content the Dict had since the iterator was made
  cmp,    \* per comparer: locals of dictsAreEqual, and whether d equalled
          \* d2 at each instant of the call (history)
  rp      \* per repr thread: locals of dictRepr, the items it printed, and
          \* every content d had during the call (history)

iterVars == <<it, cs, ls, yl, snaps, cmp, rp>>
vars == <<tbl, cur, owner, wr, rd, version, obs, iterVars>>

Blank == NewDictTable(0)

IdleW == [pc |-> "idle", op |-> "none", key |-> Nil, val |-> Nil, ow |-> TRUE,
          t |-> NoTable, v |-> 0, slot |-> 0, pos |-> 0, res |-> Nil,
          reent |-> 0, upd |-> FALSE, ut |-> NoTable, ui |-> 0, ugv |-> 0]

IdleR == [pc |-> "idle", key |-> Nil, tid |-> NoTable, pos |-> 0]

IdleC == [pc |-> "idle", filled |-> 0, idx |-> 0, key |-> Nil, val |-> Nil,
         res |-> "none"]

IdleL == [pc |-> "idle", tid |-> NoTable, fill |-> 0, used |-> 0, k |-> 0, n |-> 0]

IdleQ == [pc |-> "idle", tid |-> NoTable, idx |-> 0, g |-> 0, res |-> "none", seen |-> {}]

IdleP == [pc |-> "idle", tid |-> NoTable, idx |-> 0, out |-> <<>>, nw |-> 0, res |-> "none",
          seen |-> {}]

Refs == ({cur} \cup {wr[w].t : w \in Writers} \cup {wr[w].ut : w \in Writers}
          \cup {rd[r].tid : r \in Readers}
          \cup {it.tid} \cup {ls[l].tid : l \in Listers} \cup {cmp[q].tid : q \in Comparers}
          \cup {rp[p].tid : p \in Reprs})
          \ {NoTable}

FreeId == CHOOSE id \in TableIds : id \notin Refs

(* The nil-safe atomic loads of dictTable.fill and dictTable.used. *)
FillOf(c) == IF c = NoTable THEN 0 ELSE tbl[c].fill

UsedOf(c) == IF c = NoTable THEN 0 ELSE tbl[c].used

(* The state as the threads can still observe it, used as the VIEW of   *)
(* the runs. A table id is only a name: tables are named by their role.  *)
(* A table no thread refers to is garbage (the host GC reclaims it). A   *)
(* replaced table no writer refers to is never written again, so a       *)
(* reader holding it will load exactly the value it finds there now.    *)
TableRole(id) ==
  IF id = NoTable THEN "nil" ELSE IF id = cur THEN "cur" ELSE tbl[id]

Frozen(id) == id # cur /\ \A w \in Writers : wr[w].t # id

LoadedValue(r) ==
  IF rd[r].pos = 0 THEN Nil ELSE tbl[rd[r].tid].entries[rd[r].pos].value

ReaderView(r) ==
  IF rd[r].pc = "load" /\ Frozen(rd[r].tid)
  THEN [rd[r] EXCEPT !.tid = "frozen", !.pos = LoadedValue(r)]
  ELSE [rd[r] EXCEPT !.tid = TableRole(@)]

(* A Keys scan of a frozen table is determined by it: only whether it  *)
(* will find more live entries than the used it loaded is kept.         *)
ScanPanics(l) ==
  LET x == ls[l]
  IN  x.n + Cardinality({p \in x.k + 1..x.fill : tbl[x.tid].entries[p].value # Nil})
        > x.used

ListerView(l) ==
  IF ls[l].pc = "scan" /\ Frozen(ls[l].tid)
  THEN [pc |-> "frozen", panics |-> ScanPanics(l)]
  ELSE [ls[l] EXCEPT !.tid = TableRole(@)]

(* The same for the walk of dictsAreEqual: only its result is kept. *)
WalkResult(q) ==
  LET x == cmp[q]
  IN  IF \A p \in x.idx + 1..FillOf(x.tid) :
           LET e == tbl[x.tid].entries[p]
           IN  e.value = Nil \/ (e.key \in DOMAIN Other /\ Other[e.key] = e.value)
      THEN x.res ELSE "false"

CmpView(q) ==
  IF cmp[q].pc = "next" /\ Frozen(cmp[q].tid)
  THEN [pc |-> "frozen", res |-> WalkResult(q), g |-> cmp[q].g = version,
        seen |-> cmp[q].seen]
  ELSE [cmp[q] EXCEPT !.tid = TableRole(@), !.g = @ = version]

(* A returned repr keeps only its result and whether it printed a state *)
(* d was in: the next call starts afresh.                               *)
ReprView(p) ==
  IF rp[p].pc = "idle"
  THEN [res |-> rp[p].res, was |-> rp[p].out \in rp[p].seen, nw |-> rp[p].nw = 0]
  ELSE [rp[p] EXCEPT !.tid = TableRole(@)]

DictView ==
  <<TableRole(cur), IF cur = NoTable THEN "nil" ELSE tbl[cur], owner,
    [w \in Writers |-> [wr[w] EXCEPT !.t = TableRole(@),
                                      !.v = wr[w].pc = "lookup" /\ @ = version,
                                      !.ut = TableRole(@),
                                      !.ugv = IF wr[w].upd THEN version - @ ELSE 0]],
    [r \in Readers |-> ReaderView(r)], obs,
    [it EXCEPT !.tid = TableRole(@), !.gv = IF it.made THEN version - @ ELSE 0], cs,
    [l \in Listers |-> ListerView(l)], yl, snaps,
    [q \in Comparers |-> CmpView(q)],
    [p \in Reprs |-> ReprView(p)]>>

(* lookupEntry on the table c (nil-safe), with the fill it holds now. *)
LookupAt(c, k) ==
  IF c = NoTable THEN [slot |-> 0, pos |-> 0, eq |-> FALSE]
  ELSE LookupEntry(tbl[c], tbl[c].fill, Hash[k], k)

(* What the table says, read in insertion order: the live entries of     *)
(* entries[1..fill] of the published table.                              *)
Content ==
  IF cur = NoTable THEN <<>>
  ELSE LET s == SelectSeq(SubSeq(tbl[cur].entries, 1, tbl[cur].fill),
                          LAMBDA e : e.value # Nil)
       IN  [j \in 1..Len(s) |-> <<s[j].key, s[j].value>>]

ContentVal(k) ==
  IF \E j \in DOMAIN Content : Content[j][1] = k
  THEN Content[CHOOSE j \in DOMAIN Content : Content[j][1] = k][2]
  ELSE Nil

(* Values of k that a reader may legitimately see now: its value in the  *)
(* content, and the value of an entry written past fill and not yet      *)
(* counted (visible through indices before fill is incremented).        *)
Vis(k) ==
  {ContentVal(k)} \cup
  IF cur = NoTable THEN {}
  ELSE {tbl[cur].entries[p].value :
          p \in {q \in tbl[cur].fill + 1..Len(tbl[cur].entries) :
                   tbl[cur].entries[q].key = k}}

SetW(w, r) == wr' = [wr EXCEPT ![w] = r]

(* Unlock and return res. The call's locals are dropped. *)
Finish(w, res) ==
  /\ owner' = NoOwner
  /\ SetW(w, [wr[w] EXCEPT !.pc = "ret", !.res = res, !.t = NoTable,
                           !.v = 0, !.slot = 0, !.pos = 0, !.reent = 0])

(* Faulty variants of the three tests below: a deleted entry taken as   *)
(* present, the grow test off by one (the entries array is written past *)
(* its capacity), and the version check left out.                       *)
AbsentIgnoringTombstone(t, r) == r.pos = 0

NeedsGrowOffByOne(c) == c = NoTable \/ tbl[c].fill > tbl[cur].capa

VersionNeverChanged(x) == FALSE

(* entry == nil || entry.value == nil: never inserted, or deleted. *)
Absent(t, r) == r.pos = 0 \/ t.entries[r.pos].value = Nil

(* t == nil || t.fill == d.table.capa *)
NeedsGrow(c) == c = NoTable \/ tbl[c].fill = tbl[cur].capa

(* v != d.version: a callback of lookupEntry wrote to the Dict. *)
VersionChanged(x) == x.v # version

-----------------------------------------------------------------------------
(* The nested write a callback performs: putItem(k, v, true) run to the  *)
(* end on the current state. Returns the new tables, table pointer and   *)
(* whether the version was incremented.                                  *)
SeqPut(k, v) ==
  LET c      == cur
      t      == tbl[c]
      r      == LookupAt(c, k)
      e      == Entry(Hash[k], k, v)
      id     == FreeId
      absent == Absent(t, r)
      same   == [tbl |-> tbl, cur |-> c, bumped |-> FALSE]
  IN  CASE absent /\ v # Nil /\ NeedsGrow(c) ->
             IF c # NoTable /\ GrowSize(t) < 0 THEN same
             ELSE [tbl    |-> [tbl EXCEPT ![id] =
                                 InsertAbsentEntry(IF c = NoTable THEN Blank
                                                   ELSE GrowTable(t), e)],
                   cur    |-> id,
                   bumped |-> TRUE]
        [] absent /\ v # Nil ->
             [tbl |-> [tbl EXCEPT ![c] = WriteNewEntry(t, r.slot, e)],
              cur |-> c, bumped |-> TRUE]
        [] absent -> same
        [] OTHER ->
             LET t2 == WriteValue(t, r.pos, v)
             IN  IF v = Nil /\ ShrinkWanted(t2)
                 THEN [tbl |-> [tbl EXCEPT ![c] = t2, ![id] = GrowTable(t2)],
                       cur |-> id, bumped |-> TRUE]
                 ELSE [tbl |-> [tbl EXCEPT ![c] = t2], cur |-> c, bumped |-> TRUE]

-----------------------------------------------------------------------------
(* A writer thread calls SetItem (putItem(k, v, true)), DelItem or Pop    *)
(* (putItem(k, nil, true)), setdefault (putItem(k, v, false)), popitem or *)
(* clear. Hash(key) runs before the lock and has no effect on the Dict.   *)
Start(w) ==
  /\ wr[w].pc = "idle"
  /\ ~it.made \/ version < it.gv + MaxIterWrites
  /\ \/ \E k \in Keys, v \in Vals :
          SetW(w, [IdleW EXCEPT !.pc = "lock", !.op = "put", !.key = k, !.val = v])
     \/ \E k \in Keys :
          SetW(w, [IdleW EXCEPT !.pc = "lock", !.op = "put", !.key = k])
     \/ \E k \in Keys, v \in Vals :
          SetW(w, [IdleW EXCEPT !.pc = "lock", !.op = "put", !.key = k, !.val = v,
                                !.ow = FALSE])
     \/ SetW(w, [IdleW EXCEPT !.pc = "lock", !.op = "popitem"])
     \/ SetW(w, [IdleW EXCEPT !.pc = "lock", !.op = "clear"])
     \/ SelfUpdate /\ SetW(w, [IdleW EXCEPT !.pc = "updIter", !.op = "update"])
  /\ UNCHANGED <<tbl, cur, owner, rd, version>>

(* d.mutex.Lock; putItem then snapshots t := d.table and v := d.version. *)
Lock(w) ==
  /\ wr[w].pc = "lock"
  /\ owner = NoOwner
  /\ owner' = w
  /\ SetW(w, [wr[w] EXCEPT !.pc = CASE wr[w].op = "put"     -> "lookup"
                                    [] wr[w].op = "popitem" -> "popitem"
                                    [] OTHER                -> "clear",
                           !.t = IF wr[w].op = "put" THEN cur ELSE NoTable,
                           !.v = version])
  /\ UNCHANGED <<tbl, cur, rd, version>>

(* A user __eq__ run by lookupEntry re-enters this Dict and writes to it. *)
Reenter(w) ==
  /\ wr[w].pc = "lookup"
  /\ wr[w].reent < MaxReentry
  /\ LookupAt(wr[w].t, wr[w].key).eq
  /\ SetW(w, [wr[w] EXCEPT !.reent = @ + 1])
  /\ \/ \E k \in Keys, v \in Vals \cup {Nil} :
          LET n == SeqPut(k, v)
          IN  /\ cur' = n.cur
              /\ tbl' = n.tbl
              /\ version' = IF n.bumped THEN version + 1 ELSE version
     \/ LET id == FreeId
        IN  /\ cur' = id
            /\ tbl' = [tbl EXCEPT ![id] = Blank]
            /\ version' = version + 1
  /\ UNCHANGED <<owner, rd>>

(* A user __eq__ run by lookupEntry raises: unlock and propagate. *)
EqRaised(w) ==
  /\ wr[w].pc = "lookup"
  /\ LookupAt(wr[w].t, wr[w].key).eq
  /\ Finish(w, "raised")
  /\ UNCHANGED <<cur, rd, version>>
  /\ UNCHANGED tbl

(* putItem after lookupEntry: the version check, then the branch taken.  *)
Lookup(w) ==
  LET x      == wr[w]
      t      == tbl[x.t]
      r      == LookupAt(x.t, x.key)
      absent == Absent(t, r)
  IN  /\ x.pc = "lookup"
      /\ IF VersionChanged(x)
         THEN Finish(w, "changed")
         ELSE CASE absent /\ x.val # Nil /\ NeedsGrow(x.t) ->
                     owner' = owner /\ SetW(w, [x EXCEPT !.pc = "grow"])
                [] absent /\ x.val # Nil ->
                     owner' = owner /\ SetW(w, [x EXCEPT !.pc = "wnEntry", !.slot = r.slot])
                [] absent ->
                     Finish(w, Nil)
                [] x.ow ->
                     owner' = owner
                     /\ SetW(w, [x EXCEPT !.pc = "wvStore", !.pos = r.pos,
                                          !.res = t.entries[r.pos].value])
                [] OTHER ->
                     Finish(w, t.entries[r.pos].value)
      /\ UNCHANGED <<cur, rd, tbl, version>>

(* A faulty grow whose overflow error returns without d.mutex.Unlock    *)
(* (putItem unlocks by hand on every return path, line 522).           *)
GrowOverflowNoUnlock(w) ==
  LET x     == wr[w]
      t     == tbl[cur]
      id    == FreeId
      grown == IF cur = NoTable THEN Blank ELSE GrowTable(t)
  IN  /\ x.pc = "grow"
      /\ CASE cur # NoTable /\ GrowSize(t) < 0 ->
                /\ owner' = owner
                /\ SetW(w, [x EXCEPT !.pc = "ret", !.res = "overflow", !.t = NoTable])
                /\ UNCHANGED cur /\ UNCHANGED tbl
           [] Overrun(grown) ->
                SetW(w, [x EXCEPT !.pc = "panic"]) /\ UNCHANGED <<cur, owner, tbl>>
           [] OTHER ->
                /\ cur' = id
                /\ owner' = owner
                /\ SetW(w, [x EXCEPT !.pc = "incVersion", !.t = id])
                /\ tbl' = [tbl EXCEPT ![id] =
                                    InsertAbsentEntry(grown, Entry(Hash[x.key], x.key, x.val))]
      /\ UNCHANGED <<rd, version>>

(* The table is full (or nil): growTable on d.table, insertAbsentEntry    *)
(* into the private new table, then the atomic storeTable.              *)
Grow(w) ==
  LET x     == wr[w]
      t     == tbl[cur]
      id    == FreeId
      grown == IF cur = NoTable THEN Blank ELSE GrowTable(t)
  IN  /\ x.pc = "grow"
      /\ CASE cur # NoTable /\ GrowSize(t) < 0 ->
                Finish(w, "overflow") /\ UNCHANGED cur /\ UNCHANGED tbl
           [] Overrun(grown) ->
                SetW(w, [x EXCEPT !.pc = "panic"]) /\ UNCHANGED <<cur, owner, tbl>>
           [] OTHER ->
                /\ cur' = id
                /\ owner' = owner
                /\ SetW(w, [x EXCEPT !.pc = "incVersion", !.t = id])
                /\ tbl' = [tbl EXCEPT ![id] =
                                    InsertAbsentEntry(grown, Entry(Hash[x.key], x.key, x.val))]
      /\ UNCHANGED <<rd, version>>

(* writeNewEntry, store 1: t.entries[t.fill] = *nentry. *)
WnEntry(w) ==
  LET x == wr[w]
  IN  /\ x.pc = "wnEntry"
      /\ tbl' = [tbl EXCEPT ![x.t].entries = Append(@, Entry(Hash[x.key], x.key, x.val))]
      /\ SetW(w, [x EXCEPT !.pc = IF tbl[x.t].mask # 0 THEN "wnIndex" ELSE "wnUsed"])
      /\ UNCHANGED <<cur, owner, rd, version>>

(* Faulty variant: the index stored at the first empty slot of the key's *)
(* probe chain instead of the slot lookupEntry returned, which for a key *)
(* re-inserted after a delete is the slot of its tombstone.             *)
WnIndexFreshSlot(w) ==
  LET x    == wr[w]
      t    == tbl[x.t]
      slot == Probe(t, Hash[x.key], Nil, Hash[x.key] % (t.mask + 1), Hash[x.key],
                    ProbeFuel, FALSE).slot
  IN  /\ x.pc = "wnIndex"
      /\ tbl' = [tbl EXCEPT ![x.t].indices[slot] = t.fill + 1]
      /\ SetW(w, [x EXCEPT !.pc = "wnUsed"])
      /\ UNCHANGED <<cur, owner, rd, version>>

(* Faulty variant: the index stored 0-based (eidx instead of eidx + 1). *)
WnIndexZeroBased(w) ==
  LET x == wr[w]
  IN  /\ x.pc = "wnIndex"
      /\ tbl' = [tbl EXCEPT ![x.t].indices[x.slot] = tbl[x.t].fill]
      /\ SetW(w, [x EXCEPT !.pc = "wnUsed"])
      /\ UNCHANGED <<cur, owner, rd, version>>

(* writeNewEntry, store 2: t.storeIndex(index, eidx + 1), atomic. *)
WnIndex(w) ==
  LET x == wr[w]
  IN  /\ x.pc = "wnIndex"
      /\ tbl' = [tbl EXCEPT ![x.t].indices[x.slot] = tbl[x.t].fill + 1]
      /\ SetW(w, [x EXCEPT !.pc = "wnUsed"])
      /\ UNCHANGED <<cur, owner, rd, version>>

(* writeNewEntry, store 3: t.incUsed(1). *)
WnUsed(w) ==
  LET x == wr[w]
  IN  /\ x.pc = "wnUsed"
      /\ tbl' = [tbl EXCEPT ![x.t].used = @ + 1]
      /\ SetW(w, [x EXCEPT !.pc = "wnFill"])
      /\ UNCHANGED <<cur, owner, rd, version>>

(* writeNewEntry, store 4: t.incFill(1). *)
WnFill(w) ==
  LET x == wr[w]
  IN  /\ x.pc = "wnFill"
      /\ tbl' = [tbl EXCEPT ![x.t].fill = @ + 1]
      /\ SetW(w, [x EXCEPT !.pc = "incVersion"])
      /\ UNCHANGED <<cur, owner, rd, version>>

(* Faulty variant: writeValue without the incUsed(-1) of a delete. *)
WvStoreNoUsedDec(w) ==
  LET x == wr[w]
  IN  /\ x.pc = "wvStore"
      /\ tbl' = [tbl EXCEPT ![x.t].entries[x.pos].value = x.val]
      /\ SetW(w, [x EXCEPT !.pc = "incVersion"])
      /\ UNCHANGED <<cur, owner, rd, version>>

(* writeValue / popitem, store 1: entry.storeValue(value). *)
WvStore(w) ==
  LET x == wr[w]
  IN  /\ x.pc = "wvStore"
      /\ tbl' = [tbl EXCEPT ![x.t].entries[x.pos].value = x.val]
      /\ SetW(w, [x EXCEPT !.pc = IF x.val = Nil THEN "wvUsed" ELSE "incVersion"])
      /\ UNCHANGED <<cur, owner, rd, version>>

(* writeValue / popitem, store 2 when the value is nil: t.incUsed(-1). *)
WvUsed(w) ==
  LET x == wr[w]
  IN  /\ x.pc = "wvUsed"
      /\ tbl' = [tbl EXCEPT ![x.t].used = @ - 1]
      /\ SetW(w, [x EXCEPT !.pc = "incVersion"])
      /\ UNCHANGED <<cur, owner, rd, version>>

(* d.incVersion(); after a delete putItem then tests for a shrink. *)
IncVersion(w) ==
  LET x == wr[w]
  IN  /\ x.pc = "incVersion"
      /\ version' = version + 1
      /\ IF x.op = "put" /\ x.val = Nil /\ ShrinkWanted(tbl[x.t])
         THEN owner' = owner /\ SetW(w, [x EXCEPT !.pc = "shrink"])
         ELSE Finish(w, x.res)
      /\ UNCHANGED <<cur, rd, tbl>>

(* The opportunistic shrink: growTable(t) and storeTable, no version     *)
(* bump; if growTable fails, d.mutex.Unlock and then the panic.        *)
Shrink(w) ==
  LET x  == wr[w]
      t  == tbl[x.t]
      id == FreeId
  IN  /\ x.pc = "shrink"
      /\ IF GrowSize(t) < 0
         THEN /\ owner' = NoOwner
              /\ SetW(w, [x EXCEPT !.pc = "panic"])
              /\ UNCHANGED <<cur, tbl>>
         ELSE /\ cur' = id
              /\ Finish(w, x.res)
              /\ tbl' = [tbl EXCEPT ![id] = GrowTable(t)]
      /\ UNCHANGED <<rd, version>>

(* Faulty variant: popitem tests fill instead of used for emptiness. *)
PopItemFillCheck(w) ==
  LET x    == wr[w]
      live == Live(tbl[cur])
  IN  /\ x.pc = "popitem"
      /\ CASE cur = NoTable ->
                SetW(w, [x EXCEPT !.pc = "panic"]) /\ UNCHANGED <<owner, tbl>>
           [] tbl[cur].fill = 0 ->
                Finish(w, "KeyError") /\ UNCHANGED tbl
           [] live = {} ->
                SetW(w, [x EXCEPT !.pc = "panic"]) /\ UNCHANGED <<owner, tbl>>
           [] OTHER ->
                /\ owner' = owner
                /\ SetW(w, [x EXCEPT !.pc = "wvStore", !.t = cur, !.pos = Max(live)])
                /\ UNCHANGED tbl
      /\ UNCHANGED <<cur, rd, version>>

(* dictPopItem under the lock: KeyError when used == 0, else the last    *)
(* live entry is cleared (then as writeValue with nil). d.table.used    *)
(* dereferences a nil table.                                            *)
PopItem(w) ==
  LET x    == wr[w]
      live == Live(tbl[cur])
  IN  /\ x.pc = "popitem"
      /\ CASE cur = NoTable ->
                SetW(w, [x EXCEPT !.pc = "panic"]) /\ UNCHANGED <<owner, tbl>>
           [] tbl[cur].used = 0 ->
                Finish(w, "KeyError") /\ UNCHANGED tbl
           [] live = {} ->
                SetW(w, [x EXCEPT !.pc = "panic"]) /\ UNCHANGED <<owner, tbl>>
           [] OTHER ->
                /\ owner' = owner
                /\ SetW(w, [x EXCEPT !.pc = "wvStore", !.t = cur, !.pos = Max(live)])
                /\ UNCHANGED tbl
      /\ UNCHANGED <<cur, rd, version>>

(* dictClear under the lock: d.table = newDictTable(0). *)
ClearTable(w) ==
  LET id == FreeId
  IN  /\ wr[w].pc = "clear"
      /\ cur' = id
      /\ SetW(w, [wr[w] EXCEPT !.pc = "incVersion"])
      /\ tbl' = [tbl EXCEPT ![id] = Blank]
      /\ UNCHANGED <<owner, rd, version>>

(* The call returns to its caller. *)
Return(w) ==
  /\ wr[w].pc = "ret"
  /\ SetW(w, IF wr[w].upd /\ wr[w].op = "put" /\ wr[w].res \in Vals \cup {Nil}
             THEN [wr[w] EXCEPT !.pc = "updNext"]
             ELSE IdleW)
  /\ UNCHANGED <<tbl, cur, owner, rd, version>>

(* Update(o) with o the Dict itself: under d2.mutex (d2 = d), a          *)
(* dictItemIterator is made over d's table with a guard on its version. *)
UpdIter(w) ==
  /\ wr[w].pc = "updIter"
  /\ owner = NoOwner
  /\ SetW(w, [wr[w] EXCEPT !.pc = "updNext", !.upd = TRUE, !.ut = cur, !.ui = 0,
                           !.ugv = version])
  /\ UNCHANGED <<tbl, cur, owner, rd, version>>

(* seqForEach: dictItemIteratorNext on the private iterator (its next()  *)
(* as one step: no other thread moves its index), then the guard; each  *)
(* item is passed to d.SetItem, a whole putItem(k, v, true).            *)
UpdNext(w) ==
  LET x      == wr[w]
      filled == FillOf(x.ut)
      found  == {q \in x.ui + 1..filled : tbl[x.ut].entries[q].value # Nil}
      p      == Min(found)
  IN  /\ x.pc = "updNext"
      /\ SetW(w, CASE version # x.ugv ->
                      [IdleW EXCEPT !.pc = "ret", !.op = "update", !.res = "iterChanged"]
                  [] found = {} ->
                      [IdleW EXCEPT !.pc = "ret", !.op = "update"]
                  [] OTHER ->
                      [x EXCEPT !.pc = "lock", !.op = "put", !.key = tbl[x.ut].entries[p].key,
                                !.val = tbl[x.ut].entries[p].value, !.ow = TRUE, !.ui = p])
      /\ UNCHANGED <<tbl, cur, owner, rd, version>>

-----------------------------------------------------------------------------
(* GetItem, lock-free: load the table pointer and run lookupEntry on it.  *)
(* Keys and hashes of written entries never change and slots only go    *)
(* from empty to an entry of the same key, so the probe behaves as if   *)
(* done at the instant of its last load; the table load is merged in    *)
(* because a replaced table is frozen.                                  *)
GetLookup(r) ==
  /\ rd[r].pc = "idle"
  /\ \E k \in Keys :
       /\ rd' = [rd EXCEPT ![r] = [pc |-> "load", key |-> k, tid |-> cur,
                                   pos |-> LookupAt(cur, k).pos]]
       /\ obs' = [obs EXCEPT ![r] = Vis(k)]
  /\ UNCHANGED <<tbl, cur, owner, wr, version, iterVars>>

(* GetItem, atomic load of the entry's value; the call returns. *)
GetLoad(r) ==
  /\ rd[r].pc = "load"
  /\ rd' = [rd EXCEPT ![r] = IdleR]
  /\ obs' = [obs EXCEPT ![r] = {}]
  /\ UNCHANGED <<cur, owner, wr, version, iterVars>>
  /\ UNCHANGED tbl

-----------------------------------------------------------------------------
IterLocals == <<tbl, cur, owner, wr, rd, version, obs, snaps, cmp, rp>>

(* dictIter (iterkeys), iteritems, itervalues: under d.mutex,            *)
(* newDictEntryIterator loads d.table and newDictVersionGuard loads      *)
(* d.version; the lock is released before the iterator is returned.    *)
NewIterator ==
  /\ Consumers # {}
  /\ ~it.made
  /\ owner = NoOwner
  /\ it' = [made |-> TRUE, tid |-> cur, index |-> 0, gv |-> version]
  /\ snaps' = {Content}
  /\ UNCHANGED <<tbl, cur, owner, wr, rd, version, obs, cs, ls, yl, cmp, rp>>

(* A consumer, a for loop over the shared iterator until StopIteration *)
(* or RuntimeError, calls next: dictIteratorNext calls iter.next(),     *)
(* which loads the fill of the iterator's table once.                   *)
IterNext(c) ==
  /\ it.made
  /\ cs[c].pc = "idle"
  /\ cs[c].res \in {"none", "item"}
  /\ cs' = [cs EXCEPT ![c] = [IdleC EXCEPT !.pc = "fetch", !.filled = FillOf(it.tid),
                                           !.res = cs[c].res]]
  /\ UNCHANGED <<it, ls, yl>> /\ UNCHANGED IterLocals

(* index := atomic.AddUint32(&iter.index, 1) - 1, then index >= filled. *)
IterFetch(c) ==
  LET x == cs[c]
  IN  /\ x.pc = "fetch"
      /\ it' = [it EXCEPT !.index = @ + 1]
      /\ cs' = [cs EXCEPT ![c] = [x EXCEPT !.idx = it.index,
                                  !.pc = IF it.index >= x.filled THEN "rollback" ELSE "load"]]
      /\ UNCHANGED <<ls, yl>> /\ UNCHANGED IterLocals

(* Past the end: atomic.AddUint32(&iter.index, ^uint32(0)) undoes the   *)
(* increment and next returns nil, nil.                                 *)
IterRollback(c) ==
  /\ cs[c].pc = "rollback"
  /\ it' = [it EXCEPT !.index = @ - 1]
  /\ cs' = [cs EXCEPT ![c].pc = "check"]
  /\ UNCHANGED <<ls, yl>> /\ UNCHANGED IterLocals

(* A faulty load that returns a tombstone as an entry. *)
IterLoadNoSkip(c) ==
  LET x == cs[c]
      e == tbl[it.tid].entries[x.idx + 1]
  IN  /\ x.pc = "load"
      /\ cs' = [cs EXCEPT ![c] = [x EXCEPT !.pc = "check", !.key = e.key, !.val = e.value]]
      /\ UNCHANGED <<it, ls, yl>> /\ UNCHANGED IterLocals

(* entry.loadValue(): a live entry is returned, a tombstone skipped. *)
IterLoad(c) ==
  LET x == cs[c]
      e == tbl[it.tid].entries[x.idx + 1]
  IN  /\ x.pc = "load"
      /\ cs' = [cs EXCEPT ![c] = IF e.value # Nil
                                 THEN [x EXCEPT !.pc = "check", !.key = e.key, !.val = e.value]
                                 ELSE [x EXCEPT !.pc = "fetch"]]
      /\ UNCHANGED <<it, ls, yl>> /\ UNCHANGED IterLocals

(* A faulty guard that never sees a change, then dictVersionGuard.check. *)
GuardAlwaysOK == TRUE

GuardOK == version = it.gv

(* dictIteratorNext after next(): RuntimeError when the guard fails,     *)
(* even past the end; StopIteration on nil; else the key/item.          *)
IterCheck(c) ==
  LET x == cs[c]
  IN  /\ x.pc = "check"
      /\ cs' = [cs EXCEPT ![c] = [IdleC EXCEPT !.res = CASE ~GuardOK  -> "error"
                                                       [] x.key = Nil -> "stop"
                                                       [] OTHER       -> "item"]]
      /\ yl' = IF GuardOK /\ x.key # Nil
               THEN yl (+) SetToBag({<<x.idx, x.key, x.val>>})
               ELSE yl
      /\ UNCHANGED <<it, ls>> /\ UNCHANGED IterLocals

(* Keys, first loads: d.table and its fill, then its used. A faulty     *)
(* variant loads used before fill.                                      *)
KeysLoadUsedFirst(l) ==
  \/ /\ ls[l].pc = "idle"
     /\ ls' = [ls EXCEPT ![l] = [IdleL EXCEPT !.pc = "loadUsed", !.tid = cur,
                                              !.used = UsedOf(cur)]]
  \/ /\ ls[l].pc = "loadUsed"
     /\ ls' = [ls EXCEPT ![l].pc = "scan", ![l].fill = FillOf(ls[l].tid)]

KeysLoad(l) ==
  \/ /\ ls[l].pc = "idle"
     /\ ls' = [ls EXCEPT ![l] = [IdleL EXCEPT !.pc = "loadUsed", !.tid = cur,
                                              !.fill = FillOf(cur)]]
  \/ /\ ls[l].pc = "loadUsed"
     /\ ls' = [ls EXCEPT ![l].pc = "scan", ![l].used = UsedOf(ls[l].tid)]

KeysLoadStep(l) == KeysLoad(l) /\ UNCHANGED <<it, cs, yl>> /\ UNCHANGED IterLocals

(* Keys, one entry of entries[:fill]: a live one is stored at keys[i]   *)
(* of the slice made with length used (an index out of range panics).   *)
KeysScan(l) ==
  LET x == ls[l]
  IN  /\ x.pc = "scan"
      /\ ls' = [ls EXCEPT ![l] =
                  IF x.k = x.fill THEN IdleL
                  ELSE CASE tbl[x.tid].entries[x.k + 1].value = Nil -> [x EXCEPT !.k = @ + 1]
                         [] x.n < x.used -> [x EXCEPT !.k = @ + 1, !.n = @ + 1]
                         [] OTHER -> [x EXCEPT !.pc = "panic"]]
      /\ UNCHANGED <<it, cs, yl>> /\ UNCHANGED IterLocals

-----------------------------------------------------------------------------
(* d as a map, and whether it equals d2. *)
ContentMap == [k \in {Content[j][1] : j \in DOMAIN Content} |-> ContentVal(k)]

SameAsOther == ContentMap = Other

CmpLocals == <<tbl, cur, owner, wr, rd, version, obs, it, cs, ls, yl, snaps, rp>>

(* A faulty start that takes the fill of d's table for its length. *)
CmpStartFillAsLen(q) ==
  LET len1 == FillOf(cur)
  IN  /\ cmp[q].pc = "idle"
      /\ owner = NoOwner
      /\ cmp' = [cmp EXCEPT ![q] =
                  [IdleQ EXCEPT !.pc = IF len1 # Cardinality(DOMAIN Other) THEN "idle" ELSE "next",
                                !.res = IF len1 # Cardinality(DOMAIN Other) THEN "false" ELSE "true",
                                !.tid = cur, !.g = version, !.seen = {SameAsOther}]]
      /\ UNCHANGED CmpLocals

(* dictsAreEqual(d, d2), d # d2: under d.mutex an entry iterator, the   *)
(* guard g1 and len1 = d.Len(); under d2.mutex (d2 is not modified) g2  *)
(* and len2. Different lengths return false at once, without a check.   *)
CmpStart(q) ==
  LET len1 == UsedOf(cur)
  IN  /\ cmp[q].pc = "idle"
      /\ owner = NoOwner
      /\ cmp' = [cmp EXCEPT ![q] =
                  [IdleQ EXCEPT !.pc = IF len1 # Cardinality(DOMAIN Other) THEN "idle" ELSE "next",
                                !.res = IF len1 # Cardinality(DOMAIN Other) THEN "false" ELSE "true",
                                !.tid = cur, !.g = version, !.seen = {SameAsOther}]]
      /\ UNCHANGED CmpLocals

(* One turn of the loop without a lock: iter.next() on the private       *)
(* iterator (one step: no other thread moves its index), d2.GetItem(key) *)
(* and Eq(value, v); a missing key or a different value ends the loop   *)
(* with result false.                                                   *)
CmpNext(q) ==
  LET x     == cmp[q]
      found == {p \in x.idx + 1..FillOf(x.tid) : tbl[x.tid].entries[p].value # Nil}
      e     == tbl[x.tid].entries[Min(found)]
  IN  /\ x.pc = "next"
      /\ cmp' = [cmp EXCEPT ![q] =
                  CASE found = {} -> [x EXCEPT !.pc = "check", !.tid = NoTable, !.idx = 0]
                    [] e.key \in DOMAIN Other /\ Other[e.key] = e.value ->
                         [x EXCEPT !.idx = Min(found)]
                    [] OTHER -> [x EXCEPT !.pc = "check", !.tid = NoTable, !.idx = 0,
                                          !.res = "false"]]
      /\ UNCHANGED CmpLocals

(* After the walk: RuntimeError if g1 (or g2) fails, else the result. *)
CmpCheck(q) ==
  LET x == cmp[q]
  IN  /\ x.pc = "check"
      /\ cmp' = [cmp EXCEPT ![q] = [x EXCEPT !.pc = "idle", !.g = 0,
                                     !.res = IF version # x.g THEN "changed" ELSE x.res]]
      /\ UNCHANGED CmpLocals

-----------------------------------------------------------------------------
(* Every writer step adds to each pending reader's history what its key  *)
(* may be seen holding after the step, and to the iterator's history the *)
(* content after the step.                                              *)
History ==
  /\ obs' = [r \in Readers |-> IF rd[r].pc = "load"
                               THEN obs[r] \cup (Vis(rd[r].key))'
                               ELSE obs[r]]
  /\ snaps' = IF it.made THEN snaps \cup {Content'} ELSE snaps
  /\ cmp' = [q \in Comparers |-> IF cmp[q].pc = "idle" THEN cmp[q]
                                 ELSE [cmp[q] EXCEPT !.seen = @ \cup {SameAsOther'}]]

ReprTrack == [p \in Reprs |-> IF rp[p].pc = "idle" THEN rp[p]
                              ELSE [rp[p] EXCEPT !.seen = @ \cup {Content'}]]

ObsTrack == History /\ rp' = ReprTrack /\ UNCHANGED <<it, cs, ls, yl>>

-----------------------------------------------------------------------------
ReprLocals == <<tbl, cur, wr, rd, version, obs, it, cs, ls, yl, snaps, cmp>>

(* A faulty repr that walks d without taking d.mutex. *)
ReprLockNoMutex(p) ==
  /\ rp[p].pc = "idle"
  /\ owner = NoOwner
  /\ owner' = owner
  /\ rp' = [rp EXCEPT ![p] = [IdleP EXCEPT !.pc = "next", !.tid = cur, !.seen = {Content}]]
  /\ UNCHANGED ReprLocals

(* dictRepr: f.reprEnter(d) is false for a call not nested in a repr of *)
(* d (a nested one returns "{...}" and leaves d alone); d.mutex.Lock,    *)
(* then newDictEntryIterator(d) loads d.table.                           *)
ReprLock(p) ==
  /\ rp[p].pc = "idle"
  /\ owner = NoOwner
  /\ owner' = p
  /\ rp' = [rp EXCEPT ![p] = [IdleP EXCEPT !.pc = "next", !.tid = cur, !.seen = {Content}]]
  /\ UNCHANGED ReprLocals

(* iter.next() on the private iterator (one step: nobody else moves its *)
(* index, and d only changes between calls). nil ends the loop: "}" is  *)
(* written and the deferred Unlock releases d.mutex.                     *)
ReprNext(p) ==
  LET x     == rp[p]
      found == {q \in x.idx + 1..FillOf(x.tid) : tbl[x.tid].entries[q].value # Nil}
      e     == tbl[x.tid].entries[Min(found)]
  IN  /\ x.pc = "next"
      /\ IF found = {}
         THEN /\ owner' = NoOwner
              /\ rp' = [rp EXCEPT ![p] = [x EXCEPT !.pc = "idle", !.tid = NoTable, !.res = "ok"]]
         ELSE /\ owner' = owner
              /\ rp' = [rp EXCEPT ![p] = [x EXCEPT !.pc = "repr", !.idx = Min(found),
                                                   !.out = Append(@, <<e.key, e.value>>)]]
      /\ UNCHANGED ReprLocals

(* Repr(f, key) and Repr(f, value): the user __repr__ returns, raises   *)
(* (the deferred Unlock runs), or re-enters d with a whole SetItem or   *)
(* DelItem on this thread, which holds the recursive mutex.              *)
ReprCall(p) ==
  LET x == rp[p]
  IN  /\ x.pc = "repr"
      /\ \/ /\ rp' = [rp EXCEPT ![p].pc = "next"]
            /\ UNCHANGED owner /\ UNCHANGED ReprLocals
         \/ /\ owner' = NoOwner
            /\ rp' = [rp EXCEPT ![p] = [x EXCEPT !.pc = "idle", !.tid = NoTable, !.res = "raised"]]
            /\ UNCHANGED ReprLocals
         \/ /\ x.nw < MaxReprWrites
            /\ \E k \in Keys, v \in Vals \cup {Nil} :
                 LET n == SeqPut(k, v)
                 IN  /\ cur' = n.cur
                     /\ tbl' = n.tbl
                     /\ version' = IF n.bumped THEN version + 1 ELSE version
            /\ History
            /\ rp' = [ReprTrack EXCEPT ![p].nw = @ + 1]
            /\ UNCHANGED <<owner, wr, rd, it, cs, ls, yl>>

Init ==
  /\ tbl = [id \in TableIds |-> Blank]
  /\ cur = IF NewDictInit THEN NoTable ELSE CHOOSE id \in TableIds : TRUE
  /\ owner = NoOwner
  /\ version = 0
  /\ wr = [w \in Writers |-> IdleW]
  /\ rd = [r \in Readers |-> IdleR]
  /\ obs = [r \in Readers |-> {}]
  /\ it = [made |-> FALSE, tid |-> NoTable, index |-> 0, gv |-> 0]
  /\ cs = [c \in Consumers |-> IdleC]
  /\ ls = [l \in Listers |-> IdleL]
  /\ yl = EmptyBag
  /\ snaps = {}
  /\ cmp = [q \in Comparers |-> IdleQ]
  /\ rp = [p \in Reprs |-> IdleP]

Next ==
  \/ \E w \in Writers : Start(w) /\ ObsTrack
  \/ \E w \in Writers : Lock(w) /\ ObsTrack
  \/ \E w \in Writers : Reenter(w) /\ ObsTrack
  \/ \E w \in Writers : EqRaised(w) /\ ObsTrack
  \/ \E w \in Writers : Lookup(w) /\ ObsTrack
  \/ \E w \in Writers : Grow(w) /\ ObsTrack
  \/ \E w \in Writers : WnEntry(w) /\ ObsTrack
  \/ \E w \in Writers : WnIndex(w) /\ ObsTrack
  \/ \E w \in Writers : WnUsed(w) /\ ObsTrack
  \/ \E w \in Writers : WnFill(w) /\ ObsTrack
  \/ \E w \in Writers : WvStore(w) /\ ObsTrack
  \/ \E w \in Writers : WvUsed(w) /\ ObsTrack
  \/ \E w \in Writers : IncVersion(w) /\ ObsTrack
  \/ \E w \in Writers : Shrink(w) /\ ObsTrack
  \/ \E w \in Writers : PopItem(w) /\ ObsTrack
  \/ \E w \in Writers : ClearTable(w) /\ ObsTrack
  \/ \E w \in Writers : Return(w) /\ ObsTrack
  \/ \E w \in Writers : UpdIter(w) /\ ObsTrack
  \/ \E w \in Writers : UpdNext(w) /\ ObsTrack
  \/ \E r \in Readers : GetLookup(r) \/ GetLoad(r)
  \/ NewIterator
  \/ \E c \in Consumers : IterNext(c)
  \/ \E c \in Consumers : IterFetch(c)
  \/ \E c \in Consumers : IterRollback(c)
  \/ \E c \in Consumers : IterLoad(c)
  \/ \E c \in Consumers : IterCheck(c)
  \/ \E l \in Listers : KeysLoadStep(l)
  \/ \E l \in Listers : KeysScan(l)
  \/ \E q \in Comparers : CmpStart(q)
  \/ \E q \in Comparers : CmpNext(q)
  \/ \E q \in Comparers : CmpCheck(q)
  \/ \E p \in Reprs : ReprLock(p)
  \/ \E p \in Reprs : ReprNext(p)
  \/ \E p \in Reprs : ReprCall(p)

Spec == Init /\ [][Next]_vars

(* A writer holding d.mutex and a repr walking under it run on without  *)
(* waiting: putItem, popitem, clear and dictRepr block on nothing       *)
(* between Lock and Unlock, callbacks return (re-entry is bounded), and *)
(* the Go scheduler keeps running a runnable goroutine.                 *)
HeldStep(w) ==
  /\ \/ Reenter(w) \/ EqRaised(w) \/ Lookup(w) \/ Grow(w) \/ WnEntry(w) \/ WnIndex(w)
     \/ WnUsed(w) \/ WnFill(w) \/ WvStore(w) \/ WvUsed(w) \/ IncVersion(w) \/ Shrink(w)
     \/ PopItem(w) \/ ClearTable(w)
  /\ ObsTrack

ReprStep(p) == ReprNext(p) \/ ReprCall(p)

FairSpec ==
  /\ Spec
  /\ \A w \in Writers : WF_vars(HeldStep(w))
  /\ \A p \in Reprs : WF_vars(ReprStep(p))

-----------------------------------------------------------------------------
TableOK(t) ==
  /\ IsPowerOfTwo(t.capa) /\ t.capa \in MinDictSize..MaxDictSize
  /\ t.mask \in {0, 2 * t.capa - 1}
  /\ DOMAIN t.indices = (IF t.mask = 0 THEN {} ELSE 0..t.mask)
  /\ \A i \in DOMAIN t.indices : t.indices[i] \in 0..Len(t.entries)
  /\ Len(t.entries) <= t.capa
  /\ \A p \in DOMAIN t.entries :
       t.entries[p].key \in Keys /\ t.entries[p].value \in Vals \cup {Nil}
  /\ t.used \in 0..t.capa
  /\ t.fill \in 0..Len(t.entries)

WriterPCs == {"idle", "lock", "lookup", "grow", "wnEntry", "wnIndex", "wnUsed",
              "wnFill", "wvStore", "wvUsed", "incVersion", "shrink", "popitem",
              "clear", "ret", "panic", "updIter", "updNext"}

TypeOK ==
  /\ \A id \in TableIds : TableOK(tbl[id])
  /\ cur \in TableIds \cup {NoTable}
  /\ owner \in Writers \cup Reprs \cup {NoOwner}
  /\ version \in Nat
  /\ \A w \in Writers : wr[w].pc \in WriterPCs /\ wr[w].t \in TableIds \cup {NoTable}
  /\ \A r \in Readers : rd[r].pc \in {"idle", "load"} /\ rd[r].tid \in TableIds \cup {NoTable}
  /\ \A r \in Readers : obs[r] \subseteq Vals \cup {Nil}
  /\ it.tid \in TableIds \cup {NoTable} /\ it.index \in Nat
  /\ \A c \in Consumers :
       /\ cs[c].pc \in {"idle", "fetch", "rollback", "load", "check"}
       /\ cs[c].res \in {"none", "item", "stop", "error"}
  /\ \A l \in Listers :
       ls[l].pc \in {"idle", "loadUsed", "scan", "panic"} /\ ls[l].n <= ls[l].k
  /\ \A q \in Comparers :
       cmp[q].pc \in {"idle", "next", "check"} /\ cmp[q].res \in {"none", "true", "false", "changed"}
  /\ \A p \in Reprs :
       rp[p].pc \in {"idle", "next", "repr"} /\ rp[p].res \in {"none", "ok", "raised"}

(* Whenever no writer holds the lock, the published table is consistent: *)
(* entries[1..fill] are exactly the written ones, used counts the live   *)
(* ones, and lookupEntry from each live entry's hash and key finds that  *)
(* very entry (reverse scan, or the probe chain through indices). This   *)
(* is what growTable/insertAbsentEntry, writeNewEntry's index reuse and  *)
(* the re-entrancy check of putItem must preserve together.             *)
TableWellFormed ==
  owner = NoOwner /\ cur # NoTable =>
    LET t == tbl[cur]
    IN  /\ Len(t.entries) = t.fill
        /\ t.used = Cardinality(Live(t))
        /\ \A p \in Live(t) :
             LookupEntry(t, t.fill, t.entries[p].hash, t.entries[p].key).pos = p

(* No thread reaches a panic: insertAbsentEntry's "overrun", putItem's   *)
(* "some unknown error on downsizing dictionary", popitem's "there shall *)
(* be at least one item", or a nil-pointer dereference of d.table.      *)
NoPanic == \A w \in Writers : wr[w].pc # "panic"

(* The counters of the published table, which Len and Keys read without *)
(* the lock, satisfy used <= fill (the comment on dictTable.fill, and    *)
(* invariant 1 of the design). writeNewEntry increments used before     *)
(* fill, so this is expected to fail between the two atomic adds.        *)
UsedWithinFill == cur # NoTable => tbl[cur].used <= tbl[cur].fill

(* The Dict, read through its published table, behaves as an atomic     *)
(* insertion-ordered map: every step of writers, nested writes, growth,  *)
(* shrinking and clear is one map operation or leaves the map alone.     *)
Abstract == INSTANCE DictAbstract WITH items <- Content

DictRefinesAbstract == Abstract!Spec

(* A putItem that returns without error has done its write on the table *)
(* that is published when it returns: SetItem's value, DelItem's nil, or *)
(* setdefault's inserted default or the value it found. A write into a  *)
(* table a re-entrant callback replaced would be lost.                  *)
WriteTakesEffect ==
  [][\A w \in Writers :
       (/\ wr[w].pc \notin {"idle", "ret"}
        /\ wr'[w].pc = "ret"
        /\ wr[w].op = "put"
        /\ wr'[w].res \in Vals \cup {Nil})
       => ContentVal(wr[w].key)' =
            IF wr[w].ow \/ wr'[w].res = Nil THEN wr[w].val ELSE wr'[w].res]_vars

(* A lock-free GetItem returns a value its key held at some instant of   *)
(* the call (or that a writer was publishing for it): never the value   *)
(* of another key, a tombstone's stale miss, or a value already replaced *)
(* before the call began.                                               *)
GetReturnsVisibleValue ==
  [][\A r \in Readers :
       (rd[r].pc = "load" /\ rd'[r].pc = "idle") => LoadedValue(r) \in obs[r]]_vars


(* Keys never panics: the live entries it finds below the fill it loaded *)
(* never outnumber the used it loaded after (the comment in Keys: used  *)
(* is incremented before fill and decremented after the value store).   *)
KeysFit == \A l \in Listers : ls[l].pc # "panic"

(* The items the iterator yielded, in entry order. *)
YieldedItems ==
  LET s == SetToSortSeq(BagToSet(yl), LAMBDA a, b : a[1] < b[1])
  IN  [j \in DOMAIN s |-> <<s[j][2], s[j][3]>>]

(* When every thread sharing the iterator has ended its loop with       *)
(* StopIteration (so the guard held at each of its calls), together they *)
(* have got every entry position at most once and exactly the Dict's   *)
(* content at some instant since the iterator was made: the fetch-add  *)
(* and rollback of the shared index, the single load of fill and the    *)
(* version guard let no torn or duplicated view through.               *)
IterSnapshot ==
  (it.made /\ \A c \in Consumers : cs[c].res = "stop")
  => /\ \A y \in BagToSet(yl) : CopiesIn(y, yl) = 1
     /\ YieldedItems \in snaps

(* Repeated exhaustion is idempotent (the rollback of the index, design *)
(* 4.3 step 2): once next() on the iterator has raised StopIteration,   *)
(* no later next() on it yields an item.                                *)
ExhaustedStaysExhausted ==
  [][(\E d \in Consumers : cs[d].res = "stop")
       => \A c \in Consumers : ~(cs[c].pc = "check" /\ cs'[c].res = "item")]_vars

(* d.update(d) returns normally and leaves d as it was: update(other)   *)
(* leaves self equal to the merge with other overriding (design 5).     *)
UpdateSelfSucceeds == \A w \in Writers : wr[w].res # "iterChanged"

(* dictsAreEqual answers false only if d differed from d2 at some       *)
(* instant of the call: its length under the lock, or a live entry the  *)
(* unlocked walk loaded below a fill it had loaded.                     *)
EqualFalseJustified ==
  \A q \in Comparers : cmp[q].pc = "idle" /\ cmp[q].res = "false" => FALSE \in cmp[q].seen

(* dictsAreEqual answers true only if d equalled d2 at some instant of  *)
(* the call ("if either d1 or d2 are concurrently modified then        *)
(* RuntimeError is raised").                                            *)
EqualTrueJustified ==
  \A q \in Comparers : cmp[q].pc = "idle" /\ cmp[q].res = "true" => TRUE \in cmp[q].seen

(* d.mutex is always released again: every return path of putItem      *)
(* unlocks by hand (lines 499, 505, 522, 550; no defer, to keep putItem *)
(* fast), popitem, clear and repr by defer, and nothing between Lock and *)
(* Unlock waits, so a thread that holds the lock lets it go.            *)
LockReleased == owner # NoOwner ~> owner = NoOwner

(* repr(d) prints a state d was actually in: dictRepr locks d "so that  *)
(* we get a consistent view of it. Otherwise we may return a state that *)
(* d was never actually in". A call that returns normally has printed    *)
(* the content d had at some instant of the call.                       *)
ReprWasAState == \A p \in Reprs : rp[p].res = "ok" => rp[p].out \in rp[p].seen

(* What the lock does give: a repr that returns normally, and whose own *)
(* __repr__ calls did not write to d, printed a state d was in, although *)
(* a writer thread races it and earlier repr calls wrote to d.          *)
ReprUnwrittenWasAState ==
  \A p \in Reprs : rp[p].res = "ok" /\ rp[p].nw = 0 => rp[p].out \in rp[p].seen

=============================================================================
