# TLA+ models of grumpy's `Dict` (runtime/dict.go)

`src/grumpy-runtime-src/runtime/dict.go` implements Python's `dict` for the
grumpy runtime. It is an insertion-ordered hash table. Writers are serialised by
a recursive mutex. Readers take no lock and rely on atomic loads and the order in
which writers publish their stores. This directory holds TLA+ modules for the
table algorithms and for the concurrent container, the TLC configurations that
check them, and `PROJECT.json`, which maps every definition to the source lines
it models.

## 1. Inventory of the system

### Components and their state

| Component | State in the code | Operations that change it |
|---|---|---|
| **Table** (`dictTable`, `dictEntry`) | `entries` (an insertion-order array of `hash,key,value`); `indices` (an open-addressing hash part, 1-based, 0 = empty, nil when `capa <= 8`); `used` (live entries); `fill` (slots ever written); `capa`; `mask` | `newDictTable`, `insertAbsentEntry`, `writeNewEntry`, `writeValue`, `growTable`; the read-only `lookupEntry`, `dictNextIndex` |
| **Container** (`Dict`) | `table` (an atomic pointer, nil for `NewDict()`); `mutex` (recursive); `version` (int64, atomic) | `putItem` (behind `SetItem`, `DelItem`, `Pop`, `setdefault`), `dictPopItem`, `dictClear`; lock-free `GetItem`, `Len`, `Keys` |
| **Iterators** | `dictEntryIterator{index, table}`, `dictVersionGuard{dict, version}` | `next` (atomic fetch-add and rollback), `dictIteratorNext` (guard check) |
| **Equality** | none of its own | `dictsAreEqual`: lock d1, snapshot, unlock; lock d2, snapshot, unlock; lock-free lookups in d2 |
| **Update / copy / init** | none of their own | loops of `SetItem` over an iterator |
| **repr** (`dictRepr`) | none of its own | under the lock, a private entry iterator and a `Repr` call on each key and value |
| **Recursive mutex** (outside `src/`) | owner thread, depth | `Lock`, `Unlock` |

### Interactions

- A writer locks the mutex, snapshots `t = d.table` and `v = d.version`, and
  runs `lookupEntry`. `lookupEntry` calls the user's `__eq__` on every entry
  with the same hash. That callback may re-enter the same `Dict` on the same
  thread (the mutex is recursive), or it may raise. `putItem` then compares the
  version, chooses a branch, and either writes into the published table or
  builds a new table and publishes it with one atomic pointer store.
- A reader (`GetItem`) loads `d.table`, walks the probe chain (hashed table) or
  scans `entries[fill-1..0]` (small table), and atomically loads the entry's
  value. It relies on four things:
  - keys and hashes never change after they are written;
  - an index is stored only after its entry;
  - `fill` is incremented only after the entry is written;
  - a replaced table is never written again.

### Behaviours that make it hard

- Re-entrant writes from `__eq__` in the middle of `putItem` (line 497). The
  version check (line 502) is the only defence.
- Lock-free readers interleaved with each atomic store of `writeNewEntry`
  (lines 257-268) and `writeValue` (lines 274-279).
- Tombstones: a deleted entry keeps its key. A re-inserted key gets a new entry,
  and its index overwrites the tombstone's slot (line 263). Small tables are
  scanned in reverse (line 207).
- Growth, the small-to-hashed switch, the opportunistic shrink with its integer
  arithmetic (line 539), and overflow at `maxDictSize`.
- `NewDict()` leaves `table` nil. Every path must handle a nil table.
- `repr` holds the lock while it calls `Repr` on keys and values (line 891).
  A `__repr__` may write to the same dict on the same thread.

The full list, each hazard at its source line, is the `hazards` section of
`PROJECT.json`.

### Properties wanted (from the code's comments and the design)

- The table stays consistent:
  - `used` counts the live entries;
  - `fill` counts the written ones;
  - every live entry is found by `lookupEntry` from its own hash and key.
- The `Dict` behaves as an atomic insertion-ordered map:
  - a set of a present key replaces its value in place;
  - a set of an absent or deleted key appends it;
  - `clear` empties the map.
- A `putItem` that returns without error took effect on the published table.
- A lock-free `get` returns a value the key really held during the call.
- No panics: overrun, downsizing, `popitem`'s "at least one item", and nil
  dereferences.
- The algorithms are correct: the capacity rounding, and the probe sequence
  reaching every slot.

## 2. Modules

| Module | Models | Notes |
|---|---|---|
| `DictTable` | The table functions as pure operators over a table record `[capa, mask, indices, entries, used, fill]` | `entries` holds only the written prefix, and `indices` has an empty domain when there is no hash part. No variables. |
| `DictTableAlgo` | The probe loop (`dictNextIndex`) step by step | Checks that it visits every slot within `ProbeFuel` steps. |
| `DictCapacity` | `newDictTable`'s capacity and mask | Compared with a reference definition for every request 0..300 and around every power of two up to 2^30. |
| `DictAbstract` | What a `Dict` promises, with atomic operations | A sequence of `<<key, value>>` with `Set`, `Delete`, `Clear`. |
| `Dict` | The container: writer threads step by step, lock-free readers, re-entrant callbacks, consumers sharing one iterator, `Keys`, `dictsAreEqual`, `d.update(d)` and `repr` | Composes `DictTable`. Refines `DictAbstract` through `Content`. |
| `MCDict` | Model values, the hash function and the other dict `Other` for `Dict` | `k1` and `k3` share hash 3. `k2` has hash 11, which has the same low bits as 3 but a different perturb. |
| `MCDictAlgo` | The two algorithm modules side by side | Each behaviour checks one input of one of them. |
| `MCDictSize` | `MCDict`, `DictTableAlgo` and `DictCapacity` as one disjoint union | The size limits in one model; see `dict_overflow`. |

### How `Dict` corresponds to the code

- **State.**
  - `tbl` holds the allocated tables, indexed by table ids.
  - `cur` is `d.table`; `NoTable` stands for nil.
  - `owner` is the mutex.
  - `wr[w]` is the program counter and the locals of writer thread `w`: op, key,
    val, overwrite flag `ow`, snapshot table `t`, `vok`, slot, pos, result, and
    the re-entry count.
  - `rd[r]` is the same for reader `r`.
  - `obs` is a history variable: the values reader `r`'s key held while its
    `GetItem` ran.
- **The version.** `version` is `d.version`, a natural number that only grows.
  A writer's snapshot `v`, the iterator's guard `it.gv`, `Update`'s guard `ugv`
  and a comparer's `g` are copies of it, compared the way the code compares
  them. `DictView` keeps only the differences, so the unbounded count is not
  part of a state.
- **Iterators.** `it` is the one shared `dictEntryIterator` and its
  `dictVersionGuard`: `made`, `tid` (its table), `index`, `gv`. `cs[c]` holds
  the locals of consumer thread `c` inside `dictIteratorNext`. `yl` is a bag of
  the `<<index, key, value>>` items yielded, and `snaps` is a history variable:
  every content the dict had since the iterator was made.
- **Keys.** `ls[l]` holds the locals of lister thread `l` inside `Keys`:
  table, `fill`, `used`, the scan index `k` and the live count `n`.
- **Equality.** `cmp[q]` holds the locals of `dictsAreEqual(d, d2)` for thread
  `q`. `d2` is the constant map `Other`, which no thread writes. `seen` is a
  history variable: whether d equalled `Other` at each instant of the call.
- **Repr.** `rp[p]` holds the locals of `dictRepr` for thread `p`: the
  iterator's table and index, the `<<key, value>>` pairs printed so far (`out`,
  the text without its formatting), the number of writes its `__repr__` calls
  made, and the result. `seen` is a history variable: every content d had
  during the call.
- **Writer actions.** There is one action per step between two points another
  thread can observe:
  - `Start` chooses the call: `SetItem`, `DelItem`/`Pop`, `setdefault`,
    `popitem` or `clear`.
  - `Lock` takes the mutex (lines 492-496).
  - `Reenter` and `EqRaised` are the callbacks of `lookupEntry`.
  - `Lookup` is the version check and the branch (lines 502-536).
  - `Grow` covers `growTable`, `insertAbsentEntry` and `storeTable`, or the
    overflow error.
  - `WnEntry`, `WnIndex`, `WnUsed` and `WnFill` are the four stores of
    `writeNewEntry`.
  - `WvStore` and `WvUsed` are the two stores of `writeValue`.
  - `IncVersion` also makes the shrink test.
  - `Shrink`, `PopItem`, `ClearTable`, and `Return`.
  - `UpdIter` is `Update(d, d)`'s iterator, made under the lock (lines
    573-579). `UpdNext` is one `next()` of that iterator with its guard; it
    hands the item to the `SetItem` path (`Lock` ... `Return`). `Return` goes
    back to `UpdNext` while an update is running.
- **Consumer actions** (`dictIteratorNext` on a shared iterator, which takes no
  lock): `NewIterator` is `dictIter` (lines 796-802). Then `IterNext` loads
  `fill` (322), `IterFetch` is the atomic fetch-add (324), `IterRollback` is
  the rollback at exhaustion (326), `IterLoad` is the value load (330), and
  `IterCheck` is the guard check and the result (1152-1158).
- **Lister actions** (`Keys`): `KeysLoad` loads the table, then `fill`, then
  `used`, as two steps (461-464). `KeysScan` is one entry of the loop; a live
  entry past `used` slots is the index-out-of-range panic of `keys[i]`.
- **Comparer actions** (`dictsAreEqual`): `CmpStart` is the locked prefix and
  the length test (604-616), `CmpNext` one step of the walk with the lookup in
  `d2` (618-633), and `CmpCheck` the final guard check (634-637).
- **Repr actions** (`dictRepr`): `ReprLock` takes the mutex and makes the
  entry iterator (873-886). `ReprNext` is one `iter.next()` (887-890); it runs
  as one step because only this thread moves the index, and the lock keeps
  other writers out. At the end of the walk it also releases the lock.
  `ReprCall` stands for the two `Repr` calls of one item (891-901). Each call
  either returns, or raises (the deferred `Unlock` runs), or writes to d with a
  whole `SetItem`/`DelItem` on this thread. `MaxReprWrites` bounds those writes.
  `f.reprEnter` is false for a call that is not nested in a `repr` of d. A
  nested call returns `{...}` and does not touch d.
- **What runs atomically.** Work done on a table no other thread can see yet
  (`growTable` and `insertAbsentEntry` into the new table) is part of the step
  that publishes it.
- **Nested writes.** A nested write by a callback is applied whole (`SeqPut`):
  it runs on the lock holder's thread, so no other writer can interleave.
  `MaxReentry` bounds how many one `putItem` sees.
- **Readers.** `GetLookup` is the table load and the probe, as one step.
  `GetLoad` is the atomic value load. A probe can be one step because:
  - keys and hashes of written entries never change;
  - an index slot only goes from empty to an entry of the same key's chain;
  - a table the reader holds after it was replaced is never written again.
- **Memory.** Table ids are reused once no thread refers to a table. This is
  what the host GC provides. `DictView` (the runs' `VIEW`) names tables by their
  role: the current one, a writer's snapshot, or a frozen one a reader holds.
  For a frozen table it keeps only the value the reader will load, so histories
  that differ only in garbage are one state.

## 3. Runs

| Run | Config | What it checks |
|---|---|---|
| `dict_small` | `MCDict_small.cfg`: keys {k1,k2}, values {v1,v2}, 1 writer, 1 reader, `MaxReentry` 1, small tables only | `TypeOK`, `TableWellFormed`, `NoPanic`, `DictRefinesAbstract`, `WriteTakesEffect`, `GetReturnsVisibleValue` |
| `dict_hashed` | as above, with `MaxDictWithoutHashSize` 0, so every table has indices; k1 and k2 collide at slot 3 | `TableWellFormed`, `DictRefinesAbstract`, `GetReturnsVisibleValue` |
| `dict_resize` | 3 keys, 1 value, no reader, no re-entry, `MaxDictWithoutHashSize` 4, `MaxDictSize` 8, `SelfUpdate` | Doubling 4→8 switches the table from small to hashed, and the shrink (capa 8, used 0, fill ≥ 6) happens: `TableWellFormed`, `DictRefinesAbstract` |
| `dict_overflow` | `MCDict_size.cfg` on `MCDictSize`: 3 keys, `MaxDictSize` 4, 1 repr thread without writes from `__repr__`; masks 7, 15, 31 and hashes 0..1100 for the probe; requests 0..300 and around every power of two up to 2^30 (`CodeMaxDictSize`) for the capacity | A full table with used ≥ 2 cannot grow, and putItem raises OverflowError: `TypeOK` (no table exceeds `maxDictSize`). `repr` races the writer: `ReprUnwrittenWasAState`. Under `SizeFairSpec`: `LockReleased`. The algorithms: `ProbeCoversTable` (the probe sequence visits every slot within 40 steps), `RoundCapacityCorrect` |
| `dict_nil_popitem` (violation) | `MCDict_nilpop.cfg`: the `NewDict()` zero value | `NoPanic` fails: see finding 1 |
| `dict_used_fill` (violation) | `MCDict_usedfill.cfg` | `UsedWithinFill` fails: see finding 2 |
| `iter_writes` | `MCDict_iterw.cfg`: keys {k1,k2}, value v1, 1 writer, 1 consumer, `MaxIterWrites` 2, tables of 4 | `IterSnapshot` |
| `keys` | `MCDict_keys.cfg`: 1 writer, 1 lister, tables of 4 | `KeysFit` |
| `equal` | `MCDict_equal.cfg`: 1 writer, 1 comparer, `Other` = {k1: v1} | `EqualFalseJustified` |
| `iter_exhausted` (violation) | `MCDict_exhaust.cfg`: as `iter_writes` with 2 consumers sharing the iterator and `MaxIterWrites` 1 | `ExhaustedStaysExhausted` fails: see finding 3 |
| `equal_true` (violation) | `MCDict_equaltrue.cfg`: 3 keys, `Other` = {k1: v1, k3: v1} | `EqualTrueJustified` fails: see finding 4 |
| `repr_reentry` (violation) | `MCDict_repr.cfg`: keys {k1,k2}, 1 writer, 1 repr thread, `MaxReprWrites` 2 | `ReprWasAState` fails: see finding 5 |

`dict_resize` also lets its writer start `d.update(d)` (`UpdIter`, `UpdNext`).
Its first `SetItem` goes through the writer path and bumps the version, so the
following `next()` raises; the call never gets past one item.

`MCDictSize` puts the size limits in one model. A behaviour is either the
capped `Dict`, or one input of `DictTableAlgo` (the probe loop), or one input
of `DictCapacity`, chosen by the variable `part`. The algorithm modules are
instantiated `WITH MaxDictSize <- CodeMaxDictSize`, the code's 2^30, while the
`Dict` part uses a cap of 4. The parts share no variable, and each algorithm
property is guarded by its `part`.

Four more configurations are kept beside the runs:
- `MCDictAlgo.cfg` checks the two algorithm modules alone (`MCDictAlgo`).
- `MCDict_overflow.cfg` checks the `Dict` part of `dict_overflow` alone, on
  `MCDict` under `FairSpec`.
- `MCDict_iter.cfg` checks `IterSnapshot` with two consumers sharing the
  iterator and one write. It passes: 1,262,592 distinct states in about a
  minute.
- `MCDict_selfupd.cfg` checks `UpdateSelfSucceeds` and reproduces the
  `d.update(d)` failure described under Findings, in 249 states.

### The properties

- **`TableWellFormed`.** This invariant holds whenever the lock is free. It says:
  - `Len(entries) = fill`;
  - `used` counts the live entries;
  - `lookupEntry` from each live entry's hash and key finds that very entry.

  It would catch these faults:
  - a missing `incUsed(-1)`;
  - an index stored at the wrong slot;
  - tombstones copied by `growTable`.
- **`DictRefinesAbstract`.** `INSTANCE DictAbstract WITH items <- Content`,
  where `Content` is the live entries of `entries[1..fill]` of the published
  table. Every step is one map operation or no change to the map. It catches
  these faults:
  - a tombstone revived in place (the wrong insertion order);
  - a 0-based index (a duplicate key);
  - entries copied in the wrong order by `growTable`.
- **`WriteTakesEffect`** (action property). When a `putItem` returns a value or
  nil, the published table holds what it wrote: the new value, nil, or, for
  `setdefault`, the value already there. Without the version check, a write into
  a table that a re-entrant `clear` replaced is lost.
- **`GetReturnsVisibleValue`** (action property). The value `GetItem` returns is
  in `obs`: the key's value in the content, or the value of an entry written
  past `fill` that is already reachable through its index, at some instant of
  the call. It catches these faults:
  - a forward scan of a small table;
  - a re-inserted key's index stored at a fresh slot, behind its tombstone.
- **`NoPanic`.** No writer reaches a panic.
- **`IterSnapshot`.** Once every consumer of the shared iterator has finished
  with `StopIteration`, no item was yielded twice and the items, in entry
  order, are exactly the dict's content at one instant since the iterator was
  made. It catches a load that does not skip tombstones, and a guard that does
  not compare the version (a write between two `next()` calls goes unnoticed).
- **`KeysFit`.** `Keys` never finds more live entries in `entries[:fill]` than
  the `used` it loaded: the comment at line 465 relies on loading `used` after
  `fill`. The mutant loads them in the other order.
- **`EqualFalseJustified`.** A `False` result of `dictsAreEqual` without error
  means d differed from `d2` at some instant of the call. It catches the
  length taken from `fill` instead of `used`.
- **`ReprWasAState`.** A `repr` that returns normally printed the content d had
  at some instant of the call. This is the promise in `dictRepr`'s comment at
  line 879. It fails when `__repr__` writes to d (finding 5).
- **`ReprUnwrittenWasAState`.** What the lock does give: a `repr` that returns
  normally and whose own `__repr__` calls did not write to d printed a state d
  was in, although a writer thread races it. It catches a `repr` that walks
  the table without taking `d.mutex`.
- **`LockReleased`** (liveness). Whenever a thread holds `d.mutex`, it is
  released later. `putItem` unlocks by hand on each return path (line 493
  explains why it does not use `defer`). It catches an overflow return
  (line 522) that forgets its `Unlock`.
- **`ProbeCoversTable`** and **`RoundCapacityCorrect`** are checked against
  reference definitions over bounded inputs.

Each property of a passing run has a mutant in `PROJECT.json`: a faulty variant
of a mapped definition, defined just before it, which makes TLC report the
property violated under the run's own configuration.

### Findings

1. **`popitem` on a `NewDict()` dict dereferences nil** (dict.go:856, code bug).
   `dictPopItem` reads `d.table.used` directly. Every other path handles the nil
   table of `NewDict()`: `loadUsed`, `loadFill`, `lookupEntry` and `growTable`
   all do. `popitem()` on a dict created by `NewDict()` and never written
   therefore crashes instead of raising `KeyError`. TLC's trace is:
   `Start(popitem)`, `Lock`, `PopItem` with `cur = NoTable`.
2. **`used` can exceed `fill`** (dict.go:265, divergence). `writeNewEntry`
   increments `used` before `fill` on a published table. The comment on `fill`
   ("used <= fill <= len(entries)") and invariant 1 of the design do not hold
   between the two atomic adds, and that is exactly where the lock-free `Len`
   and `Keys` read them.

3. **An exhausted iterator yields again** (dict.go:1151, divergence). The
   comment in `dictIteratorNext` says an exhausted iterator of a modified dict
   always raises `RuntimeError`, and the design says the index rollback
   (line 326) makes repeated exhaustion idempotent. But an insert increments
   `fill` before it bumps the version. A `next()` after `StopIteration` that
   runs between the two loads the new `fill`, fetches the new entry, passes
   the guard, and yields it.
4. **`dictsAreEqual` returns `True` for dicts that were never equal**
   (dict.go:634, code bug). It promises `RuntimeError` on a concurrent
   modification. A delete stores nil into the value before it bumps the
   version. The walk skips the emptied entry, the guards are checked before
   the bump, and `{k1, k2}` compares equal to `{k1, k3}`.

Also observed, though no run checks it (`MCDict_selfupd.cfg`):
**`d.update(d)` raises** (dict.go:592). `Update` walks d's own item iterator
and calls `d.SetItem` for every item. Overwriting an existing key bumps the
version, so the next `next()` fails its guard. `d.update(d)` therefore raises
"dictionary changed during iteration" for every non-empty `d`, although it
should leave `d` unchanged. The failure is deterministic, so a unit test
reaches it.

5. **`repr` prints a state the dict was never in** (dict.go:891, divergence;
   run `repr_reentry`). The lock does not keep out writes
made by `repr`'s own `__repr__` callbacks, because the mutex is recursive.
Take d = {k1: v1}. `repr` loads k1, and the `__repr__` of k1 or v1 deletes k1
and inserts it again. The re-inserted entry is appended to the same table, and
the walk finds it: the result is `{k1: v1, k1: v1}`. `dictRepr`'s comment
(line 879) says the lock prevents exactly this. TLC finds it in 1,687
states.

## 4. Bounds and why they are enough

- **Keys.** Two keys give collisions on a hashed table: 3 and 11 share slot 3
  of an 8-slot part and have different perturbs. They also give tombstones,
  re-insertion, grow at capa 4 with used 1 or 2, and `popitem` past tombstones.
  Three keys are needed for doubling (used = 2 = capa/2 with a third insert) and
  for the shrink (capa 8 with fill ≥ 6 and used 0). Those two runs drop the
  reader and re-entry to stay under five minutes.
- **Values.** Two values let a reader tell an old value from a new one.
- **Writers.** One writer: a second writer only waits on the mutex, because the
  lock serialises writers. The concurrency that matters is the writer against
  the lock-free reader, and the writer against its own re-entrant callbacks.
  `MaxReentry` 1 is enough to replace the table under a writer (nested clear or
  grow) and to change it in place (nested set or delete).
- **`ProbeFuel` 40.** `dict_overflow` (its probe part) shows that 40 steps reach every slot of
  parts of up to 32 slots, from every hash up to 1100. The Dict runs use parts
  of at most 16 slots and hashes 3 and 11.
- **`TableIds`** is 2 + writers + readers + listers (+1 for an iterator, +1
  per writer under `SelfUpdate`, +1 per comparer or repr thread): one id each for the current
  table, a new table being built, and one per thread that may hold an old one.
- **Iterator runs.** `MaxIterWrites` bounds the version increments after the
  iterator is made (a guard of `Start`). One write between `next()` calls is
  enough for a guard failure, an insert racing a fetch, and a delete racing a
  load; two writes let one consumer see an insert after exhaustion and a
  delete. Consumers behave as `for` loops: they stop after `StopIteration` or
  `RuntimeError`, except where `ExhaustedStaysExhausted` asks what a further
  call does. Tables of 4 slots with two keys still reach grow and clear. Once
  the bound is reached the threads finish, so these runs do not check
  deadlock.
- **Frozen scans.** When a lister's or comparer's table has been replaced, the
  table no longer changes. `DictView` then keeps only the scan's outcome
  (`ScanPanics`, `WalkResult`), which decides every property of these runs.
- **Equality.** `Other` = {k1: v1} makes the length test pass and fail, and
  the walk find a key both present and absent. {k1: v1, k3: v1} against a dict
  that held {k1, k2} gives equal lengths with different keys.

## 5. Fairness and liveness

`FairSpec` (and `SizeFairSpec`, its copy for the `Dict` part of
`MCDictSize`) adds weak fairness to a writer that holds the lock (`HeldStep`:
`Reenter` ... `ClearTable`) and to a `repr` walking under it (`ReprStep`).
Between `Lock` and `Unlock` nothing waits, and callbacks return (their writes
are bounded), so a goroutine in that stretch stays runnable and the Go
scheduler keeps running it: weak fairness is what the code gets from its
scheduler. No fairness is assumed for the mutex (the host's `recursiveMutex`
makes no fairness promise), for starting a call, or for lock-free readers and
iterator consumers, which no liveness property is about. `LockReleased` (in
`dict_overflow`) says the lock is always released again. Only this run uses
the fair specification; the others check safety under `Spec`.

## 6. Not modelled, and why

- **Equality with `d2` written concurrently**, the `d1 == d2` fast path and
  the `dictEq`/`dictNE` wrappers. `d2` is a fixed map; writes to it would need
  a second `Dict` instance and would double the state.
- **`Len`** is read by `dictsAreEqual` (`UsedOf`), but the spec's
  linearization claim for `Len` against a concurrent `get` is not checked.
  `dictContains`, `dictGet` and `dictHasKey` only wrap `GetItem`.
- **Update from a non-dict iterable, `copy`, `init`**: loops of `SetItem` over
  another object, with no interleaving beyond the write path.
- **`repr`'s text**: the separators, `s.Value()` and the `{...}` of a nested
  `repr` of the same dict are left out. The model keeps the pairs printed.
- **Recursive mutex.** Its code is not under `src/`. It is represented as an
  owner plus re-entry on the owner's thread.
- **Left out on purpose:**
  - the argument checks of the Python-level wrappers;
  - the type registration and the key, value and item iterator types, which
    differ only in what they wrap as the result.
- **Taken as given:**
  - the data race of `dictClear`'s plain store to `d.table` (line 646) is
    modelled as an atomic store;
  - hashes are non-negative and bounded;
  - `Hash` and `Eq` are pure, apart from the callbacks `Reenter` and
    `EqRaised`.
