# crumble in TLA+

A model of [crumble](../src/README.md), a small SQL database in Rust: B+tree
indexes, slotted heap pages behind an LRU buffer pool, a write-ahead log per
table, MVCC with row locks, deadlock detection and VACUUM. The modules are
written from the code under `src/crates`; `PROJECT.json` maps each definition
to the lines it stands for.

Contents: [1 the system](#1-the-system), [2 the modules](#2-the-modules),
[3 the runs](#3-the-runs), [4 the proofs](#4-the-proofs),
[5 what the models leave out](#5-what-the-models-leave-out),
[6 findings](#6-findings), [7 plan](#7-plan).

## 1 The system

A statement goes SQL text → AST (`crumble-sql`) → logical plan (`crumble-ir`)
→ constant folding (`crumble-opt`) → physical plan → index rewriting
(`crumble-planner`) → interpretation (`crumble-exec`, filters optionally
compiled by `crumble-jit`). The interpreter works on a `Catalog` of tables and
B+trees, each behind its own `Mutex`; all threads share one
`TransactionManager`.

| Component | State | Operations | What is hard | What makes it correct |
|---|---|---|---|---|
| Transaction manager (`crumble-tx/manager.rs`) | next id, status per id, waits-for graph, log file; one mutex, one condition variable | begin, commit, abort, status, wait_for, forget, finished_xids, has_in_progress, compact, open | blocking threads, wake-ups after the lock is released, deadlocks, crash between or inside records, vacuum's four separate lock sections | an outcome is final, also across crashes; ids are never reused; no cycle ever enters the graph; nobody sleeps for ever |
| Visibility and row locks (`visibility.rs`, `row.rs`, `delete_at`, `freeze`) | xmin and xmax of each row version | scan, claim a version, wait, re-check, freeze | every lock is dropped between look and claim; statuses change during a scan; lengths of encoded ids | a version is seen exactly if its creator's and claimants' fates say so; no lost update; VACUUM changes no answer |
| Buffer pool and page store (`crumble-buffer`) | cached frames, LRU order, dirty flags, page file | fetch, write, flush, flush_all, eviction, open | eviction order, I/O errors in the middle of an eviction, crash | readers see the last write; the disk only ever gets what the page held |
| Slotted page (`page.rs`) | 4 KiB of header, slots and rows; page LSN | insert_row, get_row, update_row, delete_row | room, equal-length rule | a row stays in its slot |
| Write-ahead log (`crumble-wal`) | append-only file, position | append, read_all | LSN after reopening, torn tail | the reader finds each record under the LSN the writer gave it |
| Heap table (`table.rs`) | pool, log, columns | insert, scans, row_at, in-place rewriting, replay | crash at any point, also in replay; pages flushed in any order | a reopened table holds exactly the logged rows, once |
| Catalog (`catalog.rs`) | tables, indexes, `catalog.json` | create and drop table/index, vacuum_table, vacuum_all, open | metadata file, table and index changed in separate steps, vacuum against running transactions | tables, indexes and metadata agree, before and after a crash |
| B+tree (`crumble-index`) | node pages, own pool and log | insert with splits, search, range search, replay | crash between the page writes of a split, equal keys | every entry inserted is found, once |
| Interpreter (`crumble-exec/interpret`) | none of its own | one function per plan node | UPDATE is claim + insert row by row; indexes follow the table | a failed statement leaves nothing once its transaction is aborted |
| Relational operators, predicate compiler, planner, constant folding, lowering, SQL | none | pure functions | three-valued logic, NULL keys, integer overflow | the rewritten or compiled form means what the original means |
| REPL (`crumble/main.rs`) | the session's transaction | BEGIN, COMMIT, ROLLBACK, statements with autocommit | abort after an error | each transaction ends exactly once |

Interactions. `delete_at` reads a row under the table's mutex, drops it, and
calls `wait_for` on the manager; `wait_for` blocks on the manager's condition
variable. `main.rs` begins a transaction before each statement and ends it
after, aborting on errors: after a deadlock that is a second abort. `freeze`
runs under the table's mutex and asks the manager for statuses; `vacuum_all`
then asks, lists, forgets and compacts, in separate lock sections. Scans ask
the manager for the status of each row's transactions while they hold the
table's mutex, but not the manager's.

The hazards of all this are listed, each at its line, in `PROJECT.json`.

## 2 The modules

    TxOutcome      what a transaction manager promises
      ^ implemented by TxManager            used by RowMvcc
    PageMap        what a buffer pool promises
      ^ implemented by BufferPool           operators used by HeapTable
    BTree          an index: splits as single page writes
    Catalog        tables, indexes, catalog.json; assumes BTree's and HeapTable's results

    SqlValues      values, names, three-valued constants
      ^ extended by ExpressionNodes   expressions, one node at a time: lowered,
      |               interpreted, folded, compiled
      |               ^ extended by Expressions   their recursions
      |               ^ extended by PlanNodes     index scans, keys, Sort's comparator
      ^ extended by SqlRules          what a node means in SQL (no code: the reference)
                      ^ extended by SqlMeaning    what a SELECT means
    Query          a SELECT from the AST to its rows; compares the two

**TxOutcome** (abstract). `outcome[x]` is the fate of transaction `x`,
`answer[x]` what a status query returns. Ids are started once, finished once;
forgetting clears the answer; a restart aborts what ran, except that the one
record being written may have made it.

**TxManager**. One action is one critical section of `inner: Mutex<Inner>`, or
a `notify_all` issued after the lock is released. `nextId`, `statuses` and
`waitsFor` are `Inner`'s fields; `log` the file; `pc`, `xid`, `target` say where
each thread stands in `main.rs`, `delete_at`, `wait_for` or `vacuum_all`;
`notified` who has been woken. `Restart` kills the process, possibly just
after or (with `TornTail`) in the middle of a record, and evaluates `open()`
on the log: `ReplayedStatus`, `OpenedStatus`, `OpenedNextId`. The pointer walk
of `wait_for` is stated as reachability (`ChainReaches`); `MCTxManager` has TLC
compare it with the loop on every acyclic graph of three transactions.

**BufferPool**. The whole pool is one record, so the operations of `pool.rs`
are operators from pool to pool (`Touched`, `Flushed`, `Evicted`,
`InsertedIntoCache`, `Fetched`, `Written`, `Opened`), which HeapTable reuses. A
failing file write is an action of its own (`EvictionFails`, part of
`FlushAll`), bounded by `MaxFailures`. `StoreWrite` shows that the store,
written beyond its end, fills the gap with zero pages. **PageMap** is the
abstract promise: content, durable content, and `Persist` for whatever the
pool chooses to write.

**HeapTable**. A log and a pool. `Insert` and `Update` log the record and write
the page in one step (one mutex section); `Crash` may strike after the record
is logged and before the page is written. `Replay` is one record per step, so a
second crash can hit it anywhere. A row is the pair of the records that
inserted and last rewrote it. A gap page has `free = 0`: the free-space offset
of zero bytes is 0, so replay cannot insert there. Operations may fail while the
process lives on, and what they did before stays. `FetchFails`: there is no room in
the cache, nothing is logged. `AppendFails`: the log ends in a torn record (`torn`).
`SyncFails`: the whole record is in the log, but `append` returns the error of its
`sync_data`, so the page is left alone. `FreezeFails`: `freeze` fetches the page
after it has logged the change, and finds no room (`delete_at` fetches first;
`BeforeUpdate` is what the pool is in either). `WriteFails`: the record is logged, the new
page is not in the pool. A crash may tear the record being written, too.

**RowMvcc**. Row versions, three kinds of threads (sessions, one vacuum) and
crashes. A scan takes one step per row with the table locked while other
transactions end. `Claim`, `ClaimConflicts`, `Wait` and `Resume` are the ways
out of one round of `delete_at`; `Reinsert` is the second half of an UPDATE's
row; `StartVacuum` to `Forget` are `vacuum_all`. Transactions are TxOutcome's
actions, so the model uses what TxManager is proved to provide. Encoded lengths
(`Width`) are modelled because `update_row` refuses a row of another length:
ids up to `ShortXid` (250 in bincode's encoding) take one byte, `FROZEN_DEAD` nine. Where the
code has a `debug_assert`, both builds are possible outcomes. `past` is
history: which logical row a version belongs to, who made it, who claimed it.
`ScanSeesEachRow` speaks of a whole scan, during which others commit: of a row
that is there at its end the scan has met a version. It does not say that of any two
versions of the row the scan has met one: it may have met only a third, made between
them (the proof of an earlier, stronger form failed there, and TLC found the behaviour
with four transactions and three versions).

**BTree**. `pages` is what each page reads as, `stored` the set of entries that
an index promises to hold. `Insert` and `Delete` find their leaf and plan the page
writes to make (`SplitLeaf`, `SplitInternal`); `Perform` makes one per step,
`Continue` the next, `Propagate` takes a separator to the parent, and `Crash` may
fall in between: then the entry being written is in doubt and may or may not be
found. Nothing reads the tree in between, as its mutex is held.
The code's loops down the tree and along the leaves are a `Walk`: `TowardsKey`,
`Leftwards` or `Onwards`, as often as there are pages.
The code's node is full when its bytes do not fit the page; here after
`LeafCap` or `NodeCap` entries.

**Catalog**. `open`, `trees`, `meta` and `first` are the maps of `Catalog` (`first`
is what `index_for` meets first in `index_meta`, any order), `json` the file,
`rows` and `tree` what the tables' and indexes' files hold. A table and an index may
have the same name. The code locks its maps one after the other, so a call is several
steps, and a statement a list of calls: `CreateIndex` (the file is opened and filled
under the table's lock), `HookTree`, `ListIndex`, `SaveMeta`; `DropIndex`,
`UnlistIndex`, `UnlinkIndex`, `SaveMeta`. `vacuum_table` is such a list (`Rebuilds`), a
drop and a create for each of the table's indexes in any order. So is `drop_table`,
which calls itself with the names of the indexes of its table: `DropTable` puts those
calls, each skipped if there is no table of the name (`SkipDrop`), before
`UnlinkTable` and `SaveMeta`. A save may fail (`SaveFails`): the maps have changed, the
file is old or cut short, the statement ends and the process goes on. A crash may fall
between any two steps, or in a save.

Rows change as `insert.rs`, `update.rs` and `delete.rs` do it: the row under the
table's lock, then `ChooseIndex` (`index_for`), `OpenIndex` (`catalog.index`, a handle
to a tree) and `EnterIndex` (lock and insert), with anything of the others in
between. If the file of the tree has been removed since (the handle's `age` counts
how often), the entry goes to the file without a name: `EnterUnlinked`. A `SELECT` is
`Plan` (the name of an index), `OpenScan` (a handle to the tree that has the name then),
`SearchTree` (the slots), `Fetch` (the rows). `IndexGone` is a statement whose index is
not there when it asks for it. The handle of a table and the first write or the
fetches through it are one step: what other sessions do between the two is the
same as their doing it before. `lost` is history: the statement's table was dropped,
or the index it chose was another table's when it took the handle. Seven mishaps
(`Causes`) keep an index from matching its table; `damage` records, per index, which
has happened.

**SqlValues, ExpressionNodes, Expressions, PlanNodes, Query**. A statement is an initial state, each pass of
`main.rs` an action: `Lower` or `Refuse`, `ConstantFold` or `FoldOverflows`,
`ToPhysical`, `UseIndexes`, `Run`. The operators carry the names of the functions
(`LowerExpr`, `FoldExpr`, `PlanIndexScans`, `FilterRows`, ...) and have their
restrictions: IN with an empty list is refused, parentheses too, the HAVING of a
query that does not aggregate is never read, an index is looked for only under
filters and projections. `FilterRows` compiles the predicate for the kinds of
the first row and interprets it otherwise, as `filter.rs` does. A value is a
kind and a sequence of numbers, a float a number of sixths. Each pass over an
expression is in two parts: an operator of ExpressionNodes says what the code does at a
node (`EvalNode`, `FoldNode`, `LowerNode`, ...), given what it makes of the expressions
below, and the operator of the function's name in Expressions ties the recursion.
PlanNodes has what the planner and the executor do with one filter, key or pair of rows.
The parts without recursion are modules of their own because the prover cannot use a
module that declares one.

**SqlRules** and **SqlMeaning** are not translated from the code, and split in the same
way. They say what a SELECT means by SQL's rules, in other terms than the code computes it: truth as 0, 1, 2 with minimum
and maximum, joins and groups as sets of positions, LIKE as a way to cut the
text. The properties of Query compare the two.

Definitions marked "Mutation" or "mutant" in a comment are not part of a specification:
each is a plausible wrong version of the definition it precedes, used to
check that a property does notice the error (`PROJECT.json`, "mutants").

## 3 The runs

All bounds are constants of the modules. Every passing run is exhaustive.

| Run | Bounds | Checks |
|---|---|---|
| `tx_locks` | 3 threads, 3 ids | `NoWaitCycle`, `EdgesAreWaiters`, `NoLostWakeup`; under fairness `WaitersReturn` |
| `tx_recovery` | 3 threads, one may vacuum, 2 ids, 2 crashes | `TypeOK`, `LogCoversMemory`, `FreshIds`, refinement `KeepsPromise` |
| `buffer_pool` | 3 pages, 3 contents, cache of 2, 2 failed writes | `TypeOK`, `LruListsFrames`, `NoPageVanishes`, refinement `KeepsPages` |
| `heap_recovery` | 4 pages of 2 rows, cache of 2, 6 records, 3 crashes or failing operations | `TypeOK`, `RecoversExactly`, `LsnTellsContent` |
| `mvcc` | 2 sessions and a vacuum, 3 ids, 2 versions, 1 crash | `TypeOK`, `VisibleIsLive`, `OneWinner`, `OneVersion`, `ScanSeesEachRow`, refinement `UsesTxOutcome` |
| `btree` | 7 keys, one of them up to twice, 7 entries, nodes of 2, one deletion or crash | `TypeOK`, `SearchIsExact`, `RangeIsExact`, `ChainIsComplete` |
| `catalog` | tables `t`, `n`, indexes `n`, `i`, 2 keys, a session that defines, one that writes, one that reads; at most 2 row versions in a table, 2 DDL statements, 2 crashes or failing saves, and in all at most four of: DDL statements, crashes or failing saves, row versions (two each in table `n`), a scan under way, a second table | `TypeOK`, `IndexExact`, `ScanIsBracketed`, of steps `RestartKeepsNames` |
| `query` | 37,624 statements, each with its tables of up to 3 rows | `TypeOK`, `FilterIsExact`, `JoinIsExact`, `GroupsAreExact`, `OrderIsExact`, `CompiledAgrees`, and of steps `FoldKeepsAnswer`, `IndexKeepsAnswer` |
| `tx_torn_log`, `heap_lsn`, `btree_equal_keys`, `query_indexes` | as small as shows it | one property each, violated: section 6 |

Why the bounds are enough. Three ids and three threads allow a cycle of
length three, which the check of a chain's next edge alone would miss, and a waiter woken
for somebody else's commit. Two crashes allow a crash after a recovery, the
only case in which a wrongly resumed id counter or a half-written log shows.
Three pages over a cache of two make each kind of victim (clean, dirty,
failed) possible, and one page more than the cache holds. Four pages, six records and three upsets
let a page be evicted, rewritten, evicted again and replayed over an older
and a newer neighbour. Three ids over two versions allow a creator, a winner and a
loser of one version, an abort followed by a second claim, and an UPDATE's new
version next to its old one; with three versions and no crash the run also
passes, at 8.4 million states. Seven distinct keys in nodes of two are the fewest
that split an internal node below the root, and every order of inserting them is
explored; with a deletion and a crash in one behaviour the run also passes, at
half a million states. In Catalog, two indexes on one column let each be passed by; two
tables of which one is named like an index let DROP TABLE of the other take it along,
and let an index be built while the file, after a failed save, lists it for the other table; two
DDL statements allow dropping and creating under the same name, and one of them
may be a VACUUM of both indexes (four calls); two versions allow an UPDATE by
one transaction next to a search by another. Every four of these come together, as
the constraint `Bounded` counts them (`MaxEffort`). Larger combinations pass as well: one
table with everything but crashes (845,463 states, indexes and keys symmetric), with a crash or
failing save instead of scans (317,046), and both tables with one row and one key and two
crashes or failing saves (1,010,292). In Query the statements are all
combinations, within each clause, of: every comparison of a column with a
value of its kind, of another kind or NULL, in both orders; NOT, IN, BETWEEN, IS
NULL and sums; every pair of six predicates under AND and OR; all texts and
patterns up to three characters for LIKE; the four joins over all pairs of
tables of up to two rows, with and without an index, and a table joined with
itself; five functions and six HAVINGs over all tables of up to three rows;
orders over two columns with LIMIT and OFFSET. Two rows are the fewest in which
the first row misleads the predicate compiler, three the fewest that put two in one group
beside another. `MaxInt = 7` makes sums overflow;
`Checked = TRUE` is cargo's debug profile, in which they panic.

`RecoversExactly`, `LsnTellsContent`, `VisibleIsLive`, `OneWinner`, `OneVersion`,
`ScanSeesEachRow`, the three properties of BTree and `IndexExact` are claims up
to the moment one of the known mishaps of section 6 has occurred. The history
variable `damage` records the mishaps, set by their cause and never by their
effect. `ScanIsBracketed` is in the same way a claim of scans that are not `lost`, and
`RestartKeepsNames` of statements whose last save has not failed.

| Module | Causes |
|---|---|
| HeapTable | a zero gap found by a crash; an append stamped 0 after reopening; an append behind a torn record; an operation that failed behind its whole record, the page not changed |
| RowMvcc | a refused rewrite; a commit forgotten while a row still needs it |
| BTree | halves of a leaf that share a key; a node below the root cut in half by a crash |
| Catalog, per index | a row entered into another index of the column, or while the index was being built or removed ("Bypassed"); built while a row of a running transaction was there that nothing will enter into it any more ("Running"); built into a file left behind ("Leftover"), or while `catalog.json`, after a failed save, lists it for another table ("Misnamed"); file removed; table dropped under it ("Orphaned"); entered by a statement on a dropped table, or on another one ("LateEntry") |

The judgements of Query leave out statements that SQL would refuse for the tables at
hand (`WellTyped`), a HAVING the code does not read, and indexes that answer
otherwise (`IndexDiffers`). Two of the latter contradict the documentation, and
run `query_indexes` expects the violation: a range without an upper end over
NULLs, and every index join. `IndexKeepsAnswer` leaves out just these (`SearchesAlike`)
and compares every other index scan with the filter it replaces: the same rows, but for
those whose value is no index key, and an error for a literal that is none.
Everything else is claimed without exception.

Fairness. `TxManager!FairSpec` is the only fair specification: a thread that can
run is scheduled (weak fairness of `WaitFor`, `Wake`, `Notify`, `Vacuum`: the
operating system's scheduling, and `std::sync::Mutex` held only for bounded
sections), and a session that is able to ends its transaction (weak fairness
of `Finish`: commit, abort after an error; a client that leaves a transaction
open for ever blocks others in this design too). Nothing is assumed about
conflicts, vacuums or crashes.

Deadlock is checked in every run but those of Catalog and Query; `Halted` and `Stop`
are the places where the other models may end: bounds used up, a poisoned mutex, a
table that failed to open. A database may be without tables, or down with a torn
`catalog.json`, when its bounds are used up, and a statement ends with its answer.

## 4 The proofs

For every value of the constants that meets the modules' assumptions:

| Theorem | Module | Says |
|---|---|---|
| `TypeCorrect` | TxManagerProofs | `TypeOK`, and that running sessions own their transactions |
| `WaitGraphCorrect` | TxManagerProofs | `NoWaitCycle` and `EdgesAreWaiters` |
| `LogCovers` | TxManagerProofs | `LogCoversMemory` |
| `IdsAreFresh` | TxManagerProofs | `FreshIds` |
| `ManagerKeepsPromise` | TxManagerProofs | TxManager implements TxOutcome (`KeepsPromise`) |
| `WakeupsAreNotLost` | TxManagerProofs | `NoLostWakeup` |
| `PoolCorrect` | BufferPoolProofs | `TypeOK` and `NoPageVanishes` |
| `PoolKeepsPages` | BufferPoolProofs | BufferPool implements PageMap (`KeepsPages`) |
| `LruCorrect` | BufferPoolProofs | `LruListsFrames` |
| `TypeCorrect` | HeapTableProofs | `TypeOK` |
| `RecoveryCorrect` | HeapTableProofs | `RecoversExactly` |
| `LsnCorrect` | HeapTableProofs | `LsnTellsContent` |
| `TypeCorrect` | RowMvccProofs | `TypeOK` |
| `LocksHold` | RowMvccProofs | `OneWinner` |
| `VisibilityCorrect` | RowMvccProofs | `VisibleIsLive` |
| `UsesOutcomes` | RowMvccProofs | RowMvcc takes only TxOutcome's steps (`UsesTxOutcome`) |
| `VersionsCorrect` | RowVersionProofs | `OneVersion` |
| `ScansCorrect` | RowVersionProofs | `ScanSeesEachRow` |
| `TypeCorrect` | CatalogProofs | `TypeOK` |
| `NamesCorrect` | CatalogProofs | `RestartKeepsNames` |
| `IndexCorrect` | CatalogProofs | `IndexExact` |
| `ScanCorrect` | CatalogProofs | `ScanIsBracketed` |
| `TypeCorrect` | BTreeProofs | `TypeOK` |
| `ChainCorrect` | BTreeProofs | `ChainIsComplete` |
| `SearchCorrect` | BTreeProofs | `SearchIsExact` |
| `RangeCorrect` | BTreeProofs | `RangeIsExact` |
| `WhereIsExact` | QueryProofs | a WHERE, lowered and folded, is true by the interpreter and by its machine code exactly where SQL says it is |
| `LoweringKeepsMeaning` | QueryProofs | what `lower_expr` makes of a predicate evaluates to what it means |
| `FoldingKeepsValues` | QueryProofs | constant folding changes no value and no error |
| `CompiledCodeAgrees` | QueryProofs | machine code keeps the rows the interpreter keeps |
| `LikeIsMatching` | QueryProofs | the search of `like_match` is matching |
| `IndexScansAnswer` | QueryProofs | an index scan returns what its filter keeps, and NULLs where no upper end stops it |
| `SortComparatorIsAnOrder` | QueryProofs | Sort compares rows as ORDER BY asks, consistently |
| `RecursionsExist` | QueryProofs | the passes over expressions have results |

Each proof has an inductive invariant, one lemma for each group of actions that disturb
it alike, and lemmas on what the model's operators return.

*Wait graph.* `TypeInv` strengthens `TypeOK` by ownership (a session with a
transaction is its only owner), without which removing one thread's edge
could remove another's. `SafeEdge`: adding an edge to an acyclic graph keeps it
acyclic if the far end does not reach the near end; that is what `wait_for`
checks while it holds the mutex.

*Log.* `LogCoversMemory` alone is not inductive, because it says nothing about
ids that are still to come or about outcomes forgotten in memory and not yet
compacted from the log. `LogInv` adds that what replay says about an id, if
anything, is its outcome (`Faithful`), and that ids from `nextId` on have
never been used. Lemmas state how each kind of record changes what a
log replays to (`AppendBegin`, `AppendVerdict`, `SnapshotReplay`). The three
log theorems and the wake-up theorem assume `~TornTail`: with a torn tail the
log property is false, which is what run `tx_torn_log` shows.

*Pool.* `PoolInv` is `Sound` (types, a clean frame equals its page on disk,
page numbers below `count` and only they are readable) and `GapFree` (the file
has no hole). Each pool operator has a lemma that it preserves `Sound` and what it
does to the view; every action of BufferPool is a composition of them. `LruInv` adds
`LruSound`: `lru_order` names cached frames, each once, and the frames it does not name
are at most as many as evictions have failed, which bounds the cache as well.

*Heap table.* The table's pool is an instance of BufferPool, so its lemmas come from
BufferPoolProofs. `TypeInv` adds to the types that the pages were begun in order, so that
replay never meets a record for a page beyond the next. `RecoversExactly` says nothing of
pages on disk and `LsnTellsContent` nothing of the order of records; the invariant behind
both, `DataInv`, is that some history `H` exists, where `H[k]` is what the first `k`
records make of the pages, such that each page, on disk and in the pool, holds what `H`
says at its LSN (`Good`), and that nothing has happened to it since that replay has passed
already (`PagesTell`). Each record applies to the state before it (`Applies`): that is why
a page that replay finds new enough can be skipped and one that is too old brought up to
date, wherever a crash has stopped an earlier replay.

*Row locks and visibility.* `BaseInv` ties a thread's place to its transaction and to
the table lock, and says that who claims a version made it or saw its maker's commit.
`LockInv` is what a row's two fields are worth: as long as no mishap happened, `xmax` is
the latest claimant, all earlier ones have aborted, and the fate of a committed
transaction that a version names can still be asked for. Every claim checks just this
under the table's lock, although the lock was dropped since the last look.

*Versions.* `VersionInv`: at most one version of a row is current (its maker
committed, no claimant has), exactly one unless the row is deleted; a running transaction
has at most one latest version of a row, and none while its UPDATE stands between claim
and insert (`SomeTip`, `NoTipYet`). A commit turns its latest versions into the current
ones. `ScanInv` is the scan-wide property for the part of the table that the scan has
passed (`ScanMeets`).

*Catalog.* `TypeInv` says which statement a session can be in and what a call names.
`NamesInv` tells, for each step of a call, which of the three maps and `catalog.json`
agree and in which name they differ; between statements they agree unless the last save
failed. Its part `SavedRight` says what the file may list for an index whose files are
kept for a table: that table or nothing, unless the index is "Misnamed"; without it a
crash could give an exact index to another table. `AdminInv`: the defining session is
in one statement at a time. `HandlesInv` is about handles: one that is not lost is to a
tree that is, or was when its file was removed, kept for the table of its
statement, and handles to one tree agree, so that what one session enters
into a tree without a name harms no scan of another. `DataInv` speaks of every index
whose file is kept for a table (`KeptFor`: by the maps, by the call that builds it, or by
`catalog.json`, to which a crash goes back): unless damaged, its tree has each live row
once, except for rows that a statement under way has yet to enter into this very tree, and
nothing that is not a row of its key (`Exact`). It rests on such a row being
one that the statement's own transaction has inserted (`Owns`), on the end of a
transaction bringing no dead row back (`MarksRewritten`), and, for scans, on what
their handle shows them being rows of the key (`FetchInv`).

*B+tree.* An operation's page writes are made one per step, so the tree on disk is
a tree only in between. `TypeInv` therefore speaks of the tree `Ahead`, the pages as they
will be when the writes under way are made, and of the separator that is still owed to a
parent: in it heights fall by one from a node to its children, and every link and child
is a page of the file. `ChainInv` describes a tree by witnesses: a list of the leaves and
of each node's place in it. Until a crash has cut a node in half ("cut"), the leaves of
`Ahead` are linked in the order of their places, the leftmost children lead to the first,
and the leaves hold each entry of `stored` once, and none but those and the one in doubt. The
same is kept for `pages`, as a crash may leave them. `ChainVisits` then follows the links by
induction over a leaf's place: from the first leaf they visit each leaf once.
While `damage` is empty, `ChainInv` also has the tree `Sorted`: every page has a range
of keys, those of its own lie in it, an internal node's keys divide its range among its
children, pages of one height have ranges apart, and a leaf's link leads past its range.
While a separator is owed, the page cut in half still counts in its parent for both
halves (`Divided`). A search then follows the one way down whose ranges have its key
(`WayInRange`), every other leaf is apart from it, and places along the chain have the
order of the ranges (`LeavesApart`), so that a scan meets the keys in order and may stop
at the first too great. Halves of a leaf that share a key break just this: no number
divides its range between them (`LeafHalves`).

*Expressions.* The theorems of QueryProofs are about no state, but about every expression,
whatever its size, and every row. `Expressions(S, rank)` is any set of expressions that
has with each the ones below it, at lower ranks, and a pass over them is any function on
`S` that satisfies the equation of its ...Node operator: `Evaluates`, `Folds`, `Accepts`,
`Runs`, and on the side of SQL `Lowers`, `Types`, `Means`. `RecursionsExist` shows that
those of the IR have solutions, built up rank by rank. `RankInduction`, proved from the
well-foundedness of the naturals, then carries a claim from the parts of an expression to
the whole; one lemma per form does the step. `WhereIsExact` combines them:
lowering keeps the meaning (the lemmas `JunctionMeans`, `ComparisonMeans`, `AnyOfMeans`,
... say that three-valued truth survives the AND, OR and `= FALSE` that NOT, IN and BETWEEN
become), folding keeps the value, and compiled code agrees. Of the statement
they assume what the code itself relies on: that SQL gives the predicate a type, that no sum leaves
an i64 (`SumsFit`), that folding does not panic, and, for compiled code, `TypedRows`: names
of columns are distinct and a column's values are of one kind or NULL. `LikeIsMatching` goes backwards
through the text and the pattern: what is left of both matches exactly if
`like_match_from` says so there.

*Index scans and order.* `IndexScansAnswer` compares, for one row, the test that an index search makes of
its key with the value of the filter that was replaced; NULL is the greatest key, so a
range without an upper end has it. It is about rows that the index has: a float or
a boolean is no key, and is not entered. `SortComparatorIsAnOrder` rests on the
lexicographic order being strict and total (`PrecedesTotal`) and says what
`sort_by` demands of its comparator, which a mix of directions and NULLs could break.

The proofs assume of the constants only the assumptions the modules name:
`TxAssumption`, `PoolAssumption`, `HeapAssumption`, `ImageAssumption`, `MvccAssumption`,
`TreeAssumption`, `IntAssumption`, and Catalog's `AdminAssumption`, `NamesAssumption`, `BoundsAssumption`,
`MarksAssumption` and `TornAssumption`. They say that bounds are numbers, capacities
positive, and that the values standing for "nothing" are none of the others. Tables and
indexes may share names.

Model-checked only. `WaitersReturn`: liveness is out of the prover's reach. The properties
of Query, which speak of whole statements: plans, joins, groups and the answer are
computed by recursion over data (`Execute`, `FoldPlan`, the folds over rows), and in a
module that reaches a recursive operator the prover has no arithmetic. QueryProofs
proves what the passes do to predicates, keys and pairs of rows; that the recursions of
Expressions, SqlMeaning and Query put these together as the code does is what
TLC's run `query` checks, on its 37,624 statements.

## 5 What the models leave out

- In RowMvcc a WHERE clause picks any subset of what was seen; in Catalog a table
  has one column, and a statement writes one row. Neither has
  `order_row_values` and the SET list, which move values into columns.
- SQL parsing is the sqlparser library's. Of lowering, DML and DDL statements,
  which copy names and literals, are left out; so are numbers' decimal forms.
- In Query the tables do not change and have at most one index per column, each
  matching its table (Catalog, BTree). A statement has at most one JOIN, and the
  names of its tables' columns are distinct. What LLVM makes of a predicate is external.
- Catalog knows a transaction by its session; one session defines tables.
  Two that do at once can both pass `create_index`'s test for the name
  (`catalog.rs:134`) before either has filled its tree; the REPL has one session.
- In Catalog the removal of a file succeeds (the code ignores the error), and the
  filling of an index is not cut short by an error. Only the sessions in
  `Readers` search, and only searches of an index that is undamaged when they open it
  are followed to their answer.
- The page file's writes are atomic and durable once made; fsync is honest.
- A failing write of the transaction log panics in the code and is not modelled;
  nor is a write that fails while a table or an index is being opened, or in the
  middle of an index operation.
- HeapTable's rewrites keep the length of a row; RowMvcc has the rule.
- RowMvcc has one table and one vacuum; the lookups of the two statuses of one
  row are one step, and the loser of a deadlock aborts once (TxManager has both
  aborts and the locks of `wait_for`). `Width` distinguishes one and three bytes,
  right for ids below 2^16, and nine for `FROZEN_DEAD`.
- Crash recovery of RowMvcc is what HeapTable's `RecoversExactly` gives: rows
  once logged are there.
- BTree takes from `open()` that the logged pages are rebuilt; the encoding of
  keys and the order across their types (`key.rs`), and page writes that fail
  while the process lives on, are left out.
- `Delete` records are replayed but no code writes them; the slot tombstones
  they set are left out.
- A statement sees each row by the statuses of the moment it reaches it. A scan
  that overlaps a committing UPDATE can see both versions of a row, never
  neither, as new versions are behind old ones: `ScanSeesEachRow`. The other
  properties of RowMvcc speak of single instants.
- From the REPL, VACUUM runs inside its own transaction (`main.rs:169`), so
  `has_in_progress` is true and nothing is ever forgotten; RowMvcc and TxManager
  model `vacuum_all` as the API allows it to be called.

## 6 Findings

| Run | What it shows | Where |
|---|---|---|
| `tx_torn_log` | a torn record is neither cut off nor skipped: commits logged behind it are lost at the next open and their ids reused | `manager.rs:128` |
| `heap_lsn` | the first record after reopening is stamped LSN 0: replay later inserts rows again, in a table to which nothing else has happened | `writer.rs:25` |
| `btree_equal_keys` | entries whose key equals the separator stay in the left leaf; search and range scans start right of it and miss them | `btree.rs:369` |
| `query_indexes` | `a > 1` through an index also returns the rows whose `a` is NULL, the last key; `docs/decisions/README.md:262` has it that a comparison with NULL keeps no row | `index_scan.rs:151` |
| `query_indexes`, on joins alone (`IndexJoinCases`) | a join for which an index is found always fails: the qualified name of the left column is looked up among unqualified ones (`indexnestedloopjoin.rs:24`); `docs/status/README.md:34` says all four joins are accelerated | `index_scan.rs:83` |

More mishaps, without a run of their own. Each is recorded by a `damage` cause or
characterised by a property or a hypothesis, so the models say when it happens:

| Where | What happens |
|---|---|
| `pool.rs:104` | a page evicted before a lower one leaves zeros in the file; replay cannot insert there and the table no longer opens ("gap") |
| `reader.rs:31` | rows logged behind a torn record are gone after the next restart ("behind") |
| `table.rs:129`, `table.rs:296`, `writer.rs:32` | an operation that fails behind its log record (no room for the page, an error of `sync_data`) comes back by replay, and an insert shifts the slots of the rows after it ("unwritten") |
| `table.rs:284`, `row.rs:16` | `FROZEN_DEAD` never fits: deleted rows are not frozen, and come back once their deleter is forgotten (release; "early"), or VACUUM panics and every reopening after it (debug). The assertion at `table.rs:300` says otherwise |
| `table.rs:361`, `row.rs:16` | an id above 250 does not fit where zero was: DELETE and UPDATE report success and leave the row unclaimed (release; "long"), or panic (debug) |
| `catalog.rs:290` | `vacuum_all` forgets a commit made behind the freeze: its rows become invisible ("early"); and a transaction that another thread is about to wait for: `wait_for` panics and poisons the manager (`WaitForPanics`) |
| `btree.rs:263` | a crash in a node split below the root leaves entries no search reaches ("cut") |
| `catalog.rs:226` | DROP TABLE leaves its indexes: it calls `drop_table` with their names, where `docs/status/README.md:41` says it cascades. A table created again is searched through the old entries ("Orphaned"); and a table that has the name of such an index is dropped along |
| `indexscan.rs:17` | a plan holds an index by name and drops the filter: if the name has gone to another table's index when the scan opens it, rows of other keys are returned (`lost`); `docs/decisions/README.md:399` says index reads stay correct |
| `catalog.rs:152` | an index built, also by VACUUM, while a transaction runs misses that transaction's rows for ever; also the row of a statement that took its handle before and enters it into the removed file (`insert.rs:36`, `update.rs:79`) ("Running") |
| `insert.rs:36` | a statement that goes on after its table was dropped, or whose index has gone to another table, enters its row there ("LateEntry") |
| `catalog.rs:142` | an index created again after a crash in DROP or CREATE INDEX may start from the old file ("Leftover") |
| `catalog.rs:190` | of two indexes on a column, writers enter rows into one and readers may search the other ("Bypassed") |
| `catalog.rs:98` | a save that fails, or a crash in it, leaves `catalog.json` old or cut short: the process goes on with names that a restart does not have, or the database does not open any more (`Torn`); an index then created may be listed for another table ("Misnamed") |
| `filter.rs:23` | of two columns of one name compiled code reads the last, the interpreter and Project the first: `SELECT SUM(b) AS a ... GROUP BY a HAVING a > 1` is decided by the sum. `CompiledCodeAgrees` assumes that names are distinct (`TypedRows`) |

## 7 Plan

1. Done: TxOutcome, TxManager, checked and proved.
2. Done: PageMap, BufferPool, checked and proved.
3. Done: HeapTable, with torn records and failing writes, checked and proved.
4. Done: RowMvcc with the scan-wide property, checked and proved.
5. Done: BTree, checked and proved. To add: the whole-page replay of `BTree::open` over
   BufferPool's operators, with the question whether every page reads as its last
   record whatever was evicted before the crash.
6. Done: Catalog, checked and proved.
7. Done: SqlValues, Expressions, SqlMeaning, Query, checked; their ...Nodes and SqlRules
   also proved about (QueryProofs).

Next: the replay left of 5.
