------------------------------- MODULE Catalog -------------------------------
(***************************************************************************)
(* Catalog (crumble-storage/src/catalog.rs): the tables and indexes of a   *)
(* database, the file catalog.json that names them, and the statements     *)
(* that keep an index in step with its table (crumble-exec).               *)
(*                                                                         *)
(* Every table has one column, and a row is its key.  A transaction is     *)
(* known by the session that runs it: the marks ins and del of a row name  *)
(* the session until the transaction ends (RowMvcc has the ids, the row    *)
(* locks and the freezing).  The log of a table and of an index makes each *)
(* of their writes durable (HeapTable, BTree).  One session, Admin, is the *)
(* only one that creates, drops and vacuums.                               *)
(***************************************************************************)
EXTENDS Naturals, FiniteSets, Sequences

CONSTANTS
  Tables, Indexes,   \* the names
  Keys,              \* the values the column may hold, each one an index key
  Sessions, Admin,   \* who runs statements, and who defines tables
  Writers, Readers,  \* the sessions that change rows, and those that search
  None,              \* no table, no deleter
  Torn,              \* a catalog.json cut short
  MaxRows, MaxDdl, MaxFaults   \* bounds: slots, DDL statements, crashes and failing saves

ASSUME AdminAssumption == Admin \in Sessions /\ Writers \cup Readers \subseteq Sessions
ASSUME NamesAssumption == None \notin Tables \cup Indexes \cup Sessions
ASSUME BoundsAssumption == MaxRows \in Nat /\ MaxDdl \in Nat /\ MaxFaults \in Nat
                           /\ IsFiniteSet(Indexes)

Done == "committed"
Void == "aborted"
NoOne == "no one"   \* the reader u64::MAX of create_index

\* No transaction has one of these for its id.
ASSUME MarksAssumption == /\ {Done, Void, NoOne} \cap Sessions = {}
                          /\ None \notin {Done, Void, NoOne}

VARIABLES
  open,      \* tables: the names in memory
  trees,     \* indexes: the names with an open tree
  meta,      \* index_meta: the table of each index, or None
  first,     \* the index of each table that the map's iteration meets first
  json,      \* catalog.json: the saved names, or Torn
  unsaved,   \* history: the last save failed
  rows,      \* what <table>.tbl and <table>.wal hold
  tree,      \* what <index>.idx holds: how often each <<key, slot>>
  ddl,       \* the DDL statement of Admin: calls to make, and the step
  dml,       \* the statement of each session
  damage,    \* history: which of Causes has happened to each index
  up, ddls, faults

vars == <<open, trees, meta, first, json, unsaved, rows, tree, ddl, dml, damage, up, ddls, faults>>
names == <<open, trees, meta, first>>
file == <<json, unsaved>>
budget == <<up, ddls, faults>>

Slots == 1..MaxRows
Entries == Keys \X Slots
NoEntries == [e \in Entries |-> 0]

\* What may keep an index from matching its table, by what brings it about.
Causes == {"Bypassed",    \* a row was written while index_for did not name the index
           "Running",     \* built while a row of a running transaction was in the table
           "Leftover",    \* built into a file that a crash had left behind
           "Misnamed",    \* built while catalog.json, after a failed save, had it for another table
           "FileGone",    \* its file is removed (and catalog.json may still list it)
           "Orphaned",    \* its table was dropped under it
           "LateEntry"}   \* entered by a statement on a dropped table, or on another one

Row == [key : Keys, ins : Sessions \cup {Done, Void}, del : Sessions \cup {Done, None}]
Call == [op : {"create_table", "drop_table", "unlink_table", "create_index", "drop_index"},
         table : Tables \cup {None}, index : Indexes \cup {None}]
CatalogMeta == [tables : SUBSET Tables, indexes : [Indexes -> Tables \cup {None}]]
ASSUME TornAssumption == Torn \notin CatalogMeta

IdleDdl == [pc |-> "idle", calls |-> <<>>]
IdleDml == [pc |-> "idle"]

TypeOK ==
  /\ open \subseteq Tables /\ trees \subseteq Indexes
  /\ meta \in [Indexes -> Tables \cup {None}]
  /\ first \in [Tables -> Indexes \cup {None}]
  /\ json \in CatalogMeta \cup {Torn}
  /\ rows \in [Tables -> Seq(Row)] /\ \A t \in Tables : Len(rows[t]) <= MaxRows
  /\ tree \in [Indexes -> [Entries -> Nat]]
  /\ ddl.pc \in {"idle", "call", "unlist", "unlink", "hook", "list", "save"}
  /\ ddl.calls \in Seq(Call)
  /\ \A s \in Sessions : dml[s].pc \in {"idle", "choose", "open", "enter", "plan", "search", "fetch"}
  /\ \A s \in Sessions : dml[s].pc \in {"open", "enter", "plan", "search"} => dml[s].index \in Indexes
  /\ damage \in [Indexes -> SUBSET Causes]
  /\ up \in BOOLEAN /\ unsaved \in BOOLEAN /\ ddls \in 0..MaxDdl /\ faults \in 0..MaxFaults

\* The indexes of the column of t, and what the map's arbitrary order may put first.
Covering(m, t) == {i \in Indexes : m[i] = t}
Firsts(m) == {f \in [Tables -> Indexes \cup {None}] : \A t \in Tables :
                f[t] \in (IF Covering(m, t) = {} THEN {None} ELSE Covering(m, t))}

\* A database that was set up earlier, with at most one index (a bound) and
\* nothing in its tables yet.
Init ==
  /\ json \in CatalogMeta
  /\ \A i \in Indexes : json.indexes[i] \in json.tables \cup {None}
  /\ open = json.tables /\ meta = json.indexes
  /\ trees = {i \in Indexes : meta[i] # None} /\ Cardinality(trees) <= 1
  /\ first \in Firsts(meta)
  /\ rows = [t \in Tables |-> <<>>] /\ tree = [i \in Indexes |-> NoEntries]
  /\ ddl = IdleDdl /\ dml = [s \in Sessions |-> IdleDml]
  /\ damage = [i \in Indexes |-> {}]
  /\ up = TRUE /\ unsaved = FALSE /\ ddls = 0 /\ faults = 0

-----------------------------------------------------------------------------
(* Rows and transactions, as the catalog's callers see them. *)

Visible(row, reader) == row.ins \in {Done, reader} /\ row.del \notin {Done, reader}

\* The rows once the transaction of every session in S has ended.
EndedRow(row, S, fate) ==
  [key |-> row.key,
   ins |-> IF row.ins \in S THEN fate ELSE row.ins,
   del |-> IF row.del \in S THEN (IF fate = Done THEN Done ELSE None) ELSE row.del]
Ended(S, fate) == [t \in Tables |-> [n \in DOMAIN rows[t] |-> EndedRow(rows[t][n], S, fate)]]

Free(s) == up /\ dml[s] = IdleDml /\ (s = Admin => ddl = IdleDdl)

Commit(s) ==
  /\ Free(s)
  /\ rows' = Ended({s}, Done) /\ rows' # rows
  /\ UNCHANGED <<names, file, tree, ddl, dml, damage, budget>>

Rollback(s) ==
  /\ Free(s)
  /\ rows' = Ended({s}, Void) /\ rows' # rows
  /\ UNCHANGED <<names, file, tree, ddl, dml, damage, budget>>

-----------------------------------------------------------------------------
(* Statements on rows. *)

\* A new row is in the table; its index entry is still to be made.
Entering(t, k) ==
  [pc |-> "choose", table |-> t, slot |-> Len(rows[t]) + 1, key |-> k, lost |-> FALSE]

Insert(s, t, k) ==
  /\ s \in Writers /\ Free(s) /\ t \in open /\ Len(rows[t]) < MaxRows
  /\ rows' = [rows EXCEPT ![t] = Append(@, [key |-> k, ins |-> s, del |-> None])]
  /\ dml' = [dml EXCEPT ![s] = Entering(t, k)]
  /\ UNCHANGED <<names, file, tree, ddl, damage, budget>>

\* The rows of t once s has deleted the n-th: delete_at sets its xmax.
Deleted(t, n, s) ==
  [rows[t] EXCEPT ![n] = [key |-> rows[t][n].key, ins |-> rows[t][n].ins, del |-> s]]

Update(s, t, n, k) ==
  /\ s \in Writers /\ Free(s) /\ t \in open /\ Len(rows[t]) < MaxRows
  /\ n \in DOMAIN rows[t] /\ Visible(rows[t][n], s) /\ rows[t][n].del = None
  /\ rows' = [rows EXCEPT ![t] =
                Append(Deleted(t, n, s), [key |-> k, ins |-> s, del |-> None])]
  /\ dml' = [dml EXCEPT ![s] = Entering(t, k)]
  /\ UNCHANGED <<names, file, tree, ddl, damage, budget>>

\* Mutant: a delete takes the row's entry out of the index at once.
DeleteEntry(s, t, n) ==
  /\ s \in Writers /\ Free(s) /\ t \in open
  /\ n \in DOMAIN rows[t] /\ Visible(rows[t][n], s) /\ rows[t][n].del = None
  /\ rows' = [rows EXCEPT ![t] = Deleted(t, n, s)]
  /\ tree' = [i \in Indexes |-> IF i = first[t] THEN [tree[i] EXCEPT ![<<rows[t][n].key, n>>] = 0]
                                ELSE tree[i]]
  /\ UNCHANGED <<names, file, ddl, dml, damage, budget>>

\* A delete leaves the row's index entries alone: a rollback needs them.
Delete(s, t, n) ==
  /\ s \in Writers /\ Free(s) /\ t \in open
  /\ n \in DOMAIN rows[t] /\ Visible(rows[t][n], s) /\ rows[t][n].del = None
  /\ rows' = [rows EXCEPT ![t] = Deleted(t, n, s)]
  /\ UNCHANGED <<names, file, tree, ddl, dml, damage, budget>>

\* The table that catalog.json lists for index i.
Saved(i) == IF json = Torn THEN None ELSE json.indexes[i]

\* The table whose rows the file of index i has: the one that index_meta names,
\* that the call which builds it names, or whose removal is not saved yet.
KeptFor(i) ==
  IF meta[i] # None THEN meta[i]
  ELSE IF ddl.pc \in {"hook", "list"} /\ Head(ddl.calls).index = i THEN Head(ddl.calls).table
  ELSE Saved(i)

\* The indexes that a row of t entered into chosen alone will be missing from.
PassedBy(t, chosen) == {j \in Indexes \ {chosen} : KeptFor(j) = t}

\* Mutant: the statement goes on when no index covers the column.
ChooseAlways(s) ==
  /\ up /\ dml[s].pc = "choose"
  /\ dml' = [dml EXCEPT ![s] = [pc |-> "open", table |-> @.table, slot |-> @.slot, key |-> @.key,
                               lost |-> @.lost, index |-> first[@.table]]]
  /\ UNCHANGED <<names, file, rows, tree, ddl, damage, budget>>

\* The table lock is released; the statement asks for the index of the column.
ChooseIndex(s) ==
  LET st == dml[s]
      chosen == first[st.table]
  IN /\ up /\ st.pc = "choose"
     /\ dml' = [dml EXCEPT ![s] =
                  IF chosen = None THEN IdleDml
                  ELSE [pc |-> "open", table |-> st.table, slot |-> st.slot,
                        key |-> st.key, lost |-> st.lost, index |-> chosen]]
     /\ damage' = [j \in Indexes |->
                     IF j \in PassedBy(st.table, chosen) /\ ~st.lost
                     THEN damage[j] \cup {"Bypassed"} ELSE damage[j]]
     /\ UNCHANGED <<names, file, rows, tree, ddl, budget>>

\* catalog.index(name): a handle to the tree of that name.  Its age is history:
\* how often the file of that name was removed since, 0 for the tree still there.
OpenIndex(s) ==
  LET st == dml[s]
  IN /\ up /\ st.pc = "open" /\ st.index \in trees
     /\ dml' = [dml EXCEPT ![s] =
                  [pc |-> "enter", table |-> st.table, slot |-> st.slot, key |-> st.key,
                   lost |-> st.lost \/ KeptFor(st.index) # st.table,
                   index |-> st.index, age |-> 0]]
     /\ UNCHANGED <<names, file, rows, tree, ddl, damage, budget>>

\* catalog.index(name) fails: a DROP INDEX or VACUUM has taken it from the map
\* since it was chosen.  The statement fails, its transaction is aborted.
IndexGone(s) ==
  /\ up /\ dml[s].pc \in {"open", "plan"} /\ dml[s].index \notin trees
  /\ rows' = Ended({s}, Void)
  /\ dml' = [dml EXCEPT ![s] = IdleDml]
  /\ UNCHANGED <<names, file, tree, ddl, damage, budget>>

\* The slots of its key in the tree that a scan holds; found keeps those of a
\* tree whose file is gone.
Located(st) ==
  IF st.age = 0 THEN {n \in Slots : tree[st.index][<<st.key, n>>] > 0} ELSE st.found

\* The statements that scan the tree that st holds.
Sharing(st) ==
  {q \in Sessions : dml[q].pc = "search" /\ dml[q].index = st.index /\ dml[q].age = st.age}

Entered(i, e) == [tree[i] EXCEPT ![e] = @ + 1]

\* lock().insert: the row is entered into the tree that s holds.
EnterIndex(s) ==
  LET st == dml[s]
  IN /\ up /\ st.pc = "enter" /\ st.age = 0
     /\ tree' = [tree EXCEPT ![st.index] = Entered(st.index, <<st.key, st.slot>>)]
     /\ dml' = [q \in Sessions |->
                  IF q = s THEN IdleDml
                  ELSE IF q \in Sharing(st) THEN [dml[q] EXCEPT !.lost = @ \/ st.lost] ELSE dml[q]]
     /\ damage' = IF st.lost THEN [damage EXCEPT ![st.index] = @ \cup {"LateEntry"}] ELSE damage
     /\ UNCHANGED <<names, file, rows, ddl, budget>>

\* The same, when the tree was dropped or rebuilt since: only a scan that holds
\* it too can find the entry.
EnterUnlinked(s) ==
  LET st == dml[s]
  IN /\ up /\ st.pc = "enter" /\ st.age > 0
     /\ dml' = [q \in Sessions |->
                  IF q = s THEN IdleDml
                  ELSE IF q \in Sharing(st)
                  THEN [dml[q] EXCEPT !.lost = @ \/ st.lost,
                                      !.found = IF dml[q].key = st.key THEN @ \cup {st.slot} ELSE @]
                  ELSE dml[q]]
     /\ UNCHANGED <<names, file, rows, tree, ddl, damage, budget>>

\* SELECT .. WHERE column = k: the planner chooses the index, by name.  (Bound:
\* only Readers search.  A search changes nothing, but where it fails and its
\* transaction is aborted, which Rollback does too.)
Plan(s, t) ==
  /\ s \in Readers /\ Free(s) /\ first[t] # None
  /\ dml' = [dml EXCEPT ![s] = [pc |-> "plan", table |-> t, index |-> first[t]]]
  /\ UNCHANGED <<names, file, rows, tree, ddl, damage, budget>>

\* indexscan takes a handle to the tree that has the name now.  due is history:
\* the rows the reader could see then; lost, that the name has gone to another
\* table.  Bound: only scans of an undamaged index are followed.
OpenScan(s, k) ==
  LET st == dml[s]
  IN /\ up /\ st.pc = "plan" /\ st.index \in trees
     /\ dml' = [dml EXCEPT ![s] =
                  IF damage[st.index] # {} THEN IdleDml
                  ELSE [pc |-> "search", table |-> st.table, key |-> k, index |-> st.index,
                        age |-> 0, found |-> {}, lost |-> KeptFor(st.index) # st.table,
                        due |-> {n \in DOMAIN rows[st.table] :
                                   Visible(rows[st.table][n], s) /\ rows[st.table][n].key = k}]]
     /\ UNCHANGED <<names, file, rows, tree, ddl, damage, budget>>

\* lock().search: the slots are read under the lock of the tree.
SearchTree(s) ==
  LET st == dml[s]
  IN /\ up /\ st.pc = "search"
     /\ dml' = [dml EXCEPT ![s] = [pc |-> "fetch", table |-> st.table, key |-> st.key,
                                   found |-> Located(st), due |-> st.due, lost |-> st.lost]]
     /\ UNCHANGED <<names, file, rows, tree, ddl, damage, budget>>

\* Mutant: the row of each slot found is returned without asking whether it is visible.
AnswerUnchecked(s) == {n \in dml[s].found : n \in DOMAIN rows[dml[s].table]}

\* The rows that row_at returns for the slots found, under the table lock.
Answer(s) ==
  LET st == dml[s]
  IN {n \in st.found : n \in DOMAIN rows[st.table] /\ Visible(rows[st.table][n], s)}

Fetch(s) ==
  /\ up /\ dml[s].pc = "fetch"
  /\ dml' = [dml EXCEPT ![s] = IdleDml]
  /\ rows' = IF dml[s].table \in open THEN rows ELSE Ended({s}, Void)
  /\ UNCHANGED <<names, file, tree, ddl, damage, budget>>

-----------------------------------------------------------------------------
(* Statements on tables and indexes: one or more calls of the catalog.  Each
   call takes the locks of its maps one after the other and ends in save_meta. *)

CallOf(op, t, i) == [op |-> op, table |-> t, index |-> i]

\* A set of names in the order of an iteration.
Orders(S) == {f \in [1..Cardinality(S) -> S] : \A a, b \in 1..Cardinality(S) : f[a] = f[b] => a = b}

\* The calls of vacuum_table, its indexes in any order (freezing: see RowMvcc).
Rebuilds(t) ==
  {[n \in 1..(2 * Cardinality(Covering(meta, t))) |->
      IF n % 2 = 1 THEN CallOf("drop_index", None, f[(n + 1) \div 2])
      ELSE CallOf("create_index", t, f[n \div 2])] : f \in Orders(Covering(meta, t))}

Statements ==
  (UNION {{<<CallOf("create_table", t, None)>>, <<CallOf("drop_table", t, None)>>}
            \cup {<<CallOf("create_index", t, i)>> : i \in Indexes}
            \cup (IF t \in open /\ Covering(meta, t) # {} THEN Rebuilds(t) ELSE {}) : t \in Tables})
    \cup {<<CallOf("drop_index", None, i)>> : i \in Indexes}

\* The calls that may be made now: a new statement's, or the rest of one.
Calls(op) ==
  {calls \in (IF ddl.pc = "call" THEN {ddl.calls}
              ELSE IF Free(Admin) /\ ddls < MaxDdl THEN Statements ELSE {}) :
     Head(calls).op = op}

\* Takes the first step of a call (a call that is refused changes nothing).
Begin(calls, step) ==
  /\ ddl' = [pc |-> step, calls |-> calls]
  /\ ddls' = IF ddl = IdleDdl THEN ddls + 1 ELSE ddls
  /\ UNCHANGED <<up, faults>>

Subject == Head(ddl.calls)
GoTo(step) == ddl' = [ddl EXCEPT !.pc = step]

\* create_table: Table::open reads what a file of that name holds.
CreateTable ==
  /\ \E calls \in Calls("create_table") :
       /\ Head(calls).table \notin open
       /\ open' = open \cup {Head(calls).table}
       /\ Begin(calls, "save")
  /\ UNCHANGED <<trees, meta, first, file, rows, tree, dml, damage>>

\* drop_table calls itself with the names of the indexes of the table, which drops
\* the tables of those names.
DropTable ==
  /\ \E calls \in Calls("drop_table") :
       LET t == Head(calls).table
           nested(f) == [n \in DOMAIN f |-> CallOf("drop_table", f[n], None)]
       IN /\ t \in open
          /\ open' = open \ {t}
          /\ \E f \in Orders(Covering(meta, t) \cap Tables) :
               Begin(nested(f) \o <<CallOf("unlink_table", t, None)>> \o Tail(calls), "call")
  /\ UNCHANGED <<trees, meta, first, file, rows, tree, dml, damage>>

\* There is no table of the index's name: IF EXISTS.
SkipDrop ==
  /\ up /\ ddl.pc = "call" /\ Subject.op = "drop_table" /\ Subject.table \notin open
  /\ ddl' = [ddl EXCEPT !.calls = Tail(@)]
  /\ UNCHANGED <<names, file, rows, tree, dml, damage, budget>>

\* Mutant: DROP TABLE ends with the files, without saving the names.
UnlinkTableOnly ==
  /\ up /\ ddl.pc = "call" /\ Subject.op = "unlink_table"
  /\ rows' = [rows EXCEPT ![Subject.table] = <<>>]
  /\ ddl' = IdleDdl
  /\ UNCHANGED <<names, file, tree, dml, damage, budget>>

\* The files of the table are removed; its indexes stay.
UnlinkTable ==
  /\ up /\ ddl.pc = "call" /\ Subject.op = "unlink_table"
  /\ rows' = [rows EXCEPT ![Subject.table] = <<>>]
  /\ damage' = [i \in Indexes |-> IF KeptFor(i) = Subject.table
                                 THEN damage[i] \cup {"Orphaned"} ELSE damage[i]]
  /\ dml' = [s \in Sessions |-> IF dml[s].pc \notin {"idle", "plan"} /\ dml[s].table = Subject.table
                               THEN [dml[s] EXCEPT !.lost = TRUE] ELSE dml[s]]
  /\ GoTo("save")
  /\ UNCHANGED <<names, file, tree, budget>>

\* The rows create_index enters: those that its reader, no transaction, sees.
Backfilled(t) ==
  [e \in Entries |->
     IF /\ e[2] \in DOMAIN rows[t] /\ rows[t][e[2]].key = e[1]
        /\ Visible(rows[t][e[2]], NoOne)
     THEN 1 ELSE 0]

\* A statement that has put the row into slot n will still enter it into index i:
\* not one that holds a tree of that name whose file is gone.
WillEnter(i, t, n) ==
  \E s \in Sessions :
    /\ dml[s].pc \in {"choose", "open", "enter"} /\ ~dml[s].lost
    /\ dml[s].table = t /\ dml[s].slot = n
    /\ dml[s].pc \in {"open", "enter"} => dml[s].index = i
    /\ dml[s].pc = "enter" => dml[s].age = 0

\* create_index: the tree is opened, and filled under the lock of the table.
CreateIndex ==
  \E calls \in Calls("create_index") :
     LET i == Head(calls).index
         t == Head(calls).table IN
     /\ meta[i] = None /\ t \in open
     /\ tree' = [tree EXCEPT ![i] = [e \in Entries |-> tree[i][e] + Backfilled(t)[e]]]
     /\ damage' = [damage EXCEPT ![i] =
          {c \in {"Leftover"} : tree[i] # NoEntries} \cup
          {c \in {"Misnamed"} : Saved(i) \notin {None, t}} \cup
          {c \in {"Running"} : \E n \in DOMAIN rows[t] :
             /\ rows[t][n].ins \in Sessions
             /\ ~WillEnter(i, t, n)}]
     /\ Begin(calls, "hook")
     /\ UNCHANGED <<names, file, rows, dml>>

HookTree ==
  /\ up /\ ddl.pc = "hook"
  /\ trees' = trees \cup {Subject.index}
  /\ GoTo("list")
  /\ UNCHANGED <<open, meta, first, file, rows, tree, dml, damage, budget>>

ListIndex ==
  /\ up /\ ddl.pc = "list"
  /\ meta' = [meta EXCEPT ![Subject.index] = Subject.table]
  /\ first' \in Firsts(meta')
  /\ GoTo("save")
  /\ UNCHANGED <<open, trees, file, rows, tree, dml, damage, budget>>

DropIndex ==
  /\ \E calls \in Calls("drop_index") :
       /\ Head(calls).index \in trees
       /\ trees' = trees \ {Head(calls).index}
       /\ Begin(calls, "unlist")
  /\ UNCHANGED <<open, meta, first, file, rows, tree, dml, damage>>

UnlistIndex ==
  /\ up /\ ddl.pc = "unlist"
  /\ meta' = [meta EXCEPT ![Subject.index] = None]
  /\ first' \in {f \in Firsts(meta') : \A t \in Tables : first[t] # Subject.index => f[t] = first[t]}
  /\ GoTo("unlink")
  /\ UNCHANGED <<open, trees, file, rows, tree, dml, damage, budget>>

\* A handle to the file that is removed is to a file without a name from now on.
Aged(st) ==
  IF st.pc \notin {"enter", "search"} \/ st.index # Subject.index THEN st
  ELSE IF st.pc = "enter" THEN [st EXCEPT !.age = @ + 1]
  ELSE [st EXCEPT !.age = @ + 1, !.found = Located(st)]

UnlinkIndex ==
  /\ up /\ ddl.pc = "unlink"
  /\ tree' = [tree EXCEPT ![Subject.index] = NoEntries]
  /\ damage' = [damage EXCEPT ![Subject.index] = {"FileGone"}]
  /\ dml' = [s \in Sessions |-> Aged(dml[s])]
  /\ GoTo("save")
  /\ UNCHANGED <<names, file, rows, budget>>

\* save_meta copies the names of the maps and overwrites the file with them: the
\* call is done, and the next one begins.  (No other session changes the names.)
SaveMeta ==
  /\ up /\ ddl.pc = "save"
  /\ json' = [tables |-> open, indexes |-> meta] /\ unsaved' = FALSE
  /\ ddl' = [pc |-> IF Len(ddl.calls) = 1 THEN "idle" ELSE "call", calls |-> Tail(ddl.calls)]
  /\ UNCHANGED <<names, rows, tree, dml, damage, budget>>

\* fs::write fails, before or after it has cut the file short: the rest of the
\* statement is not done, its transaction is aborted, and the maps keep the names.
SaveFails ==
  /\ up /\ ddl.pc = "save" /\ faults < MaxFaults /\ faults' = faults + 1
  /\ json' \in {json, Torn} /\ unsaved' = TRUE
  /\ ddl' = IdleDdl
  /\ rows' = Ended({Admin}, Void)
  /\ UNCHANGED <<names, tree, dml, damage, up, ddls>>

\* The process dies and starts again; a write under way may leave catalog.json
\* cut short, and then open() fails for good.
Crash ==
  /\ up /\ faults < MaxFaults /\ faults' = faults + 1
  /\ json' \in {json} \cup (IF ddl.pc = "save" THEN {Torn} ELSE {})
  /\ unsaved' = FALSE
  /\ up' = (json' # Torn)
  /\ open' = IF up' THEN json'.tables ELSE {}
  /\ meta' = IF up' THEN json'.indexes ELSE [i \in Indexes |-> None]
  /\ trees' = {i \in Indexes : meta'[i] # None}
  /\ first' \in Firsts(meta')
  /\ rows' = Ended(Sessions, Void)
  /\ ddl' = IdleDdl /\ dml' = [s \in Sessions |-> IdleDml]
  /\ UNCHANGED <<tree, damage, ddls>>

-----------------------------------------------------------------------------
DmlStep(s) ==
  \/ Commit(s) \/ Rollback(s)
  \/ \E t \in Tables :
       \/ \E k \in Keys : Insert(s, t, k)
       \/ \E n \in Slots : Delete(s, t, n) \/ (\E k \in Keys : Update(s, t, n, k))
       \/ Plan(s, t)
  \/ ChooseIndex(s) \/ OpenIndex(s) \/ EnterIndex(s) \/ EnterUnlinked(s)
  \/ (\E k \in Keys : OpenScan(s, k)) \/ SearchTree(s) \/ Fetch(s)
  \/ IndexGone(s)

DdlStep ==
  \/ CreateTable
  \/ DropTable \/ SkipDrop \/ UnlinkTable
  \/ CreateIndex \/ HookTree \/ ListIndex
  \/ DropIndex \/ UnlistIndex \/ UnlinkIndex
  \/ SaveMeta \/ SaveFails

Next == (\E s \in Sessions : DmlStep(s)) \/ DdlStep \/ Crash

Spec == Init /\ [][Next]_vars

-----------------------------------------------------------------------------
(* Properties *)

\* An index to which none of Causes has happened holds every row a transaction
\* can see exactly once, under the row's key, and leads to no other visible
\* row: a scan through it and a scan of the table agree, across rollbacks,
\* crashes, rebuilding by VACUUM and dropping (insert.rs, update.rs, catalog.rs).
Readable(i) == up /\ i \in trees /\ meta[i] \in open /\ damage[i] = {}
IndexExact ==
  \A i \in Indexes : Readable(i) =>
    \A n \in DOMAIN rows[meta[i]], k \in Keys, r \in Sessions \cup {NoOne} :
      LET row == rows[meta[i]][n]
      IN Visible(row, r) /\ ~WillEnter(i, meta[i], n)
           => tree[i][<<k, n>>] = IF row.key = k THEN 1 ELSE 0

\* A DDL statement whose last save did not fail is not undone by a restart: the
\* same tables are open and the same indexes, each for its table (save_meta, open).
RestartKeepsNames ==
  [][Crash /\ ddl = IdleDdl /\ ~unsaved => up' /\ UNCHANGED <<open, meta, trees>>]_vars

\* An index scan takes a handle to the tree of a name, lets go of its lock, and
\* then locks the table (indexscan.rs).  What others do in between, a VACUUM that
\* replaces the tree too, may change its answer, but it has only visible rows of
\* the key, and each row that was visible at first and still is: as long as the
\* name had not gone to an index of another table since the planner read it.
ScanIsBracketed ==
  \A s \in Sessions :
    LET st == dml[s]
    IN up /\ st.pc = "fetch" /\ ~st.lost =>
         /\ \A n \in Answer(s) : LET row == rows[st.table][n]
                                 IN row.key = st.key /\ Visible(row, s)
         /\ \A n \in st.due : Visible(rows[st.table][n], s) => n \in Answer(s)
=============================================================================
