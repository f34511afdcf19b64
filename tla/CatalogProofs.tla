---------------------------- MODULE CatalogProofs ----------------------------
(***************************************************************************)
(* Machine-checked theorems about Catalog, for any tables, indexes, keys   *)
(* and sessions: an undamaged index matches its table, a restart keeps the *)
(* names, and what an index scan returns.                                  *)
(***************************************************************************)
EXTENDS Catalog, TLAPS, FiniteSetTheorems

(***************************************************************************)
(* Types.                                                                  *)
(***************************************************************************)

\* What a session can be in the middle of.
Choosing == [pc : {"choose"}, table : Tables, slot : Slots, key : Keys, lost : BOOLEAN]
Opening == [pc : {"open"}, table : Tables, slot : Slots, key : Keys, lost : BOOLEAN,
            index : Indexes]
Indexing == [pc : {"enter"}, table : Tables, slot : Slots, key : Keys, lost : BOOLEAN,
             index : Indexes, age : Nat]
Planning == [pc : {"plan"}, table : Tables, index : Indexes]
Searching == [pc : {"search"}, table : Tables, key : Keys, index : Indexes, age : Nat,
              found : SUBSET Slots, lost : BOOLEAN, due : SUBSET Slots]
Fetching == [pc : {"fetch"}, table : Tables, key : Keys,
             found : SUBSET Slots, due : SUBSET Slots, lost : BOOLEAN]
Stmt == {IdleDml} \cup Choosing \cup Opening \cup Indexing \cup Planning \cup Searching \cup Fetching

\* A call names what it is about.
Proper == {c \in Call : /\ c.op \in {"create_table", "drop_table", "unlink_table"} => c.table \in Tables
                        /\ c.op = "create_index" => c.table \in Tables /\ c.index \in Indexes
                        /\ c.op = "drop_index" => c.index \in Indexes}

Steps == {"idle", "call", "unlist", "unlink", "hook", "list", "save"}
Aimed(pc, c) == /\ pc \in {"hook", "list"} => c.table \in Tables /\ c.index \in Indexes
                /\ pc \in {"unlist", "unlink"} => c.index \in Indexes

\* The last call of a list is not one that may be skipped.
EndsWell(calls) == calls # <<>> => calls[Len(calls)].op # "drop_table"

NamesOK == /\ open \subseteq Tables /\ trees \subseteq Indexes
           /\ meta \in [Indexes -> Tables \cup {None}] /\ first \in Firsts(meta)
           /\ json \in CatalogMeta \cup {Torn} /\ unsaved \in BOOLEAN
RowsOK == rows \in [Tables -> Seq(Row)] /\ \A t \in Tables : Len(rows[t]) <= MaxRows
TreeOK == tree \in [Indexes -> [Entries -> Nat]]
DdlOK == /\ ddl \in [pc : Steps, calls : Seq(Proper)]
         /\ ddl.pc = "idle" => ddl.calls = <<>>
         /\ ddl.pc # "idle" => ddl.calls # <<>> /\ Aimed(ddl.pc, Head(ddl.calls))
         /\ EndsWell(ddl.calls)
DmlOK == dml \in [Sessions -> Stmt]
DamageOK == damage \in [Indexes -> SUBSET Causes]
BudgetOK == /\ up \in BOOLEAN /\ ddls \in 0..MaxDdl /\ faults \in 0..MaxFaults
            /\ ~up => ddl = IdleDdl /\ \A s \in Sessions : dml[s] = IdleDml

\* The type invariant, with what a statement under way looks like.
TypeInv == NamesOK /\ RowsOK /\ TreeOK /\ DdlOK /\ DmlOK /\ DamageOK /\ BudgetOK

\* What a statement is follows from its pc.
LEMMA StmtKinds ==
  ASSUME NEW st \in Stmt
  PROVE  /\ st.pc \in {"idle", "choose", "open", "enter", "plan", "search", "fetch"}
         /\ st.pc = "idle" <=> st = IdleDml
         /\ st.pc = "choose" => st \in Choosing
         /\ st.pc = "open" => st \in Opening
         /\ st.pc = "enter" => st \in Indexing
         /\ st.pc = "plan" => st \in Planning
         /\ st.pc = "search" => st \in Searching
         /\ st.pc = "fetch" => st \in Fetching
BY DEF Stmt, IdleDml, Choosing, Opening, Indexing, Planning, Searching, Fetching

\* Calls that name what they are about are calls.
LEMMA ProperCalls ==
  ASSUME NEW calls \in Seq(Proper)
  PROVE  calls \in Seq(Call)
BY DEF Proper

\* The first index of a table is an index of that table.
LEMMA FirstsType ==
  ASSUME NEW m \in [Indexes -> Tables \cup {None}], NEW f \in Firsts(m), NEW t \in Tables
  PROVE  /\ f \in [Tables -> Indexes \cup {None}]
         /\ f[t] # None => f[t] \in Indexes /\ m[f[t]] = t
         /\ f[t] = None => \A i \in Indexes : m[i] # t
BY NamesAssumption DEF Firsts, Covering

\* The invariant says more than the types.
LEMMA TypeInvGivesTypeOK == TypeInv => TypeOK
<1> SUFFICES ASSUME TypeInv PROVE TypeOK
  OBVIOUS
<1>1. ddl.calls \in Seq(Call)
  BY ProperCalls DEF TypeInv, DdlOK
<1>2. \A s \in Sessions :
        /\ dml[s].pc \in {"idle", "choose", "open", "enter", "plan", "search", "fetch"}
        /\ dml[s].pc \in {"open", "enter", "plan", "search"} => dml[s].index \in Indexes
  BY StmtKinds DEF TypeInv, DmlOK, Opening, Indexing, Planning, Searching
<1>3. first \in [Tables -> Indexes \cup {None}]
  BY DEF TypeInv, NamesOK, Firsts
<1> QED
  BY <1>1, <1>2, <1>3 DEF TypeInv, TypeOK, NamesOK, RowsOK, TreeOK, DdlOK, DamageOK, BudgetOK, Steps

(***************************************************************************)
(* What the operators of Catalog return.                                   *)
(***************************************************************************)

\* Of row, that a transaction may see it now or later.
Live(row) == row.ins # Void /\ row.del # Done

\* The end of transactions rewrites the marks of rows: no row appears, loses its
\* key, or comes to life.
MarksRewritten(new, S, fate) ==
  /\ new \in [Tables -> Seq(Row)]
  /\ \A t \in Tables :
       /\ Len(new[t]) = Len(rows[t]) /\ DOMAIN new[t] = DOMAIN rows[t]
       /\ \A n \in DOMAIN rows[t] :
            /\ new[t][n].key = rows[t][n].key
            /\ Live(new[t][n]) => Live(rows[t][n])
            /\ rows[t][n].ins \notin S => new[t][n].ins = rows[t][n].ins
            /\ rows[t][n].ins \in S /\ fate = Void => ~Live(new[t][n])

\* After the status of S is set, every table has such versions.
LEMMA EndedRows ==
  ASSUME RowsOK, NEW S \in SUBSET Sessions, NEW fate \in {Done, Void}
  PROVE  MarksRewritten(Ended(S, fate), S, fate)
<1> DEFINE E == Ended(S, fate)
<1>1. ASSUME NEW t \in Tables
      PROVE  E[t] = [n \in DOMAIN rows[t] |-> EndedRow(rows[t][n], S, fate)]
  BY DEF Ended
<1>2. ASSUME NEW r \in Row
      PROVE  /\ EndedRow(r, S, fate) \in Row
             /\ EndedRow(r, S, fate).key = r.key
             /\ Live(EndedRow(r, S, fate)) => Live(r)
             /\ r.ins \notin S => EndedRow(r, S, fate).ins = r.ins
             /\ r.ins \in S /\ fate = Void => ~Live(EndedRow(r, S, fate))
  <2>1. Done \notin Sessions /\ Void \notin Sessions /\ None \notin Sessions /\ Done # None
        /\ Done # Void /\ Void # None
    BY MarksAssumption, NamesAssumption DEF Done, Void
  <2>2. r.key \in Keys /\ r.ins \in Sessions \cup {Done, Void} /\ r.del \in Sessions \cup {Done, None}
    BY DEF Row
  <2> HIDE DEF Done, Void
  <2> QED
    BY <2>1, <2>2 DEF EndedRow, Row, Live
<1>3. ASSUME NEW t \in Tables
      PROVE  /\ rows[t] \in Seq(Row) /\ Len(rows[t]) \in Nat /\ DOMAIN rows[t] = 1..Len(rows[t])
             /\ \A n \in DOMAIN rows[t] : rows[t][n] \in Row
  BY DEF RowsOK
<1>4. ASSUME NEW t \in Tables
      PROVE  E[t] \in Seq(Row) /\ Len(E[t]) = Len(rows[t]) /\ DOMAIN E[t] = DOMAIN rows[t]
  <2> DEFINE L == Len(rows[t])
  <2>1. L \in Nat /\ DOMAIN rows[t] = 1..L
    BY <1>3
  <2>2. E[t] = [n \in 1..L |-> EndedRow(rows[t][n], S, fate)]
    BY <1>1, <2>1
  <2>3. \A n \in 1..L : EndedRow(rows[t][n], S, fate) \in Row
    BY <1>2, <1>3
  <2> HIDE DEF L, E
  <2>4. E[t] \in [1..L -> Row]
    BY <2>2, <2>3
  <2>5. E[t] \in Seq(Row) /\ Len(E[t]) = L /\ DOMAIN E[t] = 1..L
    BY <2>1, <2>2, <2>4
  <2> QED
    BY <2>1, <2>5 DEF L
<1>5. E \in [Tables -> Seq(Row)]
  BY <1>4 DEF Ended
<1> QED
  BY <1>1, <1>2, <1>3, <1>4, <1>5 DEF MarksRewritten

\* Rewritten rows are rows.
LEMMA EndedTypes ==
  ASSUME RowsOK, NEW S \in SUBSET Sessions, NEW fate \in {Done, Void}, rows' = Ended(S, fate)
  PROVE  RowsOK'
BY EndedRows DEF RowsOK, MarksRewritten

\* Setting the xmax of a row leaves the rest of the table.
LEMMA DeletedRows ==
  ASSUME RowsOK, NEW t \in Tables, NEW n \in DOMAIN rows[t], NEW s \in Sessions
  PROVE  /\ Deleted(t, n, s) \in Seq(Row) /\ Len(Deleted(t, n, s)) = Len(rows[t])
         /\ DOMAIN Deleted(t, n, s) = DOMAIN rows[t]
         /\ \A m \in DOMAIN rows[t] : /\ Deleted(t, n, s)[m].key = rows[t][m].key
                                      /\ Deleted(t, n, s)[m].ins = rows[t][m].ins
                                      /\ m # n => Deleted(t, n, s)[m] = rows[t][m]
<1>1. rows[t] \in Seq(Row) /\ rows[t][n] \in Row
  BY DEF RowsOK
<1>2. [key |-> rows[t][n].key, ins |-> rows[t][n].ins, del |-> s] \in Row
  BY <1>1 DEF Row
<1> QED
  BY <1>1, <1>2 DEF Deleted

\* Orders are sequences.
LEMMA OrdersType ==
  ASSUME NEW S, IsFiniteSet(S), NEW f \in Orders(S)
  PROVE  f \in Seq(S) /\ Cardinality(S) \in Nat /\ f \in [1..Cardinality(S) -> S]
BY FS_CardinalityType DEF Orders

\* VACUUM's calls name the index they drop, and the index and table they create.
LEMMA RebuildsProper ==
  ASSUME NamesOK, NEW t \in Tables, Covering(meta, t) # {}, NEW calls \in Rebuilds(t)
  PROVE  calls \in Seq(Proper) /\ calls # <<>> /\ Head(calls).op = "drop_index" /\ EndsWell(calls)
<1> DEFINE C == Covering(meta, t)
           m == Cardinality(C)
<1>1. C \subseteq Indexes /\ IsFiniteSet(C) /\ m \in Nat /\ m # 0
  BY BoundsAssumption, FS_Subset, FS_CardinalityType, FS_EmptySet DEF Covering
<1>2. PICK f \in [1..m -> C] :
        calls = [n \in 1..(2 * m) |-> IF n % 2 = 1 THEN CallOf("drop_index", None, f[(n + 1) \div 2])
                                      ELSE CallOf("create_index", t, f[n \div 2])]
  BY DEF Rebuilds, Orders
<1>3. ASSUME NEW n \in 1..(2 * m) PROVE calls[n] \in Proper
  <2>1. n % 2 = 1 => (n + 1) \div 2 \in 1..m
    BY <1>1
  <2>2. n % 2 # 1 => n \div 2 \in 1..m
    BY <1>1
  <2>3. ASSUME NEW i \in Indexes
        PROVE  CallOf("drop_index", None, i) \in Proper /\ CallOf("create_index", t, i) \in Proper
    BY DEF CallOf, Proper, Call
  <2> HIDE DEF m, C
  <2>4. n % 2 = 1 => f[(n + 1) \div 2] \in Indexes
    BY <1>1, <2>1
  <2>5. n % 2 # 1 => f[n \div 2] \in Indexes
    BY <1>1, <2>2
  <2> QED
    BY <1>2, <2>3, <2>4, <2>5
<1> HIDE DEF m, C
<1>4. 2 * m \in Nat /\ 2 * m # 0 /\ 1 \in 1..(2 * m) /\ 2 * m \in 1..(2 * m)
      /\ (2 * m) % 2 = 0 /\ 1 % 2 = 1
  BY <1>1
<1>5. calls \in [1..(2 * m) -> Proper]
  BY <1>2, <1>3
<1>6. calls \in Seq(Proper) /\ calls # <<>> /\ Len(calls) = 2 * m /\ Head(calls) = calls[1]
  BY <1>4, <1>5
<1>7. calls[1].op = "drop_index" /\ calls[2 * m].op = "create_index"
  BY <1>2, <1>4 DEF CallOf
<1> QED
  BY <1>6, <1>7 DEF EndsWell

\* Of the list that starts with a call of op, the end.
LEMMA TailEnds ==
  ASSUME NEW calls \in Seq(Proper), calls # <<>>, EndsWell(calls)
  PROVE  EndsWell(Tail(calls))
BY DEF EndsWell

\* The calls that an action may take the first of.
LEMMA CallsProper ==
  ASSUME TypeInv, NEW op, NEW calls \in Calls(op)
  PROVE  /\ calls \in Seq(Proper) /\ calls # <<>> /\ Head(calls) \in Proper /\ Head(calls).op = op
         /\ EndsWell(Tail(calls)) /\ (op # "drop_table" => EndsWell(calls))
         /\ up /\ ddl.pc \in {"idle", "call"}
         /\ ddl = IdleDdl => ddls < MaxDdl
<1>1. CASE ddl.pc = "call"
  <2>1. calls = ddl.calls /\ Head(calls).op = op /\ ddl # IdleDdl
    BY <1>1 DEF Calls, IdleDdl
  <2>2. calls \in Seq(Proper) /\ calls # <<>> /\ EndsWell(calls)
    BY <1>1, <2>1 DEF TypeInv, DdlOK
  <2>3. Head(calls) \in Proper /\ EndsWell(Tail(calls))
    BY <2>2, TailEnds
  <2> QED
    BY <1>1, <2>1, <2>2, <2>3 DEF TypeInv, BudgetOK
<1>2. CASE ddl.pc # "call"
  <2>1. Free(Admin) /\ ddls < MaxDdl /\ calls \in Statements /\ Head(calls).op = op
    BY <1>2 DEF Calls
  <2>2. up /\ ddl.pc = "idle"
    BY <2>1 DEF Free, IdleDdl
  <2>3. /\ calls \in Seq(Proper) /\ calls # <<>>
        /\ EndsWell(Tail(calls)) /\ (op # "drop_table" => EndsWell(calls))
    <3>0. ASSUME NEW c \in Proper, calls = <<c>>
          PROVE  /\ calls \in Seq(Proper) /\ calls # <<>>
                 /\ EndsWell(Tail(calls)) /\ (op # "drop_table" => EndsWell(calls))
      <4>1. calls \in Seq(Proper) /\ Len(calls) = 1 /\ calls[1] = c /\ Head(calls) = c /\ Tail(calls) = <<>>
        BY <3>0
      <4>2. EndsWell(Tail(calls))
        BY <4>1 DEF EndsWell
      <4>3. calls[Len(calls)].op = op
        BY <2>1, <4>1
      <4>4. op # "drop_table" => EndsWell(calls)
        BY <4>3 DEF EndsWell
      <4>5. calls # <<>>
        BY <3>0
      <4> QED
        BY <4>1, <4>2, <4>4, <4>5
    <3>1. CASE \E t \in Tables : t \in open /\ Covering(meta, t) # {} /\ calls \in Rebuilds(t)
      BY <3>1, RebuildsProper, TailEnds DEF TypeInv
    <3>2. CASE \E t \in Tables : \/ calls = <<CallOf("create_table", t, None)>>
                                 \/ calls = <<CallOf("drop_table", t, None)>>
      <4>1. ASSUME NEW t \in Tables
            PROVE  CallOf("create_table", t, None) \in Proper /\ CallOf("drop_table", t, None) \in Proper
        BY DEF CallOf, Proper, Call
      <4> QED
        BY <3>0, <3>2, <4>1
    <3>3. CASE \E t \in Tables, i \in Indexes : calls = <<CallOf("create_index", t, i)>>
      <4>1. ASSUME NEW t \in Tables, NEW i \in Indexes PROVE CallOf("create_index", t, i) \in Proper
        BY DEF CallOf, Proper, Call
      <4> QED
        BY <3>0, <3>3, <4>1
    <3>4. CASE \E i \in Indexes : calls = <<CallOf("drop_index", None, i)>>
      <4>1. ASSUME NEW i \in Indexes PROVE CallOf("drop_index", None, i) \in Proper
        BY DEF CallOf, Proper, Call
      <4> QED
        BY <3>0, <3>4, <4>1
    <3> DEFINE About(t) ==
          {<<CallOf("create_table", t, None)>>, <<CallOf("drop_table", t, None)>>}
            \cup {<<CallOf("create_index", t, i)>> : i \in Indexes}
            \cup (IF t \in open /\ Covering(meta, t) # {} THEN Rebuilds(t) ELSE {})
    <3>5. \/ \E t \in Tables : calls \in About(t)
          \/ \E i \in Indexes : calls = <<CallOf("drop_index", None, i)>>
      <4>1. Statements = (UNION {About(t) : t \in Tables})
                           \cup {<<CallOf("drop_index", None, i)>> : i \in Indexes}
        BY DEF Statements
      <4> HIDE DEF About
      <4> QED
        BY <2>1, <4>1
    <3> QED
      BY <3>1, <3>2, <3>3, <3>4, <3>5
  <2>4. Head(calls) \in Proper
    BY <2>3
  <2> QED
    BY <2>1, <2>2, <2>3, <2>4
<1> QED
  BY <1>1, <1>2

(***************************************************************************)
(* Each action keeps the types.                                            *)
(***************************************************************************)

\* The parts of TypeInv that an action leaves alone, by what it leaves alone.
LEMMA SameTypes ==
  /\ NamesOK /\ UNCHANGED <<names, file>> => NamesOK'
  /\ RowsOK /\ UNCHANGED rows => RowsOK'
  /\ TreeOK /\ UNCHANGED tree => TreeOK'
  /\ DdlOK /\ UNCHANGED ddl => DdlOK'
  /\ DmlOK /\ UNCHANGED dml => DmlOK'
  /\ DamageOK /\ UNCHANGED damage => DamageOK'
  /\ BudgetOK /\ up /\ UNCHANGED budget => BudgetOK'
BY DEF NamesOK, RowsOK, TreeOK, DdlOK, DmlOK, DamageOK, BudgetOK, names, file, budget

\* A session begins, continues or ends a statement.
LEMMA StatementTypes ==
  ASSUME DmlOK, NEW s \in Sessions, NEW st \in Stmt, dml' = [dml EXCEPT ![s] = st]
  PROVE  DmlOK' /\ dml'[s] = st /\ \A r \in Sessions \ {s} : dml'[r] = dml[r]
BY DEF DmlOK

\* What Commit, Rollback and a statement that fails do to the rows.
LEMMA EndTypes ==
  ASSUME TypeInv, NEW S \in SUBSET Sessions, NEW fate \in {Done, Void}, rows' = Ended(S, fate),
         up, UNCHANGED <<names, file, tree, ddl, damage, budget>>,
         UNCHANGED dml \/ DmlOK'
  PROVE  TypeInv'
BY EndedTypes, SameTypes DEF TypeInv, budget

\* A row at the end of a table that has room.
LEMMA AppendedRows ==
  ASSUME NEW rs \in Seq(Row), NEW k \in Keys, NEW s \in Sessions, Len(rs) < MaxRows
  PROVE  LET new == Append(rs, [key |-> k, ins |-> s, del |-> None]) IN
         /\ new \in Seq(Row) /\ Len(new) = Len(rs) + 1 /\ Len(new) <= MaxRows
         /\ Len(rs) + 1 \in Slots
         /\ \A n \in DOMAIN rs : n \in DOMAIN new /\ new[n] = rs[n]
         /\ DOMAIN new = DOMAIN rs \cup {Len(rs) + 1}
         /\ new[Len(rs) + 1] = [key |-> k, ins |-> s, del |-> None]
<1>1. [key |-> k, ins |-> s, del |-> None] \in Row
  BY DEF Row
<1> QED
  BY <1>1, BoundsAssumption DEF Slots

\* The rows and the statement after one that has put a row into the table.
LEMMA EnteringTypes ==
  ASSUME RowsOK, DmlOK, NEW s \in Sessions, NEW t \in Tables, NEW k \in Keys,
         NEW rs \in Seq(Row), Len(rs) = Len(rows[t]), Len(rows[t]) < MaxRows,
         rows' = [rows EXCEPT ![t] = Append(rs, [key |-> k, ins |-> s, del |-> None])],
         dml' = [dml EXCEPT ![s] = Entering(t, k)]
  PROVE  RowsOK' /\ DmlOK'
<1>1. RowsOK'
  BY AppendedRows DEF RowsOK
<1>2. Entering(t, k) \in Choosing
  BY AppendedRows DEF Entering, Choosing
<1> QED
  BY <1>1, <1>2, StatementTypes DEF Stmt

\* INSERT, up to its index entry.
LEMMA InsertTypes ==
  ASSUME TypeInv, NEW s \in Sessions, NEW t \in Tables, NEW k \in Keys, Insert(s, t, k)
  PROVE  TypeInv'
<1>1. rows[t] \in Seq(Row)
  BY DEF TypeInv, RowsOK
<1>2. RowsOK' /\ DmlOK'
  BY <1>1, EnteringTypes DEF TypeInv, Insert
<1> QED
  BY <1>2, SameTypes DEF TypeInv, Insert, Free, budget

\* UPDATE, up to its index entry.
LEMMA UpdateTypes ==
  ASSUME TypeInv, NEW s \in Sessions, NEW t \in Tables, NEW n \in Slots, NEW k \in Keys,
         Update(s, t, n, k)
  PROVE  TypeInv'
<1>1. n \in DOMAIN rows[t] /\ Len(rows[t]) < MaxRows
  BY DEF Update
<1>2. Deleted(t, n, s) \in Seq(Row) /\ Len(Deleted(t, n, s)) = Len(rows[t])
  BY <1>1, DeletedRows DEF TypeInv
<1>3. RowsOK' /\ DmlOK'
  BY <1>1, <1>2, EnteringTypes DEF TypeInv, Update
<1> QED
  BY <1>3, SameTypes DEF TypeInv, Update, Free, budget

\* DELETE.
LEMMA DeleteTypes ==
  ASSUME TypeInv, NEW s \in Sessions, NEW t \in Tables, NEW n \in Slots, Delete(s, t, n)
  PROVE  TypeInv'
<1>1. n \in DOMAIN rows[t]
  BY DEF Delete
<1>2. Deleted(t, n, s) \in Seq(Row) /\ Len(Deleted(t, n, s)) = Len(rows[t])
  BY <1>1, DeletedRows DEF TypeInv
<1>3. RowsOK'
  BY <1>2 DEF TypeInv, RowsOK, Delete
<1> QED
  BY <1>3, SameTypes DEF TypeInv, Delete, Free, budget

\* The index that is chosen exists.
LEMMA ChooseTypes ==
  ASSUME TypeInv, NEW s \in Sessions, ChooseIndex(s)
  PROVE  TypeInv'
<1>1. PICK st \in Choosing : st = dml[s]
  BY StmtKinds DEF TypeInv, DmlOK, ChooseIndex
<1>2. PICK i \in Indexes \cup {None} : i = first[st.table]
  BY <1>1, FirstsType DEF Choosing, TypeInv, NamesOK
<1>3. DmlOK'
  <2>1. CASE i = None
    BY <1>1, <1>2, <2>1, StatementTypes DEF TypeInv, ChooseIndex, Stmt
  <2>2. CASE i # None
    <3>1. [pc |-> "open", table |-> st.table, slot |-> st.slot, key |-> st.key, lost |-> st.lost,
           index |-> i] \in Opening
      BY <1>1, <1>2, <2>2 DEF Choosing, Opening
    <3> QED
      BY <1>1, <1>2, <2>2, <3>1, StatementTypes DEF TypeInv, ChooseIndex, Stmt
  <2> QED
    BY <2>1, <2>2
<1>4. DamageOK'
  BY DEF TypeInv, DamageOK, ChooseIndex, Causes
<1> QED
  BY <1>3, <1>4, SameTypes DEF TypeInv, ChooseIndex, budget

\* A handle to the tree is taken.
LEMMA OpenTypes ==
  ASSUME TypeInv, NEW s \in Sessions, OpenIndex(s)
  PROVE  TypeInv'
<1>1. PICK st \in Opening : st = dml[s]
  BY StmtKinds DEF TypeInv, DmlOK, OpenIndex
<1>2. PICK lost \in BOOLEAN : lost = (st.lost \/ KeptFor(st.index) # st.table)
  BY DEF Opening
<1>3. [pc |-> "enter", table |-> st.table, slot |-> st.slot, key |-> st.key, lost |-> lost,
       index |-> st.index, age |-> 0] \in Indexing
  BY DEF Opening, Indexing
<1>4. dml' = [dml EXCEPT ![s] = [pc |-> "enter", table |-> st.table, slot |-> st.slot,
                                 key |-> st.key, lost |-> lost, index |-> st.index, age |-> 0]]
  BY <1>1, <1>2 DEF OpenIndex
<1>5. DmlOK'
  BY <1>3, <1>4, StatementTypes DEF TypeInv, Stmt
<1> QED
  BY <1>5, SameTypes DEF TypeInv, OpenIndex, budget

\* A scan that another statement's entry reaches stays a scan.
LEMMA SharedStmt ==
  ASSUME NEW st \in Searching, NEW lost \in BOOLEAN, NEW found \in SUBSET Slots
  PROVE  /\ [st EXCEPT !.lost = @ \/ lost] \in Searching
         /\ [st EXCEPT !.lost = @ \/ lost, !.found = found] \in Searching
<1>1. (st.lost \/ lost) \in BOOLEAN
  BY DEF Searching
<1> QED
  BY <1>1 DEF Searching

\* One more entry in a tree.
LEMMA EnterTypes ==
  ASSUME TypeInv, NEW s \in Sessions, EnterIndex(s)
  PROVE  TypeInv'
<1>1. PICK st \in Indexing : st = dml[s]
  BY StmtKinds DEF TypeInv, DmlOK, EnterIndex
<1>2. /\ tree' = [tree EXCEPT ![st.index] = Entered(st.index, <<st.key, st.slot>>)]
      /\ dml' = [q \in Sessions |->
                   IF q = s THEN IdleDml
                   ELSE IF q \in Sharing(st) THEN [dml[q] EXCEPT !.lost = @ \/ st.lost] ELSE dml[q]]
      /\ damage' = IF st.lost THEN [damage EXCEPT ![st.index] = @ \cup {"LateEntry"}] ELSE damage
  BY <1>1, Zenon DEF EnterIndex
<1>3. DmlOK'
  <2>1. ASSUME NEW q \in Sharing(st) PROVE [dml[q] EXCEPT !.lost = @ \/ st.lost] \in Stmt
    <3>1. q \in Sessions /\ dml[q] \in Searching /\ st.lost \in BOOLEAN
      BY StmtKinds DEF Sharing, TypeInv, DmlOK, Indexing
    <3> QED
      BY <3>1, SharedStmt DEF Stmt
  <2>2. \A q \in Sessions : dml[q] \in Stmt /\ IdleDml \in Stmt
    BY DEF TypeInv, DmlOK, Stmt
  <2> HIDE DEF Stmt
  <2> QED
    BY <1>2, <2>1, <2>2 DEF DmlOK
<1>4. TreeOK'
  <2>1. PICK e \in Entries : e = <<st.key, st.slot>>
    BY <1>1 DEF Indexing, Entries
  <2>2. Entered(st.index, e) \in [Entries -> Nat]
    BY <1>1 DEF Entered, TypeInv, TreeOK, Indexing
  <2> QED
    BY <1>2, <2>1, <2>2 DEF TypeInv, TreeOK
<1>5. DamageOK'
  BY <1>2 DEF TypeInv, DamageOK, Causes
<1> QED
  BY <1>3, <1>4, <1>5, SameTypes DEF TypeInv, EnterIndex, budget

\* One more entry in a tree without a name.
LEMMA UnlinkedTypes ==
  ASSUME TypeInv, NEW s \in Sessions, EnterUnlinked(s)
  PROVE  TypeInv'
<1>1. PICK st \in Indexing : st = dml[s]
  BY StmtKinds DEF TypeInv, DmlOK, EnterUnlinked
<1>2. dml' = [q \in Sessions |->
                IF q = s THEN IdleDml
                ELSE IF q \in Sharing(st)
                THEN [dml[q] EXCEPT !.lost = @ \/ st.lost,
                                    !.found = IF dml[q].key = st.key THEN @ \cup {st.slot} ELSE @]
                ELSE dml[q]]
  BY <1>1, Zenon DEF EnterUnlinked
<1>3. DmlOK'
  <2>1. ASSUME NEW q \in Sharing(st)
        PROVE  [dml[q] EXCEPT !.lost = @ \/ st.lost,
                              !.found = IF dml[q].key = st.key THEN @ \cup {st.slot} ELSE @] \in Stmt
    <3>1. q \in Sessions /\ dml[q] \in Searching /\ st.lost \in BOOLEAN /\ st.slot \in Slots
      BY StmtKinds DEF Sharing, TypeInv, DmlOK, Indexing
    <3>2. PICK found \in SUBSET Slots :
            found = IF dml[q].key = st.key THEN dml[q].found \cup {st.slot} ELSE dml[q].found
      BY <3>1 DEF Searching
    <3>3. [dml[q] EXCEPT !.lost = @ \/ st.lost, !.found = found] \in Searching
      BY <3>1, SharedStmt
    <3> QED
      BY <3>2, <3>3 DEF Stmt
  <2>2. \A q \in Sessions : dml[q] \in Stmt /\ IdleDml \in Stmt
    BY DEF TypeInv, DmlOK, Stmt
  <2> HIDE DEF Stmt
  <2> QED
    BY <1>2, <2>1, <2>2 DEF DmlOK
<1> QED
  BY <1>3, SameTypes DEF TypeInv, EnterUnlinked, budget

\* A statement that does not find its index.
LEMMA GoneTypes ==
  ASSUME TypeInv, NEW s \in Sessions, IndexGone(s)
  PROVE  TypeInv'
<1>1. DmlOK'
  BY StatementTypes DEF TypeInv, IndexGone, Stmt
<1> QED
  BY <1>1, EndTypes DEF IndexGone

\* A plan names an index of the table.
LEMMA PlanTypes ==
  ASSUME TypeInv, NEW s \in Sessions, NEW t \in Tables, Plan(s, t)
  PROVE  TypeInv'
<1>1. PICK i \in Indexes : i = first[t]
  BY FirstsType DEF Plan, TypeInv, NamesOK
<1>2. DmlOK'
  <2>1. [pc |-> "plan", table |-> t, index |-> i] \in Planning
    BY DEF Planning
  <2> QED
    BY <1>1, <2>1, StatementTypes DEF Plan, TypeInv, Stmt
<1> QED
  BY <1>2, SameTypes DEF TypeInv, Plan, Free, budget

\* A scan begins with what the reader can see.
Scanning(s, t, k, i) ==
  [pc |-> "search", table |-> t, key |-> k, index |-> i, age |-> 0, found |-> {},
   lost |-> KeptFor(i) # t,
   due |-> {n \in DOMAIN rows[t] : Visible(rows[t][n], s) /\ rows[t][n].key = k}]

\* A scan that begins is one.
LEMMA ScanningType ==
  ASSUME RowsOK, NEW s \in Sessions, NEW t \in Tables, NEW k \in Keys, NEW i \in Indexes
  PROVE  Scanning(s, t, k, i) \in Searching
<1>1. DOMAIN rows[t] \subseteq Slots
  BY BoundsAssumption DEF RowsOK, Slots
<1>2. PICK lost \in BOOLEAN : lost = (KeptFor(i) # t)
  OBVIOUS
<1> QED
  BY <1>1, <1>2 DEF Scanning, Searching

\* A scan is opened, or not followed.
LEMMA OpenScanTypes ==
  ASSUME TypeInv, NEW s \in Sessions, NEW k \in Keys, OpenScan(s, k)
  PROVE  TypeInv'
<1>1. PICK st \in Planning : st = dml[s]
  BY StmtKinds DEF TypeInv, DmlOK, OpenScan
<1>2. PICK new \in Stmt : dml' = [dml EXCEPT ![s] = new]
  <2>1. Scanning(s, st.table, k, st.index) \in Stmt /\ IdleDml \in Stmt
    BY ScanningType DEF TypeInv, Planning, Stmt
  <2>2. dml' = [dml EXCEPT ![s] = IF damage[st.index] # {} THEN IdleDml
                                  ELSE Scanning(s, st.table, k, st.index)]
    BY <1>1, Zenon DEF OpenScan, Scanning
  <2> QED
    BY <2>1, <2>2
<1>3. DmlOK'
  BY <1>2, StatementTypes DEF TypeInv
<1> QED
  BY <1>3, SameTypes DEF TypeInv, OpenScan, budget

\* The slots found are slots.
LEMMA SearchTypes ==
  ASSUME TypeInv, NEW s \in Sessions, SearchTree(s)
  PROVE  TypeInv'
<1>1. PICK st \in Searching : st = dml[s]
  BY StmtKinds DEF TypeInv, DmlOK, SearchTree
<1>2. PICK new \in Fetching : dml' = [dml EXCEPT ![s] = new]
  <2>1. Located(st) \in SUBSET Slots
    BY DEF Located, Searching
  <2>2. [pc |-> "fetch", table |-> st.table, key |-> st.key, found |-> Located(st),
         due |-> st.due, lost |-> st.lost] \in Fetching
    BY <2>1 DEF Searching, Fetching
  <2> QED
    BY <1>1, <2>2 DEF SearchTree
<1>3. DmlOK'
  BY <1>2, StatementTypes DEF TypeInv, Stmt
<1> QED
  BY <1>3, SameTypes DEF TypeInv, SearchTree, budget

\* The end of an index scan.
LEMMA FetchTypes ==
  ASSUME TypeInv, NEW s \in Sessions, Fetch(s)
  PROVE  TypeInv'
<1>1. DmlOK'
  BY StatementTypes DEF TypeInv, Fetch, Stmt
<1>2. CASE rows' = rows
  BY <1>1, <1>2, SameTypes DEF TypeInv, Fetch, budget
<1>3. CASE rows' = Ended({s}, Void)
  BY <1>1, <1>3, EndTypes DEF Fetch
<1> QED
  BY <1>2, <1>3 DEF Fetch

\* Every step of a statement on rows keeps the types.
LEMMA DmlTypes ==
  ASSUME TypeInv, NEW s \in Sessions, DmlStep(s)
  PROVE  TypeInv'
<1>1. CASE Commit(s)
  BY <1>1, EndTypes DEF Commit, Free
<1>2. CASE Rollback(s)
  BY <1>2, EndTypes DEF Rollback, Free
<1> QED
  BY <1>1, <1>2, InsertTypes, DeleteTypes, UpdateTypes, ChooseTypes, OpenTypes, EnterTypes,
     UnlinkedTypes, GoneTypes, PlanTypes, OpenScanTypes, SearchTypes, FetchTypes DEF DmlStep

\* A call's first step.
LEMMA BeginTypes ==
  ASSUME TypeInv, NEW calls \in Seq(Proper), calls # <<>>, EndsWell(calls), up,
         ddl = IdleDdl => ddls < MaxDdl,
         NEW pc \in Steps, pc # "idle", Aimed(pc, Head(calls)), Begin(calls, pc)
  PROVE  DdlOK' /\ BudgetOK' /\ up' = up
<1>1. DdlOK'
  BY DEF DdlOK, Begin
<1>2. BudgetOK'
  BY BoundsAssumption DEF TypeInv, BudgetOK, Begin
<1> QED
  BY <1>1, <1>2 DEF Begin

\* A later step of the call.
LEMMA GoToTypes ==
  ASSUME TypeInv, NEW pc \in Steps, pc # "idle", ddl.pc # "idle", Aimed(pc, Subject), GoTo(pc)
  PROVE  DdlOK'
BY DEF TypeInv, DdlOK, GoTo, Subject

\* What a call in its pc-th step is about.
LEMMA SubjectType ==
  ASSUME TypeInv
  PROVE  /\ ddl.pc # "idle" => up /\ Subject \in Proper
         /\ ddl.pc \in {"hook", "list"} => Subject.table \in Tables /\ Subject.index \in Indexes
         /\ ddl.pc \in {"unlist", "unlink"} => Subject.index \in Indexes
BY DEF TypeInv, DdlOK, BudgetOK, IdleDdl, Aimed, Subject

\* A statement whose table is dropped stays what it is.
LEMMA LostStmt ==
  ASSUME NEW st \in Stmt, st.pc \notin {"idle", "plan"}
  PROVE  LET new == [st EXCEPT !.lost = TRUE] IN
         /\ new \in Stmt /\ new.pc = st.pc /\ new.table = st.table /\ new.lost = TRUE
         /\ st.pc \in {"enter", "search"} => new.index = st.index /\ new.age = st.age
<1>1. CASE st \in Choosing
  BY <1>1 DEF Stmt, Choosing
<1>2. CASE st \in Opening
  BY <1>2 DEF Stmt, Opening
<1>3. CASE st \in Indexing
  BY <1>3 DEF Stmt, Indexing
<1>4. CASE st \in Searching
  BY <1>4 DEF Stmt, Searching
<1>5. CASE st \in Fetching
  BY <1>5 DEF Stmt, Fetching
<1> QED
  BY <1>1, <1>2, <1>3, <1>4, <1>5 DEF Stmt, IdleDml, Planning

\* A list of calls ends as its second part does, if there is one.
LEMMA JoinedCalls ==
  ASSUME NEW a \in Seq(Proper), NEW b \in Seq(Proper), EndsWell(b), b = <<>> => EndsWell(a)
  PROVE  /\ a \o b \in Seq(Proper) /\ EndsWell(a \o b)
         /\ a # <<>> \/ b # <<>> => a \o b # <<>>
<1>1. /\ a \o b \in Seq(Proper) /\ Len(a \o b) = Len(a) + Len(b)
      /\ \A n \in 1..Len(a \o b) : (a \o b)[n] = IF n <= Len(a) THEN a[n] ELSE b[n - Len(a)]
      /\ Len(a) \in Nat /\ Len(b) \in Nat
  OBVIOUS
<1>2. a # <<>> \/ b # <<>> => a \o b # <<>>
  BY <1>1
<1>3. CASE b = <<>>
  BY <1>1, <1>3 DEF EndsWell
<1>4. CASE b # <<>>
  <2>1. Len(b) > 0
    BY <1>4
  <2>2. (a \o b)[Len(a \o b)] = b[Len(b)]
    BY <1>1, <2>1
  <2> QED
    BY <1>1, <1>2, <1>4, <2>2 DEF EndsWell
<1> QED
  BY <1>2, <1>3, <1>4

\* What DROP TABLE has to do still, after the table is off the map.
DropCalls(t, f, rest) ==
  [n \in DOMAIN f |-> CallOf("drop_table", f[n], None)] \o <<CallOf("unlink_table", t, None)>> \o rest

\* The calls of DROP TABLE name tables, and end well.
LEMMA DropCallsProper ==
  ASSUME NEW t \in Tables, NEW C \in SUBSET Tables, IsFiniteSet(C), NEW f \in Orders(C),
         NEW rest \in Seq(Proper), EndsWell(rest)
  PROVE  /\ DropCalls(t, f, rest) \in Seq(Proper) /\ DropCalls(t, f, rest) # <<>>
         /\ EndsWell(DropCalls(t, f, rest))
<1> DEFINE m == Cardinality(C)
           nested == [n \in DOMAIN f |-> CallOf("drop_table", f[n], None)]
           last == <<CallOf("unlink_table", t, None)>>
<1>1. m \in Nat /\ f \in [1..m -> C]
  BY OrdersType
<1>2. \A x \in Tables : CallOf("drop_table", x, None) \in Proper /\ CallOf("unlink_table", x, None) \in Proper
  BY DEF CallOf, Proper, Call
<1>3. nested \in [1..m -> Proper]
  BY <1>1, <1>2
<1>4. nested \in Seq(Proper)
  BY <1>1, <1>3
<1>5. last \in Seq(Proper) /\ Len(last) = 1 /\ last[1] = CallOf("unlink_table", t, None) /\ last # <<>>
  BY <1>2
<1>6. last[Len(last)].op = "unlink_table"
  BY <1>5 DEF CallOf
<1> HIDE DEF nested, last
<1>7. /\ nested \o last \in Seq(Proper) /\ nested \o last # <<>> /\ EndsWell(nested \o last)
  <2>1. EndsWell(last)
    BY <1>6 DEF EndsWell
  <2> QED
    BY <1>4, <1>5, <2>1, JoinedCalls
<1>8. (nested \o last) \o rest \in Seq(Proper) /\ (nested \o last) \o rest # <<>>
      /\ EndsWell((nested \o last) \o rest)
  BY <1>7, JoinedCalls
<1> QED
  BY <1>8 DEF DropCalls, nested, last

\* What DROP TABLE does at first.
LEMMA DropTableBegins ==
  ASSUME TypeInv, DropTable
  PROVE  \E t \in Tables, calls \in Seq(Proper) :
            /\ t \in open /\ open' = open \ {t} /\ Begin(calls, "call")
            /\ calls # <<>> /\ EndsWell(calls)
            /\ up /\ ddl.pc \in {"idle", "call"} /\ (ddl = IdleDdl => ddls < MaxDdl)
<1>1. PICK calls \in Calls("drop_table") :
        LET t == Head(calls).table
        IN /\ t \in open /\ open' = open \ {t}
           /\ \E f \in Orders(Covering(meta, t) \cap Tables) : Begin(DropCalls(t, f, Tail(calls)), "call")
  BY Zenon DEF DropTable, DropCalls
<1>2. /\ calls \in Seq(Proper) /\ calls # <<>> /\ Head(calls) \in Proper /\ Head(calls).op = "drop_table"
      /\ EndsWell(Tail(calls)) /\ up /\ ddl.pc \in {"idle", "call"} /\ (ddl = IdleDdl => ddls < MaxDdl)
  BY CallsProper
<1>3. PICK t \in Tables : t = Head(calls).table
  BY <1>2 DEF Proper
<1>4. PICK f \in Orders(Covering(meta, t) \cap Tables) : Begin(DropCalls(t, f, Tail(calls)), "call")
  BY <1>1, <1>3
<1>5. IsFiniteSet(Covering(meta, t) \cap Tables)
  BY BoundsAssumption, FS_Subset DEF Covering
<1>6. Tail(calls) \in Seq(Proper)
  BY <1>2
<1>7. /\ DropCalls(t, f, Tail(calls)) \in Seq(Proper) /\ DropCalls(t, f, Tail(calls)) # <<>>
      /\ EndsWell(DropCalls(t, f, Tail(calls)))
  BY <1>2, <1>5, <1>6, DropCallsProper
<1> QED
  BY <1>1, <1>2, <1>3, <1>4, <1>7

\* The rest of a list of calls is one, and empty when there was only one left.
LEMMA RestTypes ==
  ASSUME NEW calls \in Seq(Proper), calls # <<>>, EndsWell(calls)
  PROVE  /\ Tail(calls) \in Seq(Proper) /\ EndsWell(Tail(calls))
         /\ Tail(calls) = <<>> <=> Len(calls) = 1
<1>1. ASSUME NEW q \in Seq(Proper) PROVE q = <<>> <=> Len(q) = 0
  OBVIOUS
<1>2. Tail(calls) \in Seq(Proper) /\ Len(Tail(calls)) = Len(calls) - 1 /\ Len(calls) \in Nat
  OBVIOUS
<1>3. Tail(calls) = <<>> <=> Len(Tail(calls)) = 0
  BY <1>1, <1>2
<1>4. Len(Tail(calls)) = 0 <=> Len(calls) = 1
  BY <1>2
<1> QED
  BY <1>2, <1>3, <1>4, TailEnds

\* CREATE TABLE and DROP TABLE.
LEMMA TableTypes ==
  ASSUME TypeInv, CreateTable \/ DropTable \/ SkipDrop \/ UnlinkTable
  PROVE  TypeInv'
<1>1. CASE CreateTable
  <2>1. PICK calls \in Calls("create_table") :
          open' = open \cup {Head(calls).table} /\ Begin(calls, "save")
    BY <1>1 DEF CreateTable
  <2>2. Head(calls).table \in Tables
    BY CallsProper DEF Proper
  <2>3. DdlOK' /\ BudgetOK' /\ up' = up
    BY <2>1, CallsProper, BeginTypes DEF Steps, Aimed
  <2>4. NamesOK'
    BY <1>1, <2>1, <2>2, <2>3 DEF TypeInv, NamesOK, CreateTable, file
  <2> QED
    BY <1>1, <2>3, <2>4, SameTypes DEF TypeInv, CreateTable
<1>2. CASE DropTable
  <2>1. PICK t \in Tables, calls \in Seq(Proper) :
            /\ t \in open /\ open' = open \ {t} /\ Begin(calls, "call")
            /\ calls # <<>> /\ EndsWell(calls)
            /\ up /\ ddl.pc \in {"idle", "call"} /\ (ddl = IdleDdl => ddls < MaxDdl)
    BY <1>2, DropTableBegins
  <2>2. DdlOK' /\ BudgetOK' /\ up' = up
    BY <2>1, BeginTypes DEF Steps, Aimed
  <2>3. UNCHANGED <<trees, meta, first, file, rows, tree, dml, damage>>
    BY <1>2, Zenon DEF DropTable
  <2>4. NamesOK'
    BY <2>1, <2>3 DEF TypeInv, NamesOK, file
  <2> QED
    BY <2>2, <2>3, <2>4, SameTypes DEF TypeInv
<1>3. CASE UnlinkTable
  <2>0. /\ ddl.pc = "call" /\ Subject.op = "unlink_table"
        /\ rows' = [rows EXCEPT ![Subject.table] = <<>>]
        /\ damage' = [i \in Indexes |-> IF KeptFor(i) = Subject.table
                                        THEN damage[i] \cup {"Orphaned"} ELSE damage[i]]
        /\ dml' = [s \in Sessions |-> IF dml[s].pc \notin {"idle", "plan"} /\ dml[s].table = Subject.table
                                      THEN [dml[s] EXCEPT !.lost = TRUE] ELSE dml[s]]
        /\ GoTo("save") /\ up /\ UNCHANGED <<names, file, tree, budget>>
    BY <1>3, Zenon DEF UnlinkTable
  <2>1. PICK T \in Tables : T = Subject.table
    BY <2>0, SubjectType DEF Proper
  <2>2. RowsOK'
    BY <2>0, <2>1, BoundsAssumption DEF TypeInv, RowsOK
  <2>3. DamageOK'
    BY <2>0 DEF TypeInv, DamageOK, Causes
  <2>4. DmlOK'
    <3>1. ASSUME NEW s \in Sessions
          PROVE  (IF dml[s].pc \notin {"idle", "plan"} /\ dml[s].table = T
                  THEN [dml[s] EXCEPT !.lost = TRUE] ELSE dml[s]) \in Stmt
      BY LostStmt DEF TypeInv, DmlOK
    <3> QED
      BY <2>0, <2>1, <3>1 DEF DmlOK
  <2>5. DdlOK'
    BY <2>0, GoToTypes DEF Steps, Aimed
  <2>6. BudgetOK'
    BY <2>0 DEF TypeInv, BudgetOK, budget
  <2> QED
    BY <2>0, <2>2, <2>3, <2>4, <2>5, <2>6, SameTypes DEF TypeInv
<1>4. CASE SkipDrop
  <2>1. /\ up /\ ddl.pc = "call" /\ Subject.op = "drop_table"
        /\ ddl' = [ddl EXCEPT !.calls = Tail(@)]
        /\ UNCHANGED <<names, file, rows, tree, dml, damage, budget>>
    BY <1>4 DEF SkipDrop
  <2>2. ddl.calls \in Seq(Proper) /\ ddl.calls # <<>> /\ EndsWell(ddl.calls)
    BY <2>1 DEF TypeInv, DdlOK
  <2>3. PICK rest \in Seq(Proper) : /\ rest = Tail(ddl.calls) /\ EndsWell(rest)
                                    /\ rest = <<>> <=> Len(ddl.calls) = 1
    BY <2>2, RestTypes
  <2>4. rest # <<>>
    <3> SUFFICES ASSUME Len(ddl.calls) = 1 PROVE FALSE
      BY <2>3
    <3>1. ddl.calls[1] = Head(ddl.calls)
      BY <2>2
    <3> QED
      BY <2>1, <2>2, <3>1 DEF EndsWell, Subject
  <2>5. DdlOK'
    BY <2>1, <2>3, <2>4 DEF TypeInv, DdlOK, Steps, Aimed
  <2> QED
    BY <2>1, <2>5, SameTypes DEF TypeInv
<1> QED
  BY <1>1, <1>2, <1>3, <1>4

\* create_index does not touch the maps before the tree is filled.
LEMMA CreateIndexStays == CreateIndex => UNCHANGED <<names, file, rows, dml>>
BY Zenon DEF CreateIndex

\* create_index.
LEMMA CreateIndexTypes ==
  ASSUME TypeInv, CreateIndex \/ HookTree \/ ListIndex
  PROVE  TypeInv'
<1>1. CASE CreateIndex
  <2>0. PICK calls \in Calls("create_index") :
          LET i == Head(calls).index
              t == Head(calls).table IN
          /\ tree' = [tree EXCEPT ![i] = [e \in Entries |-> tree[i][e] + Backfilled(t)[e]]]
          /\ damage' = [damage EXCEPT ![i] =
               {c \in {"Leftover"} : tree[i] # NoEntries} \cup
               {c \in {"Misnamed"} : Saved(i) \notin {None, t}} \cup
               {c \in {"Running"} : \E n \in DOMAIN rows[t] :
                  rows[t][n].ins \in Sessions /\ ~WillEnter(i, t, n)}]
          /\ Begin(calls, "hook")
    BY <1>1, Zenon DEF CreateIndex
  <2>1. PICK i \in Indexes, t \in Tables :
          /\ i = Head(calls).index /\ t = Head(calls).table
          /\ tree' = [tree EXCEPT ![i] = [e \in Entries |-> tree[i][e] + Backfilled(t)[e]]]
          /\ damage' = [damage EXCEPT ![i] =
               {c \in {"Leftover"} : tree[i] # NoEntries} \cup
               {c \in {"Misnamed"} : Saved(i) \notin {None, t}} \cup
               {c \in {"Running"} : \E n \in DOMAIN rows[t] :
                  rows[t][n].ins \in Sessions /\ ~WillEnter(i, t, n)}]
          /\ Begin(calls, "hook")
    BY <2>0, CallsProper, Zenon DEF Proper
  <2>2. DdlOK' /\ BudgetOK' /\ up' = up
    BY <2>1, CallsProper, BeginTypes DEF Steps, Aimed
  <2>3. Backfilled(t) \in [Entries -> Nat]
    BY DEF Backfilled
  <2>4. [e \in Entries |-> tree[i][e] + Backfilled(t)[e]] \in [Entries -> Nat]
    BY <2>3 DEF TypeInv, TreeOK
  <2>5. TreeOK'
    BY <2>1, <2>4 DEF TypeInv, TreeOK
  <2>6. DamageOK'
    BY <2>1 DEF TypeInv, DamageOK, Causes
  <2> QED
    BY <1>1, <2>2, <2>5, <2>6, SameTypes, CreateIndexStays DEF TypeInv
<1>2. CASE HookTree
  <2>1. Subject.index \in Indexes /\ Subject.table \in Tables
    BY <1>2, SubjectType DEF HookTree
  <2>2. DdlOK'
    BY <1>2, <2>1, GoToTypes DEF HookTree, Steps, Aimed
  <2>3. NamesOK'
    BY <1>2, <2>1 DEF TypeInv, NamesOK, HookTree, file, budget
  <2> QED
    BY <1>2, <2>2, <2>3, SameTypes DEF TypeInv, HookTree, budget
<1>3. CASE ListIndex
  <2>1. Subject.index \in Indexes /\ Subject.table \in Tables
    BY <1>3, SubjectType DEF ListIndex
  <2>2. DdlOK'
    BY <1>3, GoToTypes DEF ListIndex, Steps, Aimed
  <2>3. NamesOK'
    BY <1>3, <2>1 DEF TypeInv, NamesOK, ListIndex, file, budget
  <2> QED
    BY <1>3, <2>2, <2>3, SameTypes DEF TypeInv, ListIndex, budget
<1> QED
  BY <1>1, <1>2, <1>3

\* A statement that holds a tree goes on to hold it when its file is removed.
LEMMA AgedStmt ==
  ASSUME NEW st \in Stmt
  PROVE  /\ Aged(st) \in Stmt /\ Aged(st).pc = st.pc
         /\ st.pc \notin {"enter", "search"} => Aged(st) = st
         /\ st.pc \in {"enter", "search"} =>
              /\ Aged(st).table = st.table /\ Aged(st).lost = st.lost /\ Aged(st).key = st.key
              /\ Aged(st).index = st.index
              /\ Aged(st).age = IF st.index = Subject.index THEN st.age + 1 ELSE st.age
         /\ st.pc = "enter" => Aged(st).slot = st.slot
         /\ st.pc = "search" => /\ Aged(st).due = st.due
                                /\ st.index = Subject.index => Aged(st).found = Located(st)
                                /\ st.index # Subject.index => Aged(st).found = st.found
<1>1. CASE st.pc \notin {"enter", "search"}
  BY <1>1 DEF Aged
<1>2. CASE st.pc = "enter"
  BY <1>2, StmtKinds DEF Aged, Indexing, Stmt
<1>3. CASE st.pc = "search"
  <2>1. PICK F \in SUBSET Slots : F = Located(st)
    BY <1>3, StmtKinds DEF Located, Searching
  <2>2. st \in Searching
    BY <1>3, StmtKinds
  <2>3. CASE st.index # Subject.index
    BY <1>3, <2>2, <2>3 DEF Aged, Searching
  <2>4. CASE st.index = Subject.index
    <3>1. Aged(st) = [st EXCEPT !.age = st.age + 1, !.found = F]
      BY <1>3, <2>1, <2>4 DEF Aged
    <3>2. [st EXCEPT !.age = st.age + 1, !.found = F] \in Searching
      <4>1. PICK a \in Nat : a = st.age + 1
        BY <2>2 DEF Searching
      <4>2. [st EXCEPT !.age = a, !.found = F] \in Searching
        BY <2>2, <2>1 DEF Searching
      <4> QED
        BY <4>1, <4>2
    <3> QED
      BY <1>3, <2>1, <2>2, <2>4, <3>1, <3>2 DEF Searching, Stmt
  <2> QED
    BY <2>3, <2>4
<1> QED
  BY <1>1, <1>2, <1>3

\* drop_index.
LEMMA DropIndexTypes ==
  ASSUME TypeInv, DropIndex \/ UnlistIndex \/ UnlinkIndex
  PROVE  TypeInv'
<1>1. CASE DropIndex
  <2>1. PICK calls \in Calls("drop_index"), i \in Indexes :
          i = Head(calls).index /\ trees' = trees \ {i} /\ Begin(calls, "unlist")
    BY <1>1, CallsProper DEF DropIndex, Proper
  <2>2. DdlOK' /\ BudgetOK' /\ up' = up
    BY <2>1, CallsProper, BeginTypes DEF Steps, Aimed
  <2>3. NamesOK'
    BY <1>1, <2>1, <2>2 DEF TypeInv, NamesOK, DropIndex, file
  <2> QED
    BY <1>1, <2>2, <2>3, SameTypes DEF TypeInv, DropIndex
<1>2. CASE UnlistIndex
  <2>1. Subject.index \in Indexes
    BY <1>2, SubjectType DEF UnlistIndex
  <2>2. DdlOK'
    BY <1>2, <2>1, GoToTypes DEF UnlistIndex, Steps, Aimed
  <2>3. NamesOK'
    BY <1>2, <2>1 DEF TypeInv, NamesOK, UnlistIndex, file, budget
  <2> QED
    BY <1>2, <2>2, <2>3, SameTypes DEF TypeInv, UnlistIndex, budget
<1>3. CASE UnlinkIndex
  <2>1. PICK i \in Indexes : i = Subject.index
    BY <1>3, SubjectType DEF UnlinkIndex
  <2>0. DmlOK'
    BY <1>3, AgedStmt DEF TypeInv, DmlOK, UnlinkIndex
  <2>4. BudgetOK'
    BY <1>3 DEF TypeInv, BudgetOK, UnlinkIndex, budget
  <2>2. DdlOK'
    BY <1>3, GoToTypes DEF UnlinkIndex, Steps, Aimed
  <2>3. TreeOK' /\ DamageOK'
    BY <1>3, <2>1 DEF TypeInv, TreeOK, DamageOK, UnlinkIndex, Causes, NoEntries
  <2> QED
    BY <1>3, <2>0, <2>2, <2>3, <2>4, SameTypes DEF TypeInv, UnlinkIndex
<1> QED
  BY <1>1, <1>2, <1>3

\* The statement goes on with the rest of its calls.
LEMMA SaveTypes ==
  ASSUME TypeInv, SaveMeta
  PROVE  TypeInv'
<1>1. json' \in CatalogMeta /\ unsaved' = FALSE
  BY DEF TypeInv, NamesOK, SaveMeta, CatalogMeta
<1>2. NamesOK'
  BY <1>1 DEF TypeInv, NamesOK, SaveMeta, names
<1>3. DdlOK'
  <2>1. ddl.calls \in Seq(Proper) /\ ddl.calls # <<>> /\ EndsWell(ddl.calls)
    BY DEF TypeInv, DdlOK, SaveMeta
  <2>2. PICK rest \in Seq(Proper) : /\ rest = Tail(ddl.calls) /\ EndsWell(rest)
                                    /\ rest = <<>> <=> Len(ddl.calls) = 1
    BY <2>1, RestTypes
  <2> QED
    BY <2>2 DEF SaveMeta, DdlOK, Steps, Aimed
<1> QED
  BY <1>1, <1>2, <1>3, SameTypes DEF TypeInv, SaveMeta, budget

\* The statement ends where its save failed.
LEMMA SaveFailsTypes ==
  ASSUME TypeInv, SaveFails
  PROVE  TypeInv'
<1>1. NamesOK'
  BY DEF TypeInv, NamesOK, SaveFails, names
<1>2. RowsOK'
  BY EndedTypes, AdminAssumption DEF TypeInv, SaveFails
<1>3. DdlOK'
  BY DEF SaveFails, DdlOK, IdleDdl, Steps, EndsWell
<1>4. BudgetOK'
  BY BoundsAssumption DEF TypeInv, BudgetOK, SaveFails
<1> QED
  BY <1>1, <1>2, <1>3, <1>4, SameTypes DEF TypeInv, SaveFails

\* After a crash the database is open again with the names that were saved, or
\* catalog.json is torn.
LEMMA CrashTypes ==
  ASSUME TypeInv, Crash
  PROVE  /\ TypeInv'
         /\ up' => json' = json /\ json \in CatalogMeta /\ open' = json.tables /\ meta' = json.indexes
<1>1. up /\ json \in CatalogMeta \cup {Torn} /\ Torn \notin CatalogMeta /\ json' \in {json, Torn}
      /\ up' = (json' # Torn)
  BY TornAssumption DEF Crash, TypeInv, NamesOK
<1>2. up' => json' = json /\ json \in CatalogMeta /\ open' = json.tables /\ meta' = json.indexes
  BY <1>1 DEF Crash
<1>3. up' \in BOOLEAN /\ json' \in CatalogMeta \cup {Torn} /\ unsaved' = FALSE
  BY <1>1 DEF Crash
<1>4. NamesOK'
  <2>1. open' \subseteq Tables /\ meta' \in [Indexes -> Tables \cup {None}]
    BY <1>1, <1>2, <1>3 DEF Crash, CatalogMeta
  <2> QED
    BY <1>1, <1>2, <1>3, <2>1 DEF NamesOK, Crash
<1>5. RowsOK'
  BY EndedTypes DEF TypeInv, Crash
<1>6. DdlOK' /\ DmlOK'
  BY DEF DdlOK, DmlOK, Crash, IdleDdl, Steps, Stmt, Aimed, EndsWell
<1>7. BudgetOK'
  BY <1>3, BoundsAssumption DEF TypeInv, BudgetOK, Crash
<1> QED
  BY <1>2, <1>4, <1>5, <1>6, <1>7, SameTypes DEF TypeInv, Crash

\* Every step keeps the types.
LEMMA TypeStep ==
  ASSUME TypeInv, [Next]_vars
  PROVE  TypeInv'
<1>1. CASE UNCHANGED vars
  BY <1>1 DEF vars, TypeInv, NamesOK, RowsOK, TreeOK, DdlOK, DmlOK, DamageOK, BudgetOK
<1> QED
  BY <1>1, DmlTypes, TableTypes, CreateIndexTypes, DropIndexTypes, SaveTypes,
     SaveFailsTypes, CrashTypes DEF Next, DdlStep

\* The database as it is opened.
LEMMA TypeInit == Init => TypeInv
<1> SUFFICES ASSUME Init PROVE TypeInv
  OBVIOUS
<1>1. NamesOK
  BY DEF Init, NamesOK, CatalogMeta
<1>2. RowsOK /\ TreeOK
  BY BoundsAssumption DEF Init, RowsOK, TreeOK, NoEntries
<1>3. DdlOK /\ DmlOK /\ DamageOK /\ BudgetOK
  BY BoundsAssumption DEF Init, DdlOK, DmlOK, DamageOK, BudgetOK, IdleDdl, Steps, Stmt, EndsWell
<1> QED
  BY <1>1, <1>2, <1>3 DEF TypeInv

(***************************************************************************)
(* The names.                                                              *)
(***************************************************************************)

Listed == {i \in Indexes : meta[i] # None}

\* Where catalog.json lists index i for another table than its file is kept for,
\* the index was built so.
SavedRight == \A i \in Indexes :
  KeptFor(i) # None /\ Saved(i) # None /\ "Misnamed" \notin damage[i] => Saved(i) = KeptFor(i)

\* How catalog.json and the maps stand to each other in each step of a call.
NamesInv == up =>
  /\ ddl.pc = "idle" /\ ~unsaved => json = [tables |-> open, indexes |-> meta]
  /\ ddl.pc \notin {"list", "unlist"} => trees = Listed
  /\ ddl.pc = "list" => trees = Listed \cup {Subject.index}
  /\ ddl.pc = "unlist" => trees = Listed \ {Subject.index}
  /\ ddl.pc \in {"hook", "list", "unlink"} => meta[Subject.index] = None
  /\ SavedRight

\* What a call that takes its first step starts from.
LEMMA BeginNames ==
  ASSUME TypeInv, NamesInv, NEW op, NEW calls \in Calls(op)
  PROVE  up /\ trees = Listed /\ SavedRight /\ ddl.pc \in {"idle", "call"}
BY CallsProper DEF NamesInv

\* Which table an index is kept for depends on index_meta, catalog.json and the
\* call that builds it.
LEMMA SameKept ==
  ASSUME UNCHANGED <<meta, json>>,
         \/ UNCHANGED ddl
         \/ ddl.pc \notin {"hook", "list"} /\ ddl'.pc \notin {"hook", "list"}
         \/ ddl.pc \in {"hook", "list"} /\ ddl'.pc \in {"hook", "list"} /\ UNCHANGED ddl.calls
  PROVE  \A i : KeptFor(i)' = KeptFor(i) /\ Saved(i)' = Saved(i)
BY DEF KeptFor, Saved

\* The tables that the indexes are kept for stay right.
LEMMA SavedRightKept ==
  ASSUME SavedRight,
         \A i \in Indexes : /\ KeptFor(i)' = KeptFor(i) /\ Saved(i)' = Saved(i)
                            /\ "Misnamed" \in damage[i] => "Misnamed" \in damage'[i]
  PROVE  SavedRight'
BY DEF SavedRight

\* What CREATE TABLE and DROP TABLE do to the names.
LEMMA TableNames ==
  ASSUME TypeInv, TypeInv', NamesInv, CreateTable \/ DropTable \/ SkipDrop \/ UnlinkTable
  PROVE  /\ NamesInv' /\ up /\ \A i : KeptFor(i)' = KeptFor(i) /\ Saved(i)' = Saved(i)
         /\ UNCHANGED <<trees, meta, json>> /\ ddl.pc \in {"idle", "call"}
<1>1. /\ up /\ ddl.pc \in {"idle", "call"} /\ ddl'.pc \in {"call", "save"} /\ up' = up
      /\ UNCHANGED <<trees, meta, json>>
      /\ \A i \in Indexes : "Misnamed" \in damage[i] => "Misnamed" \in damage'[i]
  <2>1. CASE CreateTable
    <3>1. PICK calls \in Calls("create_table") : Begin(calls, "save")
      BY <2>1 DEF CreateTable
    <3> QED
      BY <2>1, <3>1, CallsProper DEF CreateTable, Begin, file
  <2>2. CASE DropTable
    <3>1. PICK calls \in Seq(Proper) : Begin(calls, "call") /\ up /\ ddl.pc \in {"idle", "call"}
      BY <2>2, DropTableBegins
    <3>2. UNCHANGED <<trees, meta, first, file, rows, tree, dml, damage>>
      BY <2>2, Zenon DEF DropTable
    <3> QED
      BY <3>1, <3>2 DEF Begin, file
  <2>3. CASE SkipDrop
    BY <2>3 DEF SkipDrop, names, file, budget, TypeInv, DdlOK
  <2>4. CASE UnlinkTable
    <3>1. /\ up /\ ddl.pc = "call" /\ GoTo("save") /\ UNCHANGED <<names, file, tree, budget>>
          /\ damage' = [i \in Indexes |-> IF KeptFor(i) = Subject.table
                                          THEN damage[i] \cup {"Orphaned"} ELSE damage[i]]
      BY <2>4, Zenon DEF UnlinkTable
    <3>2. ddl'.pc = "save"
      BY <3>1 DEF GoTo, TypeInv, DdlOK
    <3> QED
      BY <3>1, <3>2 DEF names, file, budget
  <2> QED
    BY <2>1, <2>2, <2>3, <2>4
<1>2. \A i : KeptFor(i)' = KeptFor(i) /\ Saved(i)' = Saved(i)
  BY <1>1, SameKept
<1>3. SavedRight'
  BY <1>1, <1>2, SavedRightKept DEF NamesInv
<1>4. trees = Listed /\ Listed' = Listed
  BY <1>1 DEF NamesInv, Listed
<1> QED
  BY <1>1, <1>2, <1>3, <1>4 DEF NamesInv

\* What create_index does at first.
LEMMA CreateIndexBegins ==
  ASSUME TypeInv, NamesInv, CreateIndex
  PROVE  \E i \in Indexes, t \in Tables :
            /\ up /\ ddl.pc \in {"idle", "call"} /\ meta[i] = None
            /\ up' = up /\ ddl'.pc = "hook" /\ Subject' = CallOf("create_index", t, i)
            /\ tree' = [tree EXCEPT ![i] = [e \in Entries |-> tree[i][e] + Backfilled(t)[e]]]
            /\ damage' = [damage EXCEPT ![i] =
                 {c \in {"Leftover"} : tree[i] # NoEntries} \cup
                 {c \in {"Misnamed"} : Saved(i) \notin {None, t}} \cup
                 {c \in {"Running"} : \E n \in DOMAIN rows[t] :
                    rows[t][n].ins \in Sessions /\ ~WillEnter(i, t, n)}]
            /\ KeptFor(i)' = t /\ Saved(i)' = Saved(i)
            /\ \A j \in Indexes \ {i} : KeptFor(j)' = KeptFor(j) /\ Saved(j)' = Saved(j)
            /\ UNCHANGED <<names, file, rows, dml>>
<1>1. PICK calls \in Calls("create_index") :
        LET i == Head(calls).index
            t == Head(calls).table IN
        /\ meta[i] = None
        /\ tree' = [tree EXCEPT ![i] = [e \in Entries |-> tree[i][e] + Backfilled(t)[e]]]
        /\ damage' = [damage EXCEPT ![i] =
             {c \in {"Leftover"} : tree[i] # NoEntries} \cup
             {c \in {"Misnamed"} : Saved(i) \notin {None, t}} \cup
             {c \in {"Running"} : \E n \in DOMAIN rows[t] :
                rows[t][n].ins \in Sessions /\ ~WillEnter(i, t, n)}]
        /\ Begin(calls, "hook")
  BY Zenon DEF CreateIndex
<1>2. UNCHANGED <<names, file, rows, dml>>
  BY CreateIndexStays
<1>3. PICK i \in Indexes, t \in Tables :
        /\ i = Head(calls).index /\ t = Head(calls).table
        /\ Head(calls) = CallOf("create_index", t, i)
  <2>1. Head(calls) \in Call /\ Head(calls).op = "create_index" /\ Head(calls) \in Proper
    BY CallsProper DEF Proper
  <2>2. Head(calls).index \in Indexes /\ Head(calls).table \in Tables
    BY <2>1 DEF Proper
  <2>3. Head(calls) = CallOf("create_index", Head(calls).table, Head(calls).index)
    BY <2>1 DEF Call, CallOf
  <2> QED
    BY <2>2, <2>3
<1>4. /\ up /\ ddl.pc \in {"idle", "call"} /\ up' = up /\ ddl'.pc = "hook"
      /\ ddl'.calls = calls /\ Subject' = Head(calls)
  BY <1>1, CallsProper DEF Begin, Subject
<1>5. \A j : Saved(j)' = Saved(j)
  BY <1>2 DEF Saved, file
<1>6. KeptFor(i)' = t /\ \A j \in Indexes \ {i} : KeptFor(j)' = KeptFor(j)
  BY <1>1, <1>2, <1>3, <1>4, <1>5 DEF KeptFor, names
<1> QED
  BY <1>1, <1>2, <1>3, <1>4, <1>5, <1>6

\* create_index opens the tree before it lists the index.
LEMMA CreateIndexNames ==
  ASSUME TypeInv, TypeInv', NamesInv, CreateIndex
  PROVE  NamesInv'
<1>1. PICK i \in Indexes, t \in Tables :
        /\ up /\ ddl.pc \in {"idle", "call"} /\ meta[i] = None
        /\ up' = up /\ ddl'.pc = "hook" /\ Subject' = CallOf("create_index", t, i)
        /\ damage' = [damage EXCEPT ![i] =
             {c \in {"Leftover"} : tree[i] # NoEntries} \cup
             {c \in {"Misnamed"} : Saved(i) \notin {None, t}} \cup
             {c \in {"Running"} : \E n \in DOMAIN rows[t] :
                rows[t][n].ins \in Sessions /\ ~WillEnter(i, t, n)}]
        /\ KeptFor(i)' = t /\ Saved(i)' = Saved(i)
        /\ \A j \in Indexes \ {i} : KeptFor(j)' = KeptFor(j) /\ Saved(j)' = Saved(j)
        /\ UNCHANGED <<names, file, rows, dml>>
  BY CreateIndexBegins
<1>2. trees' = Listed' /\ Listed' = Listed
  BY <1>1 DEF NamesInv, Listed, names
<1>3. Subject'.index = i /\ meta'[i] = None
  BY <1>1 DEF CallOf, names
<1>4. ASSUME NEW j \in Indexes, KeptFor(j)' # None, Saved(j)' # None, "Misnamed" \notin damage'[j]
      PROVE  Saved(j)' = KeptFor(j)'
  <2>1. CASE j = i
    <3>1. "Misnamed" \in damage'[i] <=> Saved(i) \notin {None, t}
      BY <1>1 DEF TypeInv, DamageOK
    <3> QED
      BY <1>1, <1>4, <2>1, <3>1
  <2>2. CASE j # i
    <3>1. damage'[j] = damage[j]
      BY <1>1, <2>2 DEF TypeInv, DamageOK
    <3> QED
      BY <1>1, <1>4, <2>2, <3>1 DEF NamesInv, SavedRight
  <2> QED
    BY <2>1, <2>2
<1>5. SavedRight'
  BY <1>4 DEF SavedRight
<1> QED
  BY <1>1, <1>2, <1>3, <1>5 DEF NamesInv

\* The tree is opened, and then the index is listed.
LEMMA ListNames ==
  ASSUME TypeInv, TypeInv', NamesInv, HookTree \/ ListIndex
  PROVE  /\ NamesInv' /\ up /\ \A i \in Indexes : KeptFor(i)' = KeptFor(i)
         /\ ddl.pc \in {"hook", "list"} /\ trees \subseteq trees' /\ trees' \subseteq trees \cup {Subject.index}
         /\ UNCHANGED <<rows, tree, dml, damage>>
<1>1. PICK i \in Indexes, t \in Tables : i = Subject.index /\ t = Subject.table
  BY SubjectType DEF HookTree, ListIndex
<1>2. t # None /\ \A j \in Indexes : meta[j] \in Tables \cup {None}
  BY NamesAssumption DEF TypeInv, NamesOK
<1>3. CASE HookTree
  <2>1. /\ ddl'.pc = "list" /\ Subject' = Subject /\ ddl'.calls = ddl.calls /\ up /\ up' = up
        /\ trees' = trees \cup {i} /\ ddl.pc = "hook"
        /\ UNCHANGED <<meta, json, damage, rows, tree, dml>>
    BY <1>1, <1>3 DEF HookTree, GoTo, Subject, TypeInv, DdlOK, file, budget
  <2>2. \A j : KeptFor(j)' = KeptFor(j) /\ Saved(j)' = Saved(j)
    BY <2>1, SameKept
  <2>3. SavedRight'
    BY <2>1, <2>2, SavedRightKept DEF NamesInv
  <2>4. trees = Listed /\ Listed' = Listed /\ meta[i] = None
    BY <1>1, <2>1 DEF NamesInv, Listed
  <2> QED
    BY <1>1, <2>1, <2>2, <2>3, <2>4 DEF NamesInv
<1>4. CASE ListIndex
  <2>1. /\ ddl'.pc = "save" /\ up /\ up' = up /\ ddl.pc = "list"
        /\ meta' = [meta EXCEPT ![i] = t] /\ UNCHANGED <<json, trees, damage, rows, tree, dml>>
    BY <1>1, <1>4 DEF ListIndex, GoTo, TypeInv, DdlOK, file, budget
  <2>2. meta'[i] = t /\ \A j \in Indexes \ {i} : meta'[j] = meta[j]
    BY <2>1 DEF TypeInv, NamesOK
  <2>3. trees = Listed \cup {i} /\ meta[i] = None
    BY <1>1, <2>1 DEF NamesInv
  <2>4. Listed' = Listed \cup {i}
    BY <1>2, <2>2 DEF Listed
  <2>5. \A j \in Indexes : KeptFor(j)' = KeptFor(j) /\ Saved(j)' = Saved(j)
    <3>1. \A j : Saved(j)' = Saved(j)
      BY <2>1 DEF Saved
    <3>2. KeptFor(i)' = t /\ KeptFor(i) = t
      BY <1>1, <1>2, <2>1, <2>2, <2>3 DEF KeptFor, Subject
    <3>3. ASSUME NEW j \in Indexes \ {i} PROVE KeptFor(j)' = KeptFor(j)
      BY <1>1, <2>1, <2>2, <3>1 DEF KeptFor, Subject
    <3> QED
      BY <3>1, <3>2, <3>3
  <2>6. SavedRight'
    BY <2>1, <2>5, SavedRightKept DEF NamesInv
  <2> QED
    BY <2>1, <2>3, <2>4, <2>5, <2>6 DEF NamesInv
<1> QED
  BY <1>3, <1>4

\* drop_index closes the tree before it takes the index off the list.
LEMMA DropIndexNames ==
  ASSUME TypeInv, TypeInv', NamesInv, DropIndex
  PROVE  /\ NamesInv' /\ up /\ \A i : KeptFor(i)' = KeptFor(i)
         /\ ddl'.pc = "unlist" /\ Subject'.index \in Indexes /\ trees' = trees \ {Subject'.index}
         /\ ddl.pc \in {"idle", "call"}
         /\ UNCHANGED <<rows, tree, dml, damage>>
<1>1. PICK calls \in Calls("drop_index") :
        trees' = trees \ {Head(calls).index} /\ Begin(calls, "unlist")
  BY DEF DropIndex
<1>2. /\ ddl'.pc = "unlist" /\ Subject' = Head(calls) /\ up' = up
      /\ UNCHANGED <<meta, json, damage, rows, tree, dml>>
  BY <1>1 DEF Begin, Subject, DropIndex, file
<1>3. up /\ trees = Listed /\ SavedRight /\ ddl.pc \in {"idle", "call"}
  BY BeginNames
<1>4. \A i : KeptFor(i)' = KeptFor(i) /\ Saved(i)' = Saved(i)
  BY <1>2, <1>3, SameKept
<1>5. SavedRight'
  BY <1>2, <1>3, <1>4, SavedRightKept
<1>6. Listed' = Listed
  BY <1>2 DEF Listed
<1>7. Subject'.index \in Indexes
  BY <1>2, CallsProper DEF Proper
<1> QED
  BY <1>1, <1>2, <1>3, <1>4, <1>5, <1>6, <1>7 DEF NamesInv

\* The index that is taken off the list stays on catalog.json, if it was there.
LEMMA UnlistNames ==
  ASSUME TypeInv, TypeInv', NamesInv, UnlistIndex
  PROVE  /\ NamesInv' /\ up
         /\ \A i \in Indexes : "Misnamed" \in damage[i] \/ KeptFor(i)' \in {KeptFor(i), None}
         /\ ddl.pc = "unlist" /\ ddl'.pc = "unlink" /\ Subject' = Subject
         /\ UNCHANGED <<trees, rows, tree, dml, damage>>
         /\ \A j \in Indexes \ {Subject.index} : KeptFor(j)' = KeptFor(j)
<1>1. /\ ddl'.pc = "unlink" /\ Subject' = Subject /\ up /\ up' = up /\ ddl.pc = "unlist"
      /\ UNCHANGED <<json, trees, damage, rows, tree, dml>>
  BY DEF UnlistIndex, GoTo, Subject, TypeInv, DdlOK, file, budget
<1>2. PICK i \in Indexes : i = Subject.index
  BY <1>1, SubjectType
<1>3. meta' = [meta EXCEPT ![i] = None] /\ meta \in [Indexes -> Tables \cup {None}]
  BY <1>2 DEF UnlistIndex, TypeInv, NamesOK
<1>4. meta'[i] = None /\ \A j \in Indexes \ {i} : meta'[j] = meta[j]
  BY <1>3
<1>5. Listed' = Listed \ {i}
  BY <1>4 DEF Listed
<1>6. trees = Listed \ {i}
  BY <1>1, <1>2 DEF NamesInv
<1>7. \A j : Saved(j)' = Saved(j)
  BY <1>1 DEF Saved
<1>8. KeptFor(i)' = Saved(i) /\ \A j \in Indexes \ {i} : KeptFor(j)' = KeptFor(j)
  BY <1>1, <1>4, <1>7 DEF KeptFor
<1>9. SavedRight'
  <2> SUFFICES ASSUME NEW j \in Indexes, KeptFor(j)' # None, Saved(j)' # None, "Misnamed" \notin damage'[j]
               PROVE  Saved(j)' = KeptFor(j)'
    BY DEF SavedRight
  <2>1. CASE j = i
    BY <1>7, <1>8, <2>1
  <2>2. CASE j # i
    BY <1>1, <1>7, <1>8, <2>2 DEF NamesInv, SavedRight
  <2> QED
    BY <2>1, <2>2
<1>10. \A j \in Indexes : "Misnamed" \in damage[j] \/ KeptFor(j)' \in {KeptFor(j), None}
  <2>1. KeptFor(i) = None => Saved(i) = None
    BY <1>1 DEF KeptFor
  <2>2. "Misnamed" \in damage[i] \/ Saved(i) \in {KeptFor(i), None}
    BY <1>1, <2>1 DEF NamesInv, SavedRight
  <2> QED
    BY <1>8, <2>2
<1> QED
  BY <1>1, <1>2, <1>4, <1>5, <1>6, <1>8, <1>9, <1>10 DEF NamesInv

\* The file of the index is gone.
LEMMA UnlinkNames ==
  ASSUME TypeInv, TypeInv', NamesInv, UnlinkIndex
  PROVE  /\ NamesInv' /\ up /\ \A i : KeptFor(i)' = KeptFor(i)
         /\ UNCHANGED <<trees, rows>> /\ trees = Listed /\ ddl'.pc = "save" /\ ddl.pc = "unlink"
<1>1. /\ ddl'.pc = "save" /\ up /\ up' = up /\ ddl.pc = "unlink"
      /\ UNCHANGED <<json, trees, meta, rows>>
  BY DEF UnlinkIndex, GoTo, TypeInv, DdlOK, names, file, budget
<1>2. PICK i \in Indexes : i = Subject.index
  BY <1>1, SubjectType
<1>3. damage' = [damage EXCEPT ![i] = {"FileGone"}]
  BY <1>2 DEF UnlinkIndex
<1>4. \A j : KeptFor(j)' = KeptFor(j) /\ Saved(j)' = Saved(j)
  BY <1>1, SameKept
<1>5. meta[i] = None /\ KeptFor(i) = Saved(i)
  BY <1>1, <1>2 DEF NamesInv, KeptFor
<1>6. \A j \in Indexes \ {i} : damage'[j] = damage[j]
  BY <1>3 DEF TypeInv, DamageOK
<1>7. SavedRight'
  BY <1>1, <1>4, <1>5, <1>6 DEF NamesInv, SavedRight
<1>8. trees = Listed /\ Listed' = Listed
  BY <1>1 DEF NamesInv, Listed
<1> QED
  BY <1>1, <1>4, <1>7, <1>8 DEF NamesInv

\* Saving makes catalog.json agree; a save that fails is remembered.
LEMMA SaveNames ==
  ASSUME TypeInv, TypeInv', NamesInv, SaveMeta \/ SaveFails
  PROVE  /\ NamesInv' /\ up /\ \A i \in Indexes : KeptFor(i)' \in {KeptFor(i), None}
         /\ UNCHANGED <<trees, tree, dml, damage>> /\ trees = Listed /\ trees' = Listed'
<1>1. /\ up /\ up' = up /\ ddl.pc = "save" /\ ddl'.pc \in {"idle", "call"}
      /\ UNCHANGED <<open, meta, trees, damage, tree, dml>>
  BY DEF SaveMeta, SaveFails, IdleDdl, names, budget
<1>2. trees = Listed /\ Listed' = Listed
  BY <1>1 DEF NamesInv, Listed
<1>3. \A i : /\ KeptFor(i) = IF meta[i] # None THEN meta[i] ELSE Saved(i)
             /\ KeptFor(i)' = IF meta[i] # None THEN meta[i] ELSE Saved(i)'
  BY <1>1 DEF KeptFor
<1>4. CASE SaveMeta
  <2>1. json' = [tables |-> open, indexes |-> meta] /\ json' # Torn
    BY <1>4, TornAssumption DEF SaveMeta, CatalogMeta, TypeInv, NamesOK
  <2>2. \A i : Saved(i)' = meta[i]
    BY <2>1 DEF Saved
  <2>3. SavedRight' /\ \A i \in Indexes : KeptFor(i)' \in {KeptFor(i), None}
    BY <1>3, <2>2 DEF SavedRight
  <2> QED
    BY <1>1, <1>2, <2>1, <2>3 DEF NamesInv
<1>5. CASE SaveFails
  <2>1. json' \in {json, Torn} /\ unsaved' = TRUE /\ ddl'.pc = "idle"
    BY <1>5 DEF SaveFails, IdleDdl
  <2>2. \A i : Saved(i)' \in {Saved(i), None}
    BY <2>1 DEF Saved
  <2>3. \A i \in Indexes : KeptFor(i)' \in {KeptFor(i), None}
    BY <1>3, <2>2
  <2>4. SavedRight'
    BY <1>1, <1>3, <2>2 DEF SavedRight, NamesInv
  <2> QED
    BY <1>1, <1>2, <2>1, <2>3, <2>4 DEF NamesInv
<1> QED
  BY <1>4, <1>5

\* A crash goes back to the saved names.
LEMMA CrashNames ==
  ASSUME TypeInv, NamesInv, Crash
  PROVE  /\ NamesInv'
         /\ up' => \A i \in Indexes : "Misnamed" \in damage[i] \/ KeptFor(i)' \in {KeptFor(i), None}
<1> SUFFICES ASSUME up'
             PROVE  /\ NamesInv'
                    /\ \A i \in Indexes : "Misnamed" \in damage[i] \/ KeptFor(i)' \in {KeptFor(i), None}
  BY DEF NamesInv
<1>1. json' = json /\ json \in CatalogMeta /\ open' = json.tables /\ meta' = json.indexes /\ json # Torn
  BY CrashTypes, TornAssumption
<1>2. json = [tables |-> json.tables, indexes |-> json.indexes]
  BY <1>1 DEF CatalogMeta
<1>3. ddl'.pc = "idle" /\ trees' = Listed' /\ up /\ damage' = damage
  BY DEF Crash, IdleDdl, Listed
<1>4. \A i \in Indexes : Saved(i)' = meta'[i] /\ KeptFor(i)' = Saved(i)' /\ Saved(i)' = Saved(i)
  BY <1>1, <1>3 DEF Saved, KeptFor
<1>5. ddl.pc \in {"hook", "list"} => Subject.table \in Tables
  BY SubjectType
<1>6. None \notin Tables
  BY NamesAssumption
<1>7. \A i \in Indexes : KeptFor(i) = None => Saved(i) = None
  BY <1>5, <1>6 DEF KeptFor, Subject
<1>8. \A i \in Indexes : "Misnamed" \in damage[i] \/ KeptFor(i)' \in {KeptFor(i), None}
  BY <1>3, <1>4, <1>7 DEF NamesInv, SavedRight
<1>9. SavedRight'
  BY <1>4 DEF SavedRight
<1> QED
  BY <1>1, <1>2, <1>3, <1>8, <1>9 DEF NamesInv

\* No statement on rows changes a name.
LEMMA DmlNames ==
  ASSUME NEW s \in Sessions, DmlStep(s)
  PROVE  /\ UNCHANGED <<names, file, ddl, budget>>
         /\ up
BY Zenon DEF DmlStep, Commit, Rollback, Insert, Delete, Update, Plan, ChooseIndex, OpenIndex,
       EnterIndex, EnterUnlinked, OpenScan, SearchTree, Fetch, IndexGone, Free

\* Statements on rows only add to what has happened to an index.
LEMMA DmlDamage ==
  ASSUME TypeInv, NEW s \in Sessions, DmlStep(s)
  PROVE  \A i \in Indexes : damage[i] \subseteq damage'[i]
<1>1. CASE ChooseIndex(s)
  BY <1>1 DEF ChooseIndex, TypeInv, DamageOK
<1>2. CASE EnterIndex(s)
  BY <1>2 DEF EnterIndex, TypeInv, DamageOK
<1>3. CASE UNCHANGED damage
  BY <1>3
<1>4. ChooseIndex(s) \/ EnterIndex(s) \/ UNCHANGED damage
  BY Zenon DEF DmlStep, Commit, Rollback, Insert, Delete, Update, Plan, OpenIndex,
       EnterUnlinked, OpenScan, SearchTree, Fetch, IndexGone
<1> QED
  BY <1>1, <1>2, <1>3, <1>4

\* Every step keeps the names together.
LEMMA NamesStep ==
  ASSUME TypeInv, TypeInv', NamesInv, [Next]_vars
  PROVE  NamesInv'
<1>1. ASSUME UNCHANGED <<names, file, ddl, up>>, \A i \in Indexes : damage[i] \subseteq damage'[i]
      PROVE  NamesInv'
  <2>1. UNCHANGED <<open, trees, meta, json, unsaved, ddl, up>>
    BY <1>1 DEF names, file
  <2>2. \A i : KeptFor(i)' = KeptFor(i) /\ Saved(i)' = Saved(i)
    BY <2>1, SameKept
  <2>3. up => SavedRight'
    BY <1>1, <2>2, SavedRightKept DEF NamesInv
  <2> QED
    BY <2>1, <2>3 DEF NamesInv, Listed, Subject
<1>2. ASSUME NEW s \in Sessions, DmlStep(s) PROVE NamesInv'
  BY <1>1, <1>2, DmlNames, DmlDamage DEF budget
<1>3. CASE UNCHANGED vars
  BY <1>1, <1>3 DEF vars, names, file
<1> QED
  BY <1>2, <1>3, TableNames, CreateIndexNames, ListNames, DropIndexNames, UnlistNames, UnlinkNames,
     SaveNames, CrashNames DEF Next, DdlStep

\* The database is opened with the names that were saved.
LEMMA NamesInit == Init => NamesInv
<1> SUFFICES ASSUME Init PROVE NamesInv
  OBVIOUS
<1>1. json \in CatalogMeta /\ json = [tables |-> open, indexes |-> meta] /\ json # Torn
      /\ trees = Listed /\ ddl.pc = "idle"
  BY TornAssumption DEF Init, Listed, IdleDdl, CatalogMeta
<1>2. SavedRight
  BY <1>1 DEF SavedRight, Saved, KeptFor
<1> QED
  BY <1>1, <1>2 DEF NamesInv

(***************************************************************************)
(* The statements under way, and the trees that they hold.                 *)
(***************************************************************************)

\* While its DDL statement is under way, Admin is in no other.
AdminInv == ddl.pc # "idle" => dml[Admin] = IdleDml

Holding(st) == st.pc \in {"enter", "search"}

\* Index i has an open tree, or one whose file is about to be removed.
Named(i) == \/ i \in trees
            \/ ddl.pc \in {"unlist", "unlink"} /\ Subject.index = i

\* The tree of the name i is kept for table t, as long as it is open.
Rightful(i, t) == /\ i \in trees => KeptFor(i) = t
                  /\ KeptFor(i) \in {None, t} \/ damage[i] # {}

\* A handle that is not lost is to a tree of the table of its statement, and so
\* are all of those to one tree.
HandlesInv ==
  /\ \A s \in Sessions : Holding(dml[s]) /\ dml[s].age = 0 =>
       /\ Named(dml[s].index)
       /\ ~dml[s].lost => Rightful(dml[s].index, dml[s].table)
  /\ \A s, q \in Sessions :
       /\ Holding(dml[s]) /\ Holding(dml[q])
       /\ dml[s].index = dml[q].index /\ dml[s].age = dml[q].age
       /\ ~dml[s].lost /\ ~dml[q].lost
       => dml[s].table = dml[q].table

\* The statement of r holds the tree that it held before.
StillHolds(r) == /\ Holding(dml[r])
                 /\ dml'[r].index = dml[r].index /\ dml'[r].table = dml[r].table
                 /\ ~dml'[r].lost => ~dml[r].lost

\* A statement that holds a tree names an index and a table.
LEMMA HoldingTypes ==
  ASSUME DmlOK, NEW s \in Sessions, Holding(dml[s])
  PROVE  dml[s].index \in Indexes /\ dml[s].table \in Tables /\ dml[s].age \in Nat
BY StmtKinds DEF DmlOK, Holding, Indexing, Searching

\* The statements of others, where s enters a row into a tree that they scan.
LEMMA EnterOthers ==
  ASSUME TypeInv, NEW s \in Sessions, EnterIndex(s) \/ EnterUnlinked(s)
  PROVE  /\ up /\ dml'[s] = IdleDml /\ dml[s] \in Indexing
         /\ \A r \in Sessions \ {s} :
              \/ dml'[r] = dml[r] /\ r \notin Sharing(dml[s])
              \/ /\ r \in Sharing(dml[s]) /\ dml[r] \in Searching /\ dml'[r] \in Searching
                 /\ dml'[r].index = dml[r].index /\ dml'[r].table = dml[r].table
                 /\ dml'[r].age = dml[r].age /\ dml'[r].key = dml[r].key /\ dml'[r].due = dml[r].due
                 /\ ~dml'[r].lost => ~dml[r].lost /\ ~dml[s].lost
                 /\ EnterIndex(s) => dml'[r].found = dml[r].found
                 /\ EnterUnlinked(s) =>
                      dml'[r].found = IF dml[r].key = dml[s].key THEN dml[r].found \cup {dml[s].slot}
                                      ELSE dml[r].found
<1>1. dml[s] \in Indexing /\ up
  BY StmtKinds DEF TypeInv, DmlOK, EnterIndex, EnterUnlinked
<1>2. PICK st \in Indexing : st = dml[s]
  BY <1>1
<1>3. ASSUME NEW r \in Sharing(st)
      PROVE  /\ r \in Sessions /\ dml[r] \in Searching
             /\ st.lost \in BOOLEAN /\ dml[r].lost \in BOOLEAN
             /\ dml[r].found \in SUBSET Slots /\ st.slot \in Slots
  BY StmtKinds DEF Sharing, TypeInv, DmlOK, Searching, Indexing
<1>4. CASE EnterIndex(s)
  <2>1. /\ dml' = [q \in Sessions |->
                     IF q = s THEN IdleDml
                     ELSE IF q \in Sharing(st) THEN [dml[q] EXCEPT !.lost = @ \/ st.lost] ELSE dml[q]]
        /\ st.age = 0
    BY <1>2, <1>4, Zenon DEF EnterIndex
  <2>2. ~EnterUnlinked(s)
    BY <1>2, <2>1 DEF EnterUnlinked
  <2>3. ASSUME NEW r \in Sessions \ {s}, r \in Sharing(st)
        PROVE  /\ dml[r] \in Searching /\ dml'[r] \in Searching
               /\ dml'[r].index = dml[r].index /\ dml'[r].table = dml[r].table
               /\ dml'[r].age = dml[r].age /\ dml'[r].key = dml[r].key /\ dml'[r].due = dml[r].due
               /\ ~dml'[r].lost => ~dml[r].lost /\ ~st.lost
               /\ dml'[r].found = dml[r].found
    <3>1. PICK lost \in BOOLEAN : lost = (dml[r].lost \/ st.lost)
      BY <1>3, <2>3
    <3>2. dml'[r] = [dml[r] EXCEPT !.lost = lost]
      BY <2>1, <2>3, <3>1
    <3> QED
      BY <1>3, <2>3, <3>1, <3>2 DEF Searching
  <2> QED
    BY <1>1, <1>2, <1>4, <2>1, <2>2, <2>3
<1>5. CASE EnterUnlinked(s)
  <2>1. /\ dml' = [q \in Sessions |->
                     IF q = s THEN IdleDml
                     ELSE IF q \in Sharing(st)
                     THEN [dml[q] EXCEPT !.lost = @ \/ st.lost,
                                         !.found = IF dml[q].key = st.key THEN @ \cup {st.slot} ELSE @]
                     ELSE dml[q]]
        /\ st.age > 0
    BY <1>2, <1>5, Zenon DEF EnterUnlinked
  <2>2. ~EnterIndex(s)
    <3> SUFFICES ASSUME EnterIndex(s) PROVE FALSE
      OBVIOUS
    <3>1. st.age = 0
      BY <1>2, Zenon DEF EnterIndex
    <3>2. st.age > 0
      BY <2>1
    <3> QED
      BY <3>1, <3>2
  <2>3. ASSUME NEW r \in Sessions \ {s}, r \in Sharing(st)
        PROVE  /\ dml[r] \in Searching /\ dml'[r] \in Searching
               /\ dml'[r].index = dml[r].index /\ dml'[r].table = dml[r].table
               /\ dml'[r].age = dml[r].age /\ dml'[r].key = dml[r].key /\ dml'[r].due = dml[r].due
               /\ ~dml'[r].lost => ~dml[r].lost /\ ~st.lost
               /\ dml'[r].found = IF dml[r].key = st.key THEN dml[r].found \cup {st.slot}
                                  ELSE dml[r].found
    <3>1. PICK lost \in BOOLEAN : lost = (dml[r].lost \/ st.lost)
      BY <1>3, <2>3
    <3>2. PICK found \in SUBSET Slots :
            found = IF dml[r].key = st.key THEN dml[r].found \cup {st.slot} ELSE dml[r].found
      BY <1>3, <2>3
    <3>3. dml'[r] = [dml[r] EXCEPT !.lost = lost, !.found = found]
      BY <2>1, <2>3, <3>1, <3>2
    <3> QED
      BY <1>3, <2>3, <3>1, <3>2, <3>3 DEF Searching
  <2> QED
    BY <1>1, <1>2, <1>5, <2>1, <2>2, <2>3
<1> QED
  BY <1>4, <1>5

\* A statement that is neither taking nor using a handle touches its own session only.
LEMMA DmlOthers ==
  ASSUME TypeInv, NEW s \in Sessions, DmlStep(s), ~EnterIndex(s), ~EnterUnlinked(s)
  PROVE  /\ \A r \in Sessions \ {s} : dml'[r] = dml[r]
         /\ Holding(dml'[s]) => OpenIndex(s) \/ (\E k \in Keys : OpenScan(s, k)) \/ dml' = dml
         /\ dml[s].pc # "idle" \/ Free(s)
<1>1. \/ Commit(s) \/ Rollback(s) \/ (\E t \in Tables, n \in Slots : Delete(s, t, n))
      \/ (\E t \in Tables, k \in Keys : Insert(s, t, k))
      \/ (\E t \in Tables, n \in Slots, k \in Keys : Update(s, t, n, k))
      \/ (\E t \in Tables : Plan(s, t)) \/ ChooseIndex(s) \/ OpenIndex(s)
      \/ (\E k \in Keys : OpenScan(s, k)) \/ SearchTree(s) \/ Fetch(s) \/ IndexGone(s)
  BY Zenon DEF DmlStep
<1>2. dml[s].pc # "idle" \/ Free(s)
  BY <1>1 DEF Commit, Rollback, Insert, Delete, Update, Plan, ChooseIndex, OpenIndex, OpenScan,
              SearchTree, Fetch, IndexGone
<1>3. \A r \in Sessions \ {s} : dml'[r] = dml[r]
  BY <1>1 DEF TypeInv, DmlOK, Commit, Rollback, Insert, Delete, Update, Plan, ChooseIndex, OpenIndex,
              OpenScan, SearchTree, Fetch, IndexGone
<1>4. Holding(dml'[s]) => OpenIndex(s) \/ (\E k \in Keys : OpenScan(s, k)) \/ dml' = dml
  <2>1. ASSUME NEW t \in Tables, NEW k \in Keys, dml' = [dml EXCEPT ![s] = Entering(t, k)]
        PROVE  ~Holding(dml'[s])
    BY <2>1 DEF TypeInv, DmlOK, Entering, Holding
  <2>2. CASE ChooseIndex(s)
    BY <2>2 DEF TypeInv, DmlOK, ChooseIndex, IdleDml, Holding
  <2>3. CASE SearchTree(s) \/ Fetch(s) \/ IndexGone(s) \/ \E t \in Tables : Plan(s, t)
    BY <2>3 DEF TypeInv, DmlOK, SearchTree, Fetch, IndexGone, Plan, IdleDml, Holding
  <2>4. CASE Commit(s) \/ Rollback(s) \/ \E t \in Tables, n \in Slots : Delete(s, t, n)
    BY <2>4 DEF Commit, Rollback, Delete
  <2>5. CASE \/ \E t \in Tables, k \in Keys : Insert(s, t, k)
             \/ \E t \in Tables, n \in Slots, k \in Keys : Update(s, t, n, k)
    BY <2>1, <2>5 DEF Insert, Update
  <2> QED
    BY <1>1, <2>2, <2>3, <2>4, <2>5
<1> QED
  BY <1>2, <1>3, <1>4

\* The session that defines tables does not begin a statement on rows meanwhile.
LEMMA AdminStep ==
  ASSUME TypeInv, TypeInv', AdminInv, [Next]_vars
  PROVE  AdminInv'
<1>1. ASSUME NEW s \in Sessions, DmlStep(s) PROVE AdminInv'
  <2>1. ddl' = ddl
    BY <1>1, DmlNames
  <2> SUFFICES ASSUME ddl.pc # "idle" PROVE dml'[Admin] = IdleDml
    BY <2>1 DEF AdminInv
  <2>2. dml[Admin] = IdleDml /\ Admin \in Sessions
    BY AdminAssumption DEF AdminInv
  <2>3. CASE EnterIndex(s) \/ EnterUnlinked(s)
    <3>1. dml[Admin].pc = "idle"
      BY <2>2 DEF IdleDml
    <3>2. Admin \notin Sharing(dml[s])
      BY <3>1 DEF Sharing
    <3> QED
      BY <2>2, <2>3, <3>2, EnterOthers
  <2>4. CASE ~EnterIndex(s) /\ ~EnterUnlinked(s)
    <3>1. s # Admin
      BY <1>1, <2>2, <2>4, DmlOthers DEF Free, IdleDml, IdleDdl
    <3> QED
      BY <1>1, <2>2, <2>4, <3>1, DmlOthers
  <2> QED
    BY <2>3, <2>4
<1>2. ASSUME NEW op, NEW calls \in Calls(op) PROVE dml[Admin] = IdleDml
  BY <1>2 DEF Calls, AdminInv, Free
<1>3. CASE CreateTable \/ DropTable \/ CreateIndex \/ DropIndex
  <2>1. dml' = dml
    BY <1>3, Zenon DEF CreateTable, DropTable, CreateIndex, DropIndex
  <2>2. dml[Admin] = IdleDml
    BY <1>2, <1>3, Zenon DEF CreateTable, DropTable, CreateIndex, DropIndex
  <2> QED
    BY <2>1, <2>2 DEF AdminInv
<1>4. CASE SkipDrop \/ HookTree \/ ListIndex \/ UnlistIndex \/ SaveMeta \/ SaveFails
  <2>1. dml' = dml /\ ddl.pc # "idle"
    BY <1>4 DEF SkipDrop, HookTree, ListIndex, UnlistIndex, SaveMeta, SaveFails
  <2> QED
    BY <2>1 DEF AdminInv
<1>5. CASE UnlinkTable
  <2>1. /\ ddl.pc = "call"
        /\ dml' = [s \in Sessions |-> IF dml[s].pc \notin {"idle", "plan"} /\ dml[s].table = Subject.table
                                      THEN [dml[s] EXCEPT !.lost = TRUE] ELSE dml[s]]
    BY <1>5, Zenon DEF UnlinkTable
  <2> QED
    BY <2>1, AdminAssumption DEF AdminInv, IdleDml
<1>6. CASE UnlinkIndex
  <2>1. dml' = [s \in Sessions |-> Aged(dml[s])] /\ ddl.pc = "unlink"
    BY <1>6 DEF UnlinkIndex
  <2> QED
    BY <2>1, AdminAssumption DEF AdminInv, IdleDml, Aged
<1>7. CASE Crash
  BY <1>7 DEF Crash, AdminInv, IdleDdl
<1>8. CASE UNCHANGED vars
  BY <1>8 DEF vars, AdminInv
<1> QED
  BY <1>1, <1>3, <1>4, <1>5, <1>6, <1>7, <1>8 DEF Next, DdlStep

(* What a step does to the handles. *)

\* Where no handle is taken, the invariant depends on the names.
LEMMA HandlesKept ==
  ASSUME TypeInv, HandlesInv,
         \A r \in Sessions : Holding(dml'[r]) => StillHolds(r) /\ dml'[r].age = dml[r].age,
         \A i \in Indexes : Named(i) =>
            Named(i)' /\ \A t \in Tables : Rightful(i, t) => Rightful(i, t)'
  PROVE  HandlesInv'
<1> HIDE DEF Named, Rightful
<1>1. ASSUME NEW s \in Sessions, Holding(dml'[s]), dml'[s].age = 0
      PROVE  /\ Named(dml[s].index)' /\ dml'[s].index = dml[s].index
             /\ ~dml'[s].lost => Rightful(dml[s].index, dml[s].table)' /\ dml'[s].table = dml[s].table
  <2>1. Holding(dml[s]) /\ dml[s].age = 0 /\ StillHolds(s)
    BY <1>1 DEF StillHolds
  <2>2. PICK i \in Indexes, t \in Tables : i = dml[s].index /\ t = dml[s].table
    BY <2>1, HoldingTypes DEF TypeInv
  <2>3. dml'[s].index = i /\ dml'[s].table = t
    BY <2>1, <2>2 DEF StillHolds
  <2>4. Named(i)
    BY <2>1, <2>2 DEF HandlesInv
  <2>5. ~dml'[s].lost => Rightful(i, t)
    BY <2>1, <2>2 DEF HandlesInv, StillHolds
  <2>6. Named(i)' /\ (~dml'[s].lost => Rightful(i, t)')
    BY <2>4, <2>5
  <2> QED
    BY <2>2, <2>3, <2>6 DEF Named, Rightful
<1>2. ASSUME NEW s \in Sessions, NEW q \in Sessions, Holding(dml'[s]), Holding(dml'[q]),
             dml'[s].index = dml'[q].index, dml'[s].age = dml'[q].age,
             ~dml'[s].lost, ~dml'[q].lost
      PROVE  dml'[s].table = dml'[q].table
  BY <1>2 DEF HandlesInv, StillHolds
<1> QED
  BY <1>1, <1>2 DEF HandlesInv, Holding, Named, Rightful

\* A handle that is taken is to an open tree, kept for the table of its statement
\* or lost.
LEMMA HandlesOpened ==
  ASSUME TypeInv, NamesInv, HandlesInv, up, UNCHANGED <<names, file, ddl, damage>>,
         NEW s \in Sessions, NEW new, dml' = [dml EXCEPT ![s] = new],
         Holding(new) => /\ new.age = 0 /\ new.index \in trees
                         /\ ~new.lost => KeptFor(new.index) = new.table
  PROVE  HandlesInv'
<1>1. dml'[s] = new /\ \A r \in Sessions \ {s} : dml'[r] = dml[r]
  BY DEF TypeInv, DmlOK
<1>2. UNCHANGED <<trees, meta, json, ddl, damage>>
  BY DEF names, file
<1>3. \A i : KeptFor(i)' = KeptFor(i)
  BY <1>2, SameKept
<1>4. \A i, t : (Named(i)' <=> Named(i)) /\ (Rightful(i, t)' <=> Rightful(i, t))
  BY <1>2, <1>3 DEF Named, Rightful, Subject
<1>5. ASSUME NEW r \in Sessions, Holding(dml'[r]), dml'[r].age = 0
      PROVE  Named(dml'[r].index) /\ (~dml'[r].lost => Rightful(dml'[r].index, dml'[r].table))
  <2>1. CASE r = s
    BY <1>1, <1>5, <2>1 DEF Named, Rightful
  <2>2. CASE r # s
    BY <1>1, <1>5, <2>2 DEF HandlesInv
  <2> QED
    BY <2>1, <2>2
<1>6. \A i \in trees : KeptFor(i) # None
  <2>1. ddl.pc = "list" => Subject.table \in Tables
    BY SubjectType
  <2> QED
    BY <2>1, NamesAssumption DEF NamesInv, Listed, KeptFor, Subject
<1>7. ASSUME NEW r \in Sessions \ {s}, Holding(dml[r]), Holding(new), dml[r].index = new.index,
             dml[r].age = new.age, ~dml[r].lost, ~new.lost
      PROVE  dml[r].table = new.table
  BY <1>7 DEF HandlesInv, Rightful
<1>8. ASSUME NEW r \in Sessions, NEW q \in Sessions, Holding(dml'[r]), Holding(dml'[q]),
             dml'[r].index = dml'[q].index, dml'[r].age = dml'[q].age,
             ~dml'[r].lost, ~dml'[q].lost
      PROVE  dml'[r].table = dml'[q].table
  <2>1. CASE r = s /\ q = s
    BY <2>1
  <2>2. CASE r = s /\ q # s
    BY <1>1, <1>7, <1>8, <2>2
  <2>3. CASE r # s /\ q = s
    BY <1>1, <1>7, <1>8, <2>3
  <2>4. CASE r # s /\ q # s
    BY <1>1, <1>8, <2>4 DEF HandlesInv
  <2> QED
    BY <2>1, <2>2, <2>3, <2>4
<1>9. \A r \in Sessions : Holding(dml'[r]) /\ dml'[r].age = 0 =>
         /\ Named(dml[r].index)'
         /\ ~dml'[r].lost => Rightful(dml[r].index, dml[r].table)'
  BY <1>4, <1>5 DEF Named, Rightful
<1> QED
  BY <1>8, <1>9 DEF HandlesInv, Holding

\* Statements on rows.
LEMMA DmlHandles ==
  ASSUME TypeInv, NamesInv, HandlesInv, NEW s \in Sessions, DmlStep(s)
  PROVE  HandlesInv'
<1>1. /\ up /\ UNCHANGED <<names, file, ddl>> /\ \A i \in Indexes : damage[i] \subseteq damage'[i]
  BY DmlNames, DmlDamage
<1>2. CASE OpenIndex(s)
  <2>1. PICK st \in Opening : st = dml[s]
    BY <1>2, StmtKinds DEF TypeInv, DmlOK, OpenIndex
  <2>2. PICK lost \in BOOLEAN : lost = (st.lost \/ KeptFor(st.index) # st.table)
    BY DEF Opening
  <2>3. /\ dml' = [dml EXCEPT ![s] = [pc |-> "enter", table |-> st.table, slot |-> st.slot,
                                     key |-> st.key, lost |-> lost, index |-> st.index, age |-> 0]]
        /\ st.index \in trees /\ UNCHANGED damage
    BY <1>2, <2>1, <2>2 DEF OpenIndex
  <2> QED
    BY <1>1, <2>2, <2>3, HandlesOpened
<1>3. CASE \E k \in Keys : OpenScan(s, k)
  <2>1. PICK st \in Planning : st = dml[s]
    BY <1>3, StmtKinds DEF TypeInv, DmlOK, OpenScan
  <2>2. PICK k \in Keys : OpenScan(s, k)
    BY <1>3
  <2>3. /\ dml' = [dml EXCEPT ![s] = IF damage[st.index] # {} THEN IdleDml
                                     ELSE Scanning(s, st.table, k, st.index)]
        /\ st.index \in trees /\ UNCHANGED damage
    BY <2>1, <2>2, Zenon DEF OpenScan, Scanning
  <2>4. CASE damage[st.index] # {}
    BY <1>1, <2>3, <2>4, HandlesOpened DEF IdleDml, Holding
  <2>5. CASE damage[st.index] = {}
    <3>1. PICK new \in Searching : new = Scanning(s, st.table, k, st.index)
      BY ScanningType DEF TypeInv, Planning
    <3>2. new.age = 0 /\ new.index = st.index /\ (~new.lost => KeptFor(st.index) = st.table)
          /\ new.table = st.table
      BY <3>1 DEF Scanning
    <3> QED
      BY <1>1, <2>3, <2>5, <3>1, <3>2, HandlesOpened
  <2> QED
    BY <2>4, <2>5
<1>4. CASE ~OpenIndex(s) /\ ~\E k \in Keys : OpenScan(s, k)
  <2>1. ASSUME NEW r \in Sessions, Holding(dml'[r]) PROVE StillHolds(r) /\ dml'[r].age = dml[r].age
    <3>1. CASE EnterIndex(s) \/ EnterUnlinked(s)
      <4>1. r # s
        BY <2>1, <3>1, EnterOthers DEF Holding, IdleDml
      <4>2. CASE dml'[r] = dml[r]
        BY <2>1, <4>2 DEF StillHolds
      <4>3. CASE dml'[r] # dml[r]
        <5>1. /\ dml[r] \in Searching /\ dml'[r].index = dml[r].index
              /\ dml'[r].table = dml[r].table /\ dml'[r].age = dml[r].age
              /\ ~dml'[r].lost => ~dml[r].lost
          BY <3>1, <4>1, <4>3, EnterOthers
        <5>2. dml[r].pc = "search"
          BY <5>1 DEF Searching
        <5> QED
          BY <5>1, <5>2 DEF StillHolds, Holding
      <4> QED
        BY <4>2, <4>3
    <3>2. CASE ~EnterIndex(s) /\ ~EnterUnlinked(s)
      <4>1. dml'[r] = dml[r]
        BY <1>4, <2>1, <3>2, DmlOthers
      <4> QED
        BY <2>1, <4>1 DEF StillHolds
    <3> QED
      BY <3>1, <3>2
  <2>2. UNCHANGED <<trees, meta, json, ddl>>
    BY <1>1 DEF names, file
  <2>3. \A i : KeptFor(i)' = KeptFor(i)
    BY <2>2, SameKept
  <2>4. \A i \in Indexes : Named(i) => Named(i)' /\ \A t \in Tables : Rightful(i, t) => Rightful(i, t)'
    BY <1>1, <2>2, <2>3 DEF Named, Rightful, Subject
  <2> QED
    BY <2>1, <2>4, HandlesKept
<1> QED
  BY <1>2, <1>3, <1>4

\* A call of the catalog leaves a name that has a tree, and the table it is kept
\* for, but for the call that removes its file.
LEMMA DdlHandles ==
  ASSUME TypeInv, TypeInv', NamesInv, DdlStep, NEW i \in Indexes, Named(i),
         ~(UnlinkIndex /\ i = Subject.index)
  PROVE  Named(i)' /\ \A t \in Tables : Rightful(i, t) => Rightful(i, t)'
<1>1. CASE CreateTable \/ DropTable \/ SkipDrop \/ UnlinkTable
  <2>1. /\ \A j : KeptFor(j)' = KeptFor(j)
        /\ UNCHANGED trees /\ ddl.pc \in {"idle", "call"}
    BY <1>1, TableNames
  <2>2. damage[i] # {} => damage'[i] # {}
    <3>1. CASE UnlinkTable
      <4>1. damage' = [j \in Indexes |-> IF KeptFor(j) = Subject.table
                                         THEN damage[j] \cup {"Orphaned"} ELSE damage[j]]
        BY <3>1, Zenon DEF UnlinkTable
      <4> QED
        BY <4>1
    <3>2. CASE CreateTable \/ DropTable \/ SkipDrop
      <4>1. UNCHANGED damage
        BY <3>2, Zenon DEF CreateTable, DropTable, SkipDrop
      <4> QED
        BY <4>1
    <3> QED
      BY <1>1, <3>1, <3>2
  <2> QED
    BY <2>1, <2>2 DEF Named, Rightful
<1>2. CASE CreateIndex
  <2>1. PICK j \in Indexes :
          /\ up /\ ddl.pc \in {"idle", "call"} /\ meta[j] = None
          /\ \A x \in Indexes \ {j} : KeptFor(x)' = KeptFor(x) /\ damage'[x] = damage[x]
          /\ UNCHANGED <<names, file, rows, dml>>
    BY <1>2, CreateIndexBegins DEF TypeInv, DamageOK
  <2>2. i \in trees /\ trees = Listed /\ trees' = trees
    BY <2>1 DEF Named, NamesInv, names
  <2>3. i # j
    BY <2>1, <2>2 DEF Listed
  <2> QED
    BY <2>1, <2>2, <2>3 DEF Named, Rightful
<1>3. CASE HookTree \/ ListIndex
  <2>1. /\ \A j \in Indexes : KeptFor(j)' = KeptFor(j)
        /\ ddl.pc \in {"hook", "list"} /\ trees \subseteq trees' /\ UNCHANGED damage
    BY <1>3, ListNames
  <2> QED
    BY <2>1 DEF Named, Rightful
<1>4. CASE DropIndex
  <2>1. /\ \A j : KeptFor(j)' = KeptFor(j)
        /\ ddl'.pc = "unlist" /\ trees' = trees \ {Subject'.index}
        /\ ddl.pc \in {"idle", "call"} /\ UNCHANGED damage
    BY <1>4, DropIndexNames
  <2>2. i \in trees
    BY <2>1 DEF Named
  <2>3. Named(i)'
    BY <2>1, <2>2 DEF Named, Subject
  <2> QED
    BY <2>1, <2>2, <2>3 DEF Rightful
<1>5. CASE UnlistIndex
  <2>1. /\ up /\ \A j \in Indexes : "Misnamed" \in damage[j] \/ KeptFor(j)' \in {KeptFor(j), None}
        /\ ddl.pc = "unlist" /\ ddl'.pc = "unlink" /\ Subject' = Subject
        /\ UNCHANGED <<trees, damage>>
        /\ \A j \in Indexes \ {Subject.index} : KeptFor(j)' = KeptFor(j)
    BY <1>5, UnlistNames
  <2>2. i \in trees => i # Subject.index
    BY <2>1 DEF NamesInv
  <2>3. Named(i)'
    BY <2>1 DEF Named
  <2>4. ASSUME NEW t \in Tables, Rightful(i, t) PROVE Rightful(i, t)'
    <3>1. i \in trees => KeptFor(i)' = t
      BY <2>1, <2>2, <2>4 DEF Rightful
    <3>2. KeptFor(i)' \in {None, t} \/ damage[i] # {}
      BY <2>1, <2>4 DEF Rightful
    <3> QED
      BY <2>1, <3>1, <3>2 DEF Rightful
  <2> QED
    BY <2>3, <2>4
<1>6. CASE UnlinkIndex
  <2>1. /\ \A j : KeptFor(j)' = KeptFor(j)
        /\ UNCHANGED trees /\ ddl.pc = "unlink"
    BY <1>6, UnlinkNames
  <2>2. damage'[i] = damage[i] /\ i \in trees
    BY <1>6, <2>1 DEF UnlinkIndex, TypeInv, DamageOK, Named
  <2> QED
    BY <2>1, <2>2 DEF Named, Rightful
<1>7. CASE SaveMeta \/ SaveFails
  <2>1. /\ \A j \in Indexes : KeptFor(j)' \in {KeptFor(j), None}
        /\ UNCHANGED <<trees, damage>> /\ trees' = Listed'
    BY <1>7, SaveNames
  <2>2. ddl.pc = "save"
    BY <1>7 DEF SaveMeta, SaveFails
  <2>3. i \in trees
    BY <2>2 DEF Named
  <2>4. KeptFor(i)' # None
    BY <2>1, <2>3 DEF Listed, KeptFor
  <2> QED
    BY <2>1, <2>3, <2>4 DEF Named, Rightful
<1> QED
  BY <1>1, <1>2, <1>3, <1>4, <1>5, <1>6, <1>7 DEF DdlStep

\* The handles to a file that is removed age together.
LEMMA UnlinkHandles ==
  ASSUME TypeInv, TypeInv', NamesInv, HandlesInv, UnlinkIndex
  PROVE  HandlesInv'
<1>1. dml' = [s \in Sessions |-> Aged(dml[s])] /\ DdlStep
  BY DEF UnlinkIndex, DdlStep
<1>2. ASSUME NEW s \in Sessions, Holding(dml'[s])
      PROVE  /\ StillHolds(s) /\ dml[s].index \in Indexes /\ dml[s].table \in Tables /\ dml[s].age \in Nat
             /\ dml'[s].lost = dml[s].lost
             /\ dml'[s].age = IF dml[s].index = Subject.index THEN dml[s].age + 1 ELSE dml[s].age
  <2>1. dml[s] \in Stmt /\ dml'[s] = Aged(dml[s])
    BY <1>1 DEF TypeInv, DmlOK
  <2>2. Holding(dml[s])
    BY <1>2, <2>1, AgedStmt DEF Holding
  <2> QED
    BY <2>1, <2>2, AgedStmt, HoldingTypes DEF TypeInv, Holding, StillHolds
<1> HIDE DEF Named, Rightful
<1>3. ASSUME NEW s \in Sessions, Holding(dml'[s]), dml'[s].age = 0
      PROVE  Named(dml[s].index)' /\ (~dml'[s].lost => Rightful(dml[s].index, dml[s].table)')
  <2>1. PICK i \in Indexes, t \in Tables : i = dml[s].index /\ t = dml[s].table
    BY <1>2, <1>3
  <2>2. dml'[s].index = i /\ dml'[s].table = t /\ Holding(dml[s]) /\ dml[s].age = 0 /\ i # Subject.index
    BY <1>2, <1>3, <2>1 DEF StillHolds
  <2>3. Named(i) /\ (~dml'[s].lost => Rightful(i, t))
    BY <1>2, <1>3, <2>1, <2>2 DEF HandlesInv
  <2>4. Named(i)' /\ \A x \in Tables : Rightful(i, x) => Rightful(i, x)'
    BY <1>1, <2>2, <2>3, DdlHandles
  <2> QED
    BY <2>2, <2>3, <2>4 DEF Named, Rightful
<1>4. ASSUME NEW s \in Sessions, NEW q \in Sessions, Holding(dml'[s]), Holding(dml'[q]),
             dml'[s].index = dml'[q].index, dml'[s].age = dml'[q].age,
             ~dml'[s].lost, ~dml'[q].lost
      PROVE  dml'[s].table = dml'[q].table
  <2>1. dml[s].index = dml[q].index /\ dml[s].age = dml[q].age /\ ~dml[s].lost /\ ~dml[q].lost
    BY <1>2, <1>4 DEF StillHolds
  <2> QED
    BY <1>2, <1>4, <2>1 DEF HandlesInv, StillHolds
<1> QED
  BY <1>3, <1>4 DEF HandlesInv, Holding, Named, Rightful

\* Every step keeps the handles right.
LEMMA HandlesStep ==
  ASSUME TypeInv, TypeInv', NamesInv, HandlesInv, [Next]_vars
  PROVE  HandlesInv'
<1>1. CASE DdlStep /\ ~UnlinkIndex
  <2>1. ASSUME NEW r \in Sessions, Holding(dml'[r]) PROVE StillHolds(r) /\ dml'[r].age = dml[r].age
    <3>1. CASE UnlinkTable
      <4>1. dml' = [s \in Sessions |-> IF dml[s].pc \notin {"idle", "plan"} /\ dml[s].table = Subject.table
                                       THEN [dml[s] EXCEPT !.lost = TRUE] ELSE dml[s]]
        BY <3>1, Zenon DEF UnlinkTable
      <4>2. dml[r] \in Stmt
        BY DEF TypeInv, DmlOK
      <4>3. CASE dml'[r] = dml[r]
        BY <2>1, <4>3 DEF StillHolds
      <4>4. CASE dml'[r] # dml[r]
        BY <2>1, <4>1, <4>2, <4>4, LostStmt DEF StillHolds, Holding
      <4> QED
        BY <4>3, <4>4
    <3>2. CASE dml' = dml
      BY <2>1, <3>2 DEF StillHolds
    <3>3. UnlinkTable \/ dml' = dml
      BY <1>1, Zenon DEF DdlStep, CreateTable, DropTable, SkipDrop, CreateIndex, HookTree, ListIndex,
                         DropIndex, UnlistIndex, SaveMeta, SaveFails
    <3> QED
      BY <3>1, <3>2, <3>3
  <2>2. \A i \in Indexes : Named(i) => Named(i)' /\ \A t \in Tables : Rightful(i, t) => Rightful(i, t)'
    BY <1>1, DdlHandles
  <2> QED
    BY <2>1, <2>2, HandlesKept
<1>2. CASE Crash
  <2>1. \A s \in Sessions : ~Holding(dml'[s])
    BY <1>2 DEF Crash, IdleDml, Holding
  <2> QED
    BY <2>1 DEF HandlesInv, Holding
<1>3. CASE UNCHANGED vars
  BY <1>3 DEF vars, HandlesInv, Holding, Named, Rightful, KeptFor, Saved, Subject
<1> QED
  BY <1>1, <1>2, <1>3, DmlHandles, UnlinkHandles DEF Next

\* No statement is under way at first.
LEMMA HandlesInit == Init => AdminInv /\ HandlesInv
BY DEF Init, AdminInv, HandlesInv, IdleDdl, IdleDml, Holding

(***************************************************************************)
(* The rows and the index entries.                                         *)
(***************************************************************************)

\* Statement st of session s has put its own row into the table.
HasRow(st, s) == /\ st.slot \in DOMAIN rows[st.table]
                 /\ rows[st.table][st.slot].ins = s /\ rows[st.table][st.slot].key = st.key
Claiming(st) == st.pc \in {"choose", "open", "enter"} /\ ~st.lost
Owns == \A s \in Sessions : Claiming(dml[s]) => HasRow(dml[s], s)

\* The slots that a scan has found, or would find if it read its tree now, lead to
\* rows of the key, and to each due row.
Got(st) == IF st.pc = "search" THEN Located(st) ELSE st.found
FetchOK(st) == st.pc \in {"search", "fetch"} /\ ~st.lost =>
  /\ st.due \subseteq Got(st)
  /\ \A n \in Got(st) : n \in DOMAIN rows[st.table] /\ rows[st.table][n].key = st.key
FetchInv == \A s \in Sessions : FetchOK(dml[s])

\* Index i is kept for table t: by the maps, by the call that builds it, or by
\* catalog.json, which a crash goes back to.
Kept(i, t) == KeptFor(i) = t

\* Index i has each live row of t once, but for those still to be entered, and
\* nothing that is no row of its key.
Exact(i, t) == \A n \in Slots, k \in Keys :
  /\ tree[i][<<k, n>>] # 0 =>
       n \in DOMAIN rows[t] /\ rows[t][n].key = k /\ ~WillEnter(i, t, n) /\ tree[i][<<k, n>>] = 1
  /\ n \in DOMAIN rows[t] /\ rows[t][n].key = k /\ Live(rows[t][n]) /\ ~WillEnter(i, t, n) =>
       tree[i][<<k, n>>] = 1
ExactInv == up => \A i \in Indexes, t \in Tables : damage[i] = {} /\ Kept(i, t) => Exact(i, t)

DataInv == Owns /\ FetchInv /\ ExactInv

(* What a step leaves as it was. *)

\* The rows of t are still there, and none has come to life.
Evolved(t) == \A n \in DOMAIN rows[t] :
  /\ n \in DOMAIN rows'[t] /\ rows'[t][n].key = rows[t][n].key
  /\ Live(rows'[t][n]) => Live(rows[t][n])

\* No row of t is claimed anew for index i, and no live row has lost its claim.
ClaimsKept(i, t) == \A n \in Slots :
  /\ n \in DOMAIN rows[t] /\ WillEnter(i, t, n)' => WillEnter(i, t, n)
  /\ n \in DOMAIN rows'[t] /\ Live(rows'[t][n]) /\ ~WillEnter(i, t, n)' =>
       n \in DOMAIN rows[t] /\ ~WillEnter(i, t, n)

\* An index that is not written stays exact while rows evolve and claims are kept.
LEMMA ExactKept ==
  ASSUME NEW i \in Indexes, NEW t \in Tables, Exact(i, t), tree'[i] = tree[i], Evolved(t),
         ClaimsKept(i, t)
  PROVE  Exact(i, t)'
<1> SUFFICES ASSUME NEW n \in Slots, NEW k \in Keys
             PROVE  /\ tree'[i][<<k, n>>] # 0 =>
                         /\ n \in DOMAIN rows'[t] /\ rows'[t][n].key = k
                         /\ ~WillEnter(i, t, n)' /\ tree'[i][<<k, n>>] = 1
                    /\ n \in DOMAIN rows'[t] /\ rows'[t][n].key = k /\ Live(rows'[t][n])
                         /\ ~WillEnter(i, t, n)' => tree'[i][<<k, n>>] = 1
  BY Zenon DEF Exact
<1>1. /\ tree[i][<<k, n>>] # 0 => /\ n \in DOMAIN rows[t] /\ rows[t][n].key = k
                                  /\ ~WillEnter(i, t, n) /\ tree[i][<<k, n>>] = 1
      /\ n \in DOMAIN rows[t] /\ rows[t][n].key = k /\ Live(rows[t][n]) /\ ~WillEnter(i, t, n) =>
           tree[i][<<k, n>>] = 1
  BY DEF Exact
<1>2. n \in DOMAIN rows[t] => /\ n \in DOMAIN rows'[t] /\ rows'[t][n].key = rows[t][n].key
                              /\ Live(rows'[t][n]) => Live(rows[t][n])
  BY DEF Evolved
<1>3. /\ n \in DOMAIN rows[t] /\ WillEnter(i, t, n)' => WillEnter(i, t, n)
      /\ n \in DOMAIN rows'[t] /\ Live(rows'[t][n]) /\ ~WillEnter(i, t, n)' =>
           n \in DOMAIN rows[t] /\ ~WillEnter(i, t, n)
  BY DEF ClaimsKept
<1> HIDE DEF WillEnter
<1> QED
  BY <1>1, <1>2, <1>3

\* The same, for a step that damages or rebuilds no index.
LEMMA ExactInvKept ==
  ASSUME ExactInv, up,
         \A i \in Indexes, t \in Tables : damage'[i] = {} /\ Kept(i, t)' =>
            damage[i] = {} /\ Kept(i, t) /\ tree'[i] = tree[i] /\ Evolved(t) /\ ClaimsKept(i, t)
  PROVE  ExactInv'
<1>1. ASSUME NEW i \in Indexes, NEW t \in Tables, damage'[i] = {}, Kept(i, t)'
      PROVE  Exact(i, t)'
  <2>1. damage[i] = {} /\ Kept(i, t) /\ tree'[i] = tree[i] /\ Evolved(t) /\ ClaimsKept(i, t)
    BY <1>1
  <2>2. Exact(i, t)
    BY <2>1 DEF ExactInv
  <2> QED
    BY <2>1, <2>2, ExactKept
<1> QED
  BY <1>1 DEF ExactInv

\* What a search has found stays found, where no tree is written.
LEMMA FetchKept ==
  ASSUME FetchInv, UNCHANGED tree,
         \A s \in Sessions : dml'[s].pc \in {"search", "fetch"} /\ ~dml'[s].lost =>
            dml'[s] = dml[s] /\ Evolved(dml[s].table)
  PROVE  FetchInv'
<1> SUFFICES ASSUME NEW s \in Sessions, dml'[s].pc \in {"search", "fetch"}, ~dml'[s].lost
             PROVE  FetchOK(dml[s])'
  BY DEF FetchInv, FetchOK
<1>1. dml'[s] = dml[s] /\ Evolved(dml[s].table) /\ FetchOK(dml[s])
  BY DEF FetchInv
<1>2. Got(dml[s])' = Got(dml[s])
  BY <1>1 DEF Got, Located
<1> QED
  BY <1>1, <1>2 DEF FetchOK, Evolved

\* What is claimed, when only a session that claims nothing goes on.
LEMMA SameClaims ==
  ASSUME NEW s \in Sessions, ~Claiming(dml[s]), ~Claiming(dml'[s]),
         \A r \in Sessions \ {s} : dml'[r] = dml[r]
  PROVE  \A i, t, n : WillEnter(i, t, n)' <=> WillEnter(i, t, n)
BY DEF WillEnter, Claiming

\* What is claimed depends on the statements only.
LEMMA UnchangedClaims ==
  ASSUME UNCHANGED dml
  PROVE  \A i, t, n : WillEnter(i, t, n)' <=> WillEnter(i, t, n)
BY DEF WillEnter

\* A claimed row is that of the session that claims it.
LEMMA ClaimIsOwners ==
  ASSUME Owns, NEW i, NEW t, NEW n, WillEnter(i, t, n)
  PROVE  /\ n \in DOMAIN rows[t] /\ rows[t][n].ins \in Sessions
         /\ Claiming(dml[rows[t][n].ins])
         /\ dml[rows[t][n].ins].table = t /\ dml[rows[t][n].ins].slot = n
         /\ rows[t][n].key = dml[rows[t][n].ins].key
         /\ dml[rows[t][n].ins].pc \in {"open", "enter"} => dml[rows[t][n].ins].index = i
BY DEF WillEnter, Owns, HasRow, Claiming

(***************************************************************************)
(* Statements on rows.                                                     *)
(***************************************************************************)

\* A statement has a table.
LEMMA StmtTable ==
  ASSUME DmlOK, NEW s \in Sessions, dml[s].pc # "idle"
  PROVE  dml[s].table \in Tables
BY StmtKinds DEF DmlOK, Choosing, Opening, Indexing, Planning, Searching, Fetching

\* Which index is kept for which table does not change with the rows.
LEMMA SameNamesKept ==
  ASSUME UNCHANGED <<names, file, ddl>>
  PROVE  \A i, t : Kept(i, t)' <=> Kept(i, t)
<1>1. UNCHANGED <<meta, json, ddl>>
  BY DEF names, file
<1> QED
  BY <1>1, SameKept DEF Kept

\* The transaction of s ends, and with it its statement; if that was still to
\* enter its row into an index, then the row is void now.
LEMMA EndData ==
  ASSUME TypeInv, DataInv, up, UNCHANGED <<tree, damage>>,
         \A i \in Indexes, t \in Tables : Kept(i, t)' => Kept(i, t),
         NEW s \in Sessions, NEW fate \in {Done, Void}, rows' = Ended({s}, fate),
         dml'[s] = IdleDml, \A r \in Sessions \ {s} : dml'[r] = dml[r],
         Claiming(dml[s]) => fate = Void
  PROVE  DataInv'
<1>1. RowsOK /\ {s} \in SUBSET Sessions
  BY DEF TypeInv
<1>2. \A t \in Tables :
        /\ DOMAIN rows'[t] = DOMAIN rows[t]
        /\ \A n \in DOMAIN rows[t] :
             /\ rows'[t][n].key = rows[t][n].key
             /\ Live(rows'[t][n]) => Live(rows[t][n])
             /\ rows[t][n].ins # s => rows'[t][n].ins = rows[t][n].ins
             /\ rows[t][n].ins = s /\ fate = Void => ~Live(rows'[t][n])
  <2>1. MarksRewritten(rows', {s}, fate)
    BY <1>1, EndedRows
  <2> QED
    BY <2>1 DEF MarksRewritten
<1>3. \A t \in Tables : Evolved(t)
  BY <1>2 DEF Evolved
<1>4. \A r \in Sessions : dml[r].pc # "idle" => dml[r].table \in Tables
  BY StmtTable DEF TypeInv
<1>5. dml'[s].pc = "idle" /\ ~Claiming(dml'[s])
  BY DEF IdleDml, Claiming
<1>6. Owns'
  <2> SUFFICES ASSUME NEW r \in Sessions, Claiming(dml'[r]) PROVE HasRow(dml[r], r)' /\ dml'[r] = dml[r]
    BY DEF Owns, HasRow
  <2>1. r # s /\ dml'[r] = dml[r] /\ Claiming(dml[r]) /\ dml[r].table \in Tables
    BY <1>4, <1>5 DEF Claiming
  <2>2. PICK t \in Tables : t = dml[r].table
    BY <2>1
  <2>3. PICK n \in DOMAIN rows[t] :
          n = dml[r].slot /\ rows[t][n].ins = r /\ rows[t][n].key = dml[r].key
    BY <2>1, <2>2 DEF DataInv, Owns, HasRow
  <2>4. /\ n \in DOMAIN rows'[t] /\ rows'[t][n].key = rows[t][n].key
        /\ rows[t][n].ins # s => rows'[t][n].ins = rows[t][n].ins
    BY <1>2
  <2>5. n \in DOMAIN rows'[t] /\ rows'[t][n].ins = r /\ rows'[t][n].key = dml[r].key
    BY <2>1, <2>3, <2>4
  <2> QED
    BY <2>1, <2>2, <2>3, <2>5 DEF HasRow
<1>7. FetchInv'
  BY <1>3, <1>4, <1>5, FetchKept DEF DataInv
<1>8. ASSUME NEW i \in Indexes, NEW t \in Tables PROVE ClaimsKept(i, t)
  <2>1. ASSUME NEW n \in Slots, WillEnter(i, t, n)' PROVE WillEnter(i, t, n)
    BY <2>1, <1>5 DEF WillEnter, Claiming
  <2>2. ASSUME NEW n \in Slots, n \in DOMAIN rows'[t], Live(rows'[t][n]), ~WillEnter(i, t, n)',
               WillEnter(i, t, n)
        PROVE  FALSE
    <3>1. PICK r \in Sessions : /\ Claiming(dml[r]) /\ dml[r].table = t /\ dml[r].slot = n
                                /\ dml[r].pc \in {"open", "enter"} => dml[r].index = i
                                /\ dml[r].pc = "enter" => dml[r].age = 0
      BY <2>2 DEF WillEnter, Claiming
    <3>2. rows[t][n].ins = r /\ n \in DOMAIN rows[t]
      BY <3>1 DEF DataInv, Owns, HasRow
    <3>3. r = s
      BY <2>2, <3>1 DEF WillEnter, Claiming
    <3>4. ~Live(rows'[t][n])
      BY <1>2, <3>1, <3>2, <3>3
    <3> QED
      BY <2>2, <3>4
  <2> QED
    BY <1>2, <2>1, <2>2 DEF ClaimsKept
<1>9. ExactInv'
  BY <1>3, <1>8, ExactInvKept DEF DataInv
<1> QED
  BY <1>6, <1>7, <1>9 DEF DataInv

\* The statements and session commands that end a transaction.
LEMMA EndsData ==
  ASSUME TypeInv, DataInv, NEW s \in Sessions, Commit(s) \/ Rollback(s) \/ IndexGone(s)
  PROVE  DataInv'
<1>1. DmlOK
  BY DEF TypeInv
<1>2. CASE Commit(s) \/ Rollback(s)
  <2>1. /\ up /\ dml[s] = IdleDml /\ dml' = dml /\ UNCHANGED <<names, file, ddl, tree, damage>>
        /\ rows' = Ended({s}, Done) \/ rows' = Ended({s}, Void)
    BY <1>2 DEF Commit, Rollback, Free
  <2>2. ~Claiming(dml[s])
    BY <2>1 DEF Claiming, IdleDml
  <2> QED
    BY <2>1, <2>2, SameNamesKept, EndData
<1>3. CASE IndexGone(s)
  <2>1. /\ up /\ dml' = [dml EXCEPT ![s] = IdleDml] /\ UNCHANGED <<names, file, ddl, tree, damage>>
        /\ rows' = Ended({s}, Void)
    BY <1>3 DEF IndexGone
  <2>2. dml'[s] = IdleDml /\ \A r \in Sessions \ {s} : dml'[r] = dml[r]
    BY <1>1, <2>1, StatementTypes DEF Stmt
  <2> QED
    BY <2>1, <2>2, SameNamesKept, EndData
<1> QED
  BY <1>2, <1>3

\* A session that claims nothing goes on, and only it: no row is written.
LEMMA QuietData ==
  ASSUME TypeInv, DataInv, up, UNCHANGED <<names, file, ddl, tree, damage, rows>>,
         NEW s \in Sessions, ~Claiming(dml[s]), ~Claiming(dml'[s]),
         \A r \in Sessions \ {s} : dml'[r] = dml[r],
         FetchOK(dml[s])'
  PROVE  DataInv'
<1>1. \A x : Evolved(x)
  <2>1. rows' = rows
    OBVIOUS
  <2> QED
    BY <2>1 DEF Evolved
<1>2. Owns'
  BY DEF DataInv, Owns, HasRow
<1>3. \A i, x : ClaimsKept(i, x)
  BY SameClaims DEF ClaimsKept
<1>4. ExactInv'
  BY <1>1, <1>3, SameNamesKept, ExactInvKept DEF DataInv
<1>5. ASSUME NEW r \in Sessions \ {s} PROVE FetchOK(dml[r])'
  <2>1. FetchOK(dml[r]) /\ dml'[r] = dml[r]
    BY DEF DataInv, FetchInv
  <2>2. Got(dml[r])' = Got(dml[r])
    BY <2>1 DEF Got, Located
  <2> QED
    BY <2>1, <2>2 DEF FetchOK
<1>6. FetchInv'
  BY <1>5 DEF FetchInv
<1> QED
  BY <1>2, <1>4, <1>6 DEF DataInv

\* An index scan ends; it fails if its table is gone.
LEMMA FetchData ==
  ASSUME TypeInv, DataInv, NEW s \in Sessions, Fetch(s)
  PROVE  DataInv'
<1>1. up /\ dml' = [dml EXCEPT ![s] = IdleDml] /\ UNCHANGED <<names, file, ddl, tree, damage>>
      /\ dml[s].pc = "fetch"
  BY DEF Fetch
<1>2. dml'[s] = IdleDml /\ \A r \in Sessions \ {s} : dml'[r] = dml[r]
  BY <1>1, StatementTypes DEF TypeInv, Stmt
<1>3. ~Claiming(dml[s]) /\ ~Claiming(dml'[s]) /\ dml'[s].pc = "idle"
  BY <1>1, <1>2 DEF Claiming, IdleDml
<1>4. CASE rows' = Ended({s}, Void)
  BY <1>1, <1>2, <1>3, <1>4, SameNamesKept, EndData
<1>5. CASE rows' = rows
  <2>1. FetchOK(dml[s])'
    BY <1>3 DEF FetchOK
  <2> QED
    BY <1>1, <1>2, <1>3, <1>5, <2>1, QuietData
<1> QED
  BY <1>4, <1>5 DEF Fetch

\* A plan is no claim.
LEMMA PlanData ==
  ASSUME TypeInv, DataInv, NEW s \in Sessions, NEW t \in Tables, Plan(s, t)
  PROVE  DataInv'
<1>1. /\ up /\ dml[s] = IdleDml /\ UNCHANGED <<names, file, ddl, tree, damage, rows>>
      /\ dml' = [dml EXCEPT ![s] = [pc |-> "plan", table |-> t, index |-> first[t]]]
  BY DEF Plan, Free
<1>2. dml'[s].pc = "plan" /\ \A r \in Sessions \ {s} : dml'[r] = dml[r]
  BY <1>1 DEF TypeInv, DmlOK
<1>3. ~Claiming(dml[s]) /\ ~Claiming(dml'[s]) /\ FetchOK(dml[s])'
  BY <1>1, <1>2 DEF Claiming, IdleDml, FetchOK
<1> QED
  BY <1>1, <1>2, <1>3, QuietData

\* The index is exact, and the rows that s sees are no others' to enter.
LEMMA OpenScanData ==
  ASSUME TypeInv, DataInv, NEW s \in Sessions, NEW k \in Keys, OpenScan(s, k)
  PROVE  DataInv'
<1>1. PICK st \in Planning : st = dml[s]
  BY StmtKinds DEF TypeInv, DmlOK, OpenScan
<1>2. PICK i \in Indexes, t \in Tables : i = st.index /\ t = st.table
  BY DEF Planning
<1>3. /\ up /\ UNCHANGED <<names, file, ddl, tree, damage, rows>> /\ st.pc = "plan"
      /\ dml' = [dml EXCEPT ![s] = IF damage[i] # {} THEN IdleDml ELSE Scanning(s, t, k, i)]
  BY <1>1, <1>2, Zenon DEF OpenScan, Scanning
<1>4. /\ dml'[s] = IF damage[i] # {} THEN IdleDml ELSE Scanning(s, t, k, i)
      /\ \A r \in Sessions \ {s} : dml'[r] = dml[r]
  BY <1>3 DEF TypeInv, DmlOK
<1>5. ~Claiming(dml[s]) /\ ~Claiming(dml'[s])
  BY <1>1, <1>3, <1>4 DEF Claiming, IdleDml, Scanning
<1>6. FetchOK(dml[s])'
  <2>1. CASE damage[i] # {}
    BY <1>4, <2>1 DEF FetchOK, IdleDml
  <2>2. CASE damage[i] = {}
    <3>1. PICK new \in Searching : new = Scanning(s, t, k, i)
      BY ScanningType DEF TypeInv
    <3>2. /\ dml'[s] = new /\ new.pc = "search" /\ new.table = t /\ new.key = k /\ new.index = i
          /\ new.age = 0 /\ (~new.lost => KeptFor(i) = t)
          /\ new.due = {n \in DOMAIN rows[t] : Visible(rows[t][n], s) /\ rows[t][n].key = k}
      BY <1>4, <2>2, <3>1 DEF Scanning
    <3>3. Got(dml[s])' = {n \in Slots : tree[i][<<k, n>>] > 0}
      BY <1>3, <3>2 DEF Got, Located
    <3> SUFFICES ASSUME KeptFor(i) = t
                 PROVE  /\ new.due \subseteq {n \in Slots : tree[i][<<k, n>>] > 0}
                        /\ \A n \in {m \in Slots : tree[i][<<k, m>>] > 0} :
                             n \in DOMAIN rows[t] /\ rows[t][n].key = k
      BY <1>3, <3>2, <3>3 DEF FetchOK
    <3>4. Exact(i, t)
      BY <1>3, <2>2 DEF DataInv, ExactInv, Kept
    <3>5. ASSUME NEW n \in Slots, tree[i][<<k, n>>] > 0 PROVE n \in DOMAIN rows[t] /\ rows[t][n].key = k
      BY <3>4, <3>5 DEF Exact, TypeInv, TreeOK, Entries
    <3>6. ASSUME NEW n \in new.due PROVE n \in Slots /\ tree[i][<<k, n>>] > 0
      <4>1. n \in DOMAIN rows[t] /\ n \in Slots /\ rows[t][n] \in Row
        BY <3>2, BoundsAssumption DEF TypeInv, RowsOK, Slots
      <4>2. rows[t][n].key = k /\ rows[t][n].ins \in {Done, s} /\ rows[t][n].del # Done
        BY <3>2 DEF Visible
      <4>3. rows[t][n].ins # Void
        BY <4>2, MarksAssumption DEF Done, Void
      <4>4. ~WillEnter(i, t, n)
        BY <1>5, <4>2, ClaimIsOwners, MarksAssumption DEF DataInv
      <4>5. tree[i][<<k, n>>] = 1
        BY <3>4, <4>1, <4>2, <4>3, <4>4 DEF Exact, Live
      <4> QED
        BY <4>1, <4>5
    <3> QED
      BY <3>5, <3>6
  <2> QED
    BY <2>1, <2>2
<1> QED
  BY <1>3, <1>4, <1>5, <1>6, QuietData

\* What the tree gives is found.
LEMMA SearchData ==
  ASSUME TypeInv, DataInv, NEW s \in Sessions, SearchTree(s)
  PROVE  DataInv'
<1>1. PICK st \in Searching : st = dml[s]
  BY StmtKinds DEF TypeInv, DmlOK, SearchTree
<1>2. /\ up /\ UNCHANGED <<names, file, ddl, tree, damage, rows>> /\ st.pc = "search"
      /\ dml' = [dml EXCEPT ![s] = [pc |-> "fetch", table |-> st.table, key |-> st.key,
                                   found |-> Located(st), due |-> st.due, lost |-> st.lost]]
  BY <1>1, Zenon DEF SearchTree
<1>3. /\ dml'[s] = [pc |-> "fetch", table |-> st.table, key |-> st.key,
                   found |-> Located(st), due |-> st.due, lost |-> st.lost]
      /\ \A r \in Sessions \ {s} : dml'[r] = dml[r]
  BY <1>2 DEF TypeInv, DmlOK
<1>4. ~Claiming(dml[s]) /\ ~Claiming(dml'[s])
  BY <1>1, <1>2, <1>3 DEF Claiming
<1>5. Got(dml[s])' = Got(st)
  BY <1>2, <1>3 DEF Got
<1>6. FetchOK(st)
  BY <1>1 DEF DataInv, FetchInv
<1>7. FetchOK(dml[s])'
  <2>1. /\ dml'[s].pc = "fetch" /\ dml'[s].table = st.table /\ dml'[s].key = st.key
        /\ dml'[s].due = st.due /\ dml'[s].lost = st.lost
    BY <1>3
  <2> QED
    BY <1>2, <1>5, <1>6, <2>1 DEF FetchOK
<1> QED
  BY <1>2, <1>3, <1>4, <1>7, QuietData

\* Statement s has put a row into table t, and perhaps set the xmax of others.
LEMMA AddedData ==
  ASSUME TypeInv, DataInv, up, UNCHANGED <<names, file, ddl, tree, damage>>,
         NEW s \in Sessions, dml[s] = IdleDml, NEW t \in Tables, NEW k \in Keys,
         NEW rs \in Seq(Row), Len(rs) = Len(rows[t]), Len(rows[t]) < MaxRows,
         \A n \in DOMAIN rows[t] : /\ rs[n].key = rows[t][n].key /\ rs[n].ins = rows[t][n].ins
                                   /\ Live(rs[n]) => Live(rows[t][n]),
         rows' = [rows EXCEPT ![t] = Append(rs, [key |-> k, ins |-> s, del |-> None])],
         dml' = [dml EXCEPT ![s] = Entering(t, k)]
  PROVE  DataInv'
<1>1. PICK m \in Slots : m = Len(rows[t]) + 1
  BY AppendedRows
<1>2. /\ dml'[s] = [pc |-> "choose", table |-> t, slot |-> m, key |-> k, lost |-> FALSE]
      /\ \A r \in Sessions \ {s} : dml'[r] = dml[r]
  BY <1>1 DEF TypeInv, DmlOK, Entering
<1>3. ~Claiming(dml[s]) /\ Claiming(dml'[s]) /\ dml'[s].pc = "choose"
  BY <1>2 DEF Claiming, IdleDml
<1>4. /\ rows[t] \in Seq(Row) /\ DOMAIN rows[t] = DOMAIN rs /\ m \notin DOMAIN rows[t]
      /\ \A x \in Tables \ {t} : rows'[x] = rows[x]
      /\ rows'[t] = Append(rs, [key |-> k, ins |-> s, del |-> None])
  BY <1>1 DEF TypeInv, RowsOK
<1>5. /\ DOMAIN rows'[t] = DOMAIN rows[t] \cup {m}
      /\ rows'[t][m] = [key |-> k, ins |-> s, del |-> None]
      /\ \A n \in DOMAIN rows[t] : rows'[t][n] = rs[n]
  BY <1>1, <1>4, AppendedRows
<1>6. \A x \in Tables : Evolved(x) /\ \A n \in DOMAIN rows[x] : rows'[x][n].ins = rows[x][n].ins
  BY <1>4, <1>5 DEF Evolved
<1>7. \A r \in Sessions : dml[r].pc # "idle" => dml[r].table \in Tables
  BY StmtTable DEF TypeInv
<1>8. Owns'
  <2>1. HasRow(dml[s], s)'
    BY <1>2, <1>5 DEF HasRow
  <2>2. ASSUME NEW r \in Sessions \ {s}, Claiming(dml'[r]) PROVE HasRow(dml[r], r)'
    <3>1. Claiming(dml[r]) /\ HasRow(dml[r], r)
      BY <1>2, <2>2 DEF DataInv, Owns
    <3>2. PICK x \in Tables : x = dml[r].table
      BY <1>7, <3>1 DEF Claiming
    <3> QED
      BY <1>2, <1>6, <3>1, <3>2 DEF HasRow, Evolved
  <2> QED
    BY <2>1, <2>2 DEF Owns
<1>9. FetchInv'
  BY <1>2, <1>3, <1>6, <1>7, FetchKept DEF DataInv
<1>10. ASSUME NEW i \in Indexes, NEW x \in Tables PROVE ClaimsKept(i, x)
  <2>1. WillEnter(i, t, m)'
    BY <1>2 DEF WillEnter
  <2>2. \A n \in DOMAIN rows[x] : WillEnter(i, x, n)' => WillEnter(i, x, n)
    BY <1>2, <1>4 DEF WillEnter
  <2>3. \A n : WillEnter(i, x, n) => WillEnter(i, x, n)'
    BY <1>2, <1>3 DEF WillEnter, Claiming
  <2>4. \A n \in DOMAIN rows'[x] : n \in DOMAIN rows[x] \/ (x = t /\ n = m)
    BY <1>4, <1>5
  <2> QED
    BY <2>1, <2>2, <2>3, <2>4 DEF ClaimsKept
<1>11. ExactInv'
  BY <1>6, <1>10, SameNamesKept, ExactInvKept DEF DataInv
<1> QED
  BY <1>8, <1>9, <1>11 DEF DataInv

\* INSERT adds a row that is claimed for every index.
LEMMA InsertData ==
  ASSUME TypeInv, DataInv, NEW s \in Sessions, NEW t \in Tables, NEW k \in Keys, Insert(s, t, k)
  PROVE  DataInv'
<1>1. rows[t] \in Seq(Row)
  BY DEF TypeInv, RowsOK
<1> QED
  BY <1>1, AddedData DEF Insert, Free

\* Of the rows of t once s has deleted the n-th: a live one was live.
LEMMA DeletedLive ==
  ASSUME RowsOK, NEW t \in Tables, NEW n \in DOMAIN rows[t], NEW s \in Sessions,
         rows[t][n].del = None
  PROVE  \A m \in DOMAIN rows[t] : Live(Deleted(t, n, s)[m]) => Live(rows[t][m])
<1>1. None # Done
  BY MarksAssumption
<1>2. \A m \in DOMAIN rows[t] : /\ Deleted(t, n, s)[m].ins = rows[t][m].ins
                                /\ m # n => Deleted(t, n, s)[m] = rows[t][m]
  BY DeletedRows
<1> QED
  BY <1>1, <1>2 DEF Live

\* UPDATE does too; the old version stays in the index, as does its row.
LEMMA UpdateData ==
  ASSUME TypeInv, DataInv, NEW s \in Sessions, NEW t \in Tables, NEW n \in Slots, NEW k \in Keys,
         Update(s, t, n, k)
  PROVE  DataInv'
<1>1. /\ up /\ dml[s] = IdleDml /\ n \in DOMAIN rows[t] /\ rows[t][n].del = None
      /\ Len(rows[t]) < MaxRows /\ UNCHANGED <<names, file, ddl, tree, damage>>
      /\ rows' = [rows EXCEPT ![t] =
                    Append(Deleted(t, n, s), [key |-> k, ins |-> s, del |-> None])]
      /\ dml' = [dml EXCEPT ![s] = Entering(t, k)]
  BY DEF Update, Free
<1>2. PICK rs \in Seq(Row) : rs = Deleted(t, n, s)
  BY <1>1, DeletedRows DEF TypeInv
<1>3. /\ Len(rs) = Len(rows[t])
      /\ \A m \in DOMAIN rows[t] : /\ rs[m].key = rows[t][m].key /\ rs[m].ins = rows[t][m].ins
                                   /\ Live(rs[m]) => Live(rows[t][m])
  BY <1>1, <1>2, DeletedRows, DeletedLive DEF TypeInv
<1> QED
  BY <1>1, <1>2, <1>3, AddedData

\* DELETE leaves entries and rows.
LEMMA DeleteData ==
  ASSUME TypeInv, DataInv, NEW s \in Sessions, NEW t \in Tables, NEW n \in Slots, Delete(s, t, n)
  PROVE  DataInv'
<1>1. /\ up /\ n \in DOMAIN rows[t] /\ rows[t][n].del = None
      /\ UNCHANGED <<names, file, ddl, tree, damage, dml>>
      /\ rows' = [rows EXCEPT ![t] = Deleted(t, n, s)]
  BY DEF Delete, Free
<1>2. \A x \in Tables : /\ DOMAIN rows'[x] = DOMAIN rows[x]
                        /\ \A m \in DOMAIN rows[x] : /\ rows'[x][m].key = rows[x][m].key
                                                     /\ rows'[x][m].ins = rows[x][m].ins
                                                     /\ Live(rows'[x][m]) => Live(rows[x][m])
  <2>1. /\ DOMAIN Deleted(t, n, s) = DOMAIN rows[t]
        /\ \A m \in DOMAIN rows[t] : /\ Deleted(t, n, s)[m].key = rows[t][m].key
                                     /\ Deleted(t, n, s)[m].ins = rows[t][m].ins
                                     /\ Live(Deleted(t, n, s)[m]) => Live(rows[t][m])
    BY <1>1, DeletedRows, DeletedLive DEF TypeInv
  <2>2. rows'[t] = Deleted(t, n, s) /\ \A x \in Tables \ {t} : rows'[x] = rows[x]
    BY <1>1 DEF TypeInv, RowsOK
  <2> QED
    BY <2>1, <2>2
<1>3. \A x \in Tables : Evolved(x)
  BY <1>2 DEF Evolved
<1>4. \A r \in Sessions : dml[r].pc # "idle" => dml[r].table \in Tables
  BY StmtTable DEF TypeInv
<1>5. Owns'
  BY <1>1, <1>2, <1>4 DEF DataInv, Owns, HasRow, Claiming
<1>6. FetchInv'
  BY <1>1, <1>3, <1>4, FetchKept DEF DataInv
<1>7. \A i \in Indexes, x \in Tables : ClaimsKept(i, x)
  BY <1>1, <1>2, UnchangedClaims DEF ClaimsKept
<1>8. ExactInv'
  BY <1>1, <1>3, <1>7, SameNamesKept, ExactInvKept DEF DataInv
<1> QED
  BY <1>5, <1>6, <1>8 DEF DataInv

\* The indexes that the row is not entered into are marked as bypassed.
LEMMA ChooseData ==
  ASSUME TypeInv, DataInv, NEW s \in Sessions, ChooseIndex(s)
  PROVE  DataInv'
<1>1. PICK st \in Choosing : st = dml[s]
  BY StmtKinds DEF TypeInv, DmlOK, ChooseIndex
<1>2. PICK c \in Indexes \cup {None} : c = first[st.table]
  BY <1>1, FirstsType DEF Choosing, TypeInv, NamesOK
<1>3. /\ up /\ UNCHANGED <<names, file, ddl, tree, rows>>
      /\ damage' = [j \in Indexes |-> IF j \in PassedBy(st.table, c) /\ ~st.lost
                                      THEN damage[j] \cup {"Bypassed"} ELSE damage[j]]
  BY <1>1, <1>2 DEF ChooseIndex
<1>4. /\ \A r \in Sessions \ {s} : dml'[r] = dml[r]
      /\ c = None => dml'[s].pc = "idle"
      /\ c # None => /\ dml'[s].pc = "open" /\ dml'[s].table = st.table /\ dml'[s].slot = st.slot
                     /\ dml'[s].key = st.key /\ dml'[s].lost = st.lost /\ dml'[s].index = c
  BY <1>1, <1>2 DEF ChooseIndex, TypeInv, DmlOK, IdleDml
<1>5. st.pc = "choose"
  BY DEF Choosing
<1>6. \A x : Evolved(x)
  BY <1>3 DEF Evolved
<1>7. Owns'
  BY <1>1, <1>3, <1>4, <1>5 DEF DataInv, Owns, HasRow, Claiming
<1>8. FetchInv'
  BY <1>3, <1>4, <1>6, FetchKept DEF DataInv
<1>9. ASSUME NEW i \in Indexes, NEW t \in Tables, damage'[i] = {}, Kept(i, t)'
      PROVE  damage[i] = {} /\ Kept(i, t) /\ ClaimsKept(i, t)
  <2>1. damage[i] = {} /\ Kept(i, t)
    BY <1>3, <1>9, SameNamesKept
  <2>2. ~(i \in PassedBy(st.table, c) /\ ~st.lost)
    BY <1>3, <1>9
  <2>3. i # c /\ st.table = t => i \in PassedBy(st.table, c)
    BY <2>1 DEF PassedBy, Kept
  <2>4. \A n : WillEnter(i, t, n)' => WillEnter(i, t, n)
    BY <1>1, <1>4, <1>5 DEF WillEnter
  <2>5. ASSUME NEW n, WillEnter(i, t, n) PROVE WillEnter(i, t, n)'
    <3>1. PICK r \in Sessions :
            /\ dml[r].pc \in {"choose", "open", "enter"} /\ ~dml[r].lost
            /\ dml[r].table = t /\ dml[r].slot = n
            /\ dml[r].pc \in {"open", "enter"} => dml[r].index = i
            /\ dml[r].pc = "enter" => dml[r].age = 0
      BY <2>5 DEF WillEnter
    <3>2. CASE r # s
      BY <1>4, <3>1, <3>2 DEF WillEnter
    <3>3. CASE r = s
      <4>1. i = c
        BY <1>1, <2>2, <2>3, <3>1, <3>3
      <4> QED
        BY <1>1, <1>4, <3>1, <3>3, <4>1, NamesAssumption DEF WillEnter
    <3> QED
      BY <3>2, <3>3
  <2> QED
    BY <1>3, <2>1, <2>4, <2>5 DEF ClaimsKept
<1>10. ExactInv'
  BY <1>3, <1>6, <1>9, ExactInvKept DEF DataInv
<1> QED
  BY <1>7, <1>8, <1>10 DEF DataInv

\* The handle that is taken is to the index that was chosen; if that is kept for
\* another table now, then the statement has no claim on it.
LEMMA OpenData ==
  ASSUME TypeInv, DataInv, NEW s \in Sessions, OpenIndex(s)
  PROVE  DataInv'
<1>1. PICK st \in Opening : st = dml[s]
  BY StmtKinds DEF TypeInv, DmlOK, OpenIndex
<1>2. PICK lost \in BOOLEAN : lost = (st.lost \/ KeptFor(st.index) # st.table)
  BY DEF Opening
<1>3. /\ up /\ UNCHANGED <<names, file, ddl, tree, damage, rows>>
      /\ dml' = [dml EXCEPT ![s] = [pc |-> "enter", table |-> st.table, slot |-> st.slot,
                                   key |-> st.key, lost |-> lost, index |-> st.index, age |-> 0]]
  BY <1>1, <1>2 DEF OpenIndex
<1>4. /\ \A r \in Sessions \ {s} : dml'[r] = dml[r]
      /\ dml'[s].pc = "enter" /\ dml'[s].table = st.table /\ dml'[s].slot = st.slot
      /\ dml'[s].key = st.key /\ dml'[s].lost = lost /\ dml'[s].index = st.index /\ dml'[s].age = 0
  BY <1>3 DEF TypeInv, DmlOK
<1>5. st.pc = "open" /\ (~lost => ~st.lost) /\ (KeptFor(st.index) = st.table /\ ~st.lost => ~lost)
  BY <1>2 DEF Opening
<1>6. \A x : Evolved(x)
  BY <1>3 DEF Evolved
<1>7. Owns'
  BY <1>1, <1>3, <1>4, <1>5 DEF DataInv, Owns, HasRow, Claiming
<1>8. FetchInv'
  BY <1>3, <1>4, <1>6, FetchKept DEF DataInv
<1>9. ASSUME NEW i \in Indexes, NEW t \in Tables, Kept(i, t) PROVE ClaimsKept(i, t)
  <2>1. \A n : WillEnter(i, t, n)' => WillEnter(i, t, n)
    BY <1>1, <1>4, <1>5 DEF WillEnter
  <2>2. ASSUME NEW n, WillEnter(i, t, n) PROVE WillEnter(i, t, n)'
    <3>1. PICK r \in Sessions :
            /\ dml[r].pc \in {"choose", "open", "enter"} /\ ~dml[r].lost
            /\ dml[r].table = t /\ dml[r].slot = n
            /\ dml[r].pc \in {"open", "enter"} => dml[r].index = i
            /\ dml[r].pc = "enter" => dml[r].age = 0
      BY <2>2 DEF WillEnter
    <3>2. CASE r # s
      BY <1>4, <3>1, <3>2 DEF WillEnter
    <3>3. CASE r = s
      <4>1. st.index = i /\ st.table = t /\ ~lost
        BY <1>1, <1>5, <1>9, <3>1, <3>3 DEF Kept
      <4> QED
        BY <1>1, <1>4, <3>1, <3>3, <4>1 DEF WillEnter
    <3> QED
      BY <3>2, <3>3
  <2> QED
    BY <1>3, <2>1, <2>2 DEF ClaimsKept
<1>10. ExactInv'
  BY <1>3, <1>6, <1>9, SameNamesKept, ExactInvKept DEF DataInv
<1> QED
  BY <1>7, <1>8, <1>10 DEF DataInv

\* Where s enters a row, the other statements go on as they were, or go on searching.
LEMMA EnterRest ==
  ASSUME TypeInv, NEW s \in Sessions, EnterIndex(s) \/ EnterUnlinked(s)
  PROVE  /\ dml'[s] = IdleDml
         /\ \A r \in Sessions \ {s} : dml'[r] = dml[r] \/ (dml[r].pc = "search" /\ dml'[r].pc = "search")
<1>1. dml'[s] = IdleDml
  BY EnterOthers
<1>2. ASSUME NEW r \in Sessions \ {s}
      PROVE  dml'[r] = dml[r] \/ (dml[r] \in Searching /\ dml'[r] \in Searching)
  BY EnterOthers
<1>3. \A st \in Searching : st.pc = "search"
  BY DEF Searching
<1> QED
  BY <1>1, <1>2, <1>3

\* The tree that the row enters: it had no entry of that slot, for the row was
\* claimed.
LEMMA EnteredExact ==
  ASSUME TypeInv, TypeInv', Owns, NEW i \in Indexes, NEW t \in Tables, Exact(i, t),
         NEW s \in Sessions, Claiming(dml[s]), dml[s].pc = "enter", dml[s].age = 0,
         dml[s].index = i, dml[s].table = t,
         NEW n \in Slots, n = dml[s].slot, NEW k \in Keys, k = dml[s].key,
         tree'[i] = Entered(i, <<k, n>>), rows' = rows,
         dml'[s] = IdleDml,
         \A r \in Sessions \ {s} : dml'[r] = dml[r] \/ (dml[r].pc = "search" /\ dml'[r].pc = "search")
  PROVE  Exact(i, t)'
<1>1. n \in DOMAIN rows[t] /\ rows[t][n].ins = s /\ rows[t][n].key = k
  BY DEF Owns, HasRow
<1>2. WillEnter(i, t, n)
  BY DEF WillEnter, Claiming
<1>3. ~WillEnter(i, t, n)'
  <2> SUFFICES ASSUME WillEnter(i, t, n)' PROVE FALSE
    OBVIOUS
  <2>1. PICK r \in Sessions : Claiming(dml'[r]) /\ dml'[r].table = t /\ dml'[r].slot = n
    BY DEF WillEnter, Claiming
  <2>2. r # s /\ Claiming(dml[r]) /\ dml[r].table = t /\ dml[r].slot = n
    BY <2>1 DEF Claiming, IdleDml
  <2>3. rows[t][n].ins = r
    BY <2>2 DEF Owns, HasRow
  <2> QED
    BY <1>1, <2>2, <2>3
<1>4. \A m \in Slots \ {n} : WillEnter(i, t, m)' <=> WillEnter(i, t, m)
  BY DEF WillEnter, IdleDml
<1>5. \A l \in Keys : tree[i][<<l, n>>] = 0
  BY <1>2 DEF Exact
<1>6. \A m \in Slots, l \in Keys :
        tree'[i][<<l, m>>] = IF m = n /\ l = k THEN tree[i][<<k, n>>] + 1 ELSE tree[i][<<l, m>>]
  BY DEF Entered, Entries, TypeInv, TreeOK
<1>7. \A l \in Keys : tree'[i][<<l, n>>] = IF l = k THEN 1 ELSE 0
  BY <1>5, <1>6
<1> SUFFICES ASSUME NEW m \in Slots, NEW l \in Keys
             PROVE  /\ tree'[i][<<l, m>>] # 0 =>
                         /\ m \in DOMAIN rows'[t] /\ rows'[t][m].key = l
                         /\ ~WillEnter(i, t, m)' /\ tree'[i][<<l, m>>] = 1
                    /\ m \in DOMAIN rows'[t] /\ rows'[t][m].key = l /\ Live(rows'[t][m])
                         /\ ~WillEnter(i, t, m)' => tree'[i][<<l, m>>] = 1
  BY Zenon DEF Exact
<1> HIDE DEF WillEnter
<1>8. CASE m = n
  BY <1>1, <1>3, <1>7, <1>8
<1>9. CASE m # n
  BY <1>4, <1>6, <1>9 DEF Exact
<1> QED
  BY <1>8, <1>9

\* What an entry does to the scans of the same tree: it is a row of their table.
LEMMA EnterFetch ==
  ASSUME TypeInv, HandlesInv, DataInv, NEW s \in Sessions, EnterIndex(s) \/ EnterUnlinked(s),
         UNCHANGED rows
  PROVE  FetchInv'
<1>1. PICK st \in Indexing : st = dml[s] /\ st.pc = "enter"
  BY EnterOthers DEF Indexing
<1>2. PICK i \in Indexes, t \in Tables, n \in Slots, k \in Keys, a \in Nat :
        i = st.index /\ t = st.table /\ n = st.slot /\ k = st.key /\ a = st.age
  BY DEF Indexing
<1>3. /\ EnterIndex(s) => a = 0 /\ tree' = [tree EXCEPT ![i] = Entered(i, <<k, n>>)]
      /\ EnterUnlinked(s) => a > 0 /\ tree' = tree
  BY <1>1, <1>2, Zenon DEF EnterIndex, EnterUnlinked
<1>4. EnterIndex(s) => \A j \in Indexes, e \in Entries :
        tree'[j][e] = IF j = i /\ e = <<k, n>> THEN tree[j][e] + 1 ELSE tree[j][e]
  <2> SUFFICES ASSUME EnterIndex(s), NEW j \in Indexes, NEW e \in Entries
               PROVE  tree'[j][e] = IF j = i /\ e = <<k, n>> THEN tree[j][e] + 1 ELSE tree[j][e]
    OBVIOUS
  <2>1. tree' = [tree EXCEPT ![i] = Entered(i, <<k, n>>)] /\ tree \in [Indexes -> [Entries -> Nat]]
    BY <1>3 DEF TypeInv, TreeOK
  <2>2. tree'[i] = Entered(i, <<k, n>>) /\ (j # i => tree'[j] = tree[j])
    BY <2>1
  <2>3. Entered(i, <<k, n>>)[e] = IF e = <<k, n>> THEN tree[i][e] + 1 ELSE tree[i][e]
    BY <2>1 DEF Entered
  <2> QED
    BY <2>2, <2>3
<1>5. ~st.lost => n \in DOMAIN rows[t] /\ rows[t][n].key = k
  BY <1>1, <1>2 DEF DataInv, Owns, HasRow, Claiming
<1> SUFFICES ASSUME NEW r \in Sessions, dml'[r].pc \in {"search", "fetch"}, ~dml'[r].lost
             PROVE  FetchOK(dml[r])'
  BY DEF FetchInv, FetchOK
<1>6. r # s /\ FetchOK(dml[r])
  BY EnterOthers DEF IdleDml, DataInv, FetchInv
<1>7. CASE r \in Sharing(dml[s])
  <2>1. /\ dml[r] \in Searching /\ dml'[r] \in Searching
        /\ dml'[r].index = dml[r].index /\ dml'[r].table = dml[r].table
        /\ dml'[r].age = dml[r].age /\ dml'[r].key = dml[r].key /\ dml'[r].due = dml[r].due
        /\ ~dml[r].lost /\ ~st.lost
        /\ EnterUnlinked(s) =>
             dml'[r].found = IF dml[r].key = k THEN dml[r].found \cup {n} ELSE dml[r].found
    BY <1>1, <1>2, <1>6, <1>7, EnterOthers
  <2>2. dml[r].pc = "search" /\ dml'[r].pc = "search" /\ dml[r].index = i /\ dml[r].age = a
    BY <1>1, <1>2, <1>7, <2>1 DEF Sharing, Searching
  <2>3. PICK l \in Keys : l = dml[r].key
    BY <2>1 DEF Searching
  <2>4. dml[r].table = t
    BY <1>1, <1>2, <2>1, <2>2 DEF HandlesInv, Holding
  <2>5. dml[r].due \subseteq Located(dml[r]) /\ \A m \in Located(dml[r]) : m \in DOMAIN rows[t] /\ rows[t][m].key = l
    BY <1>6, <2>1, <2>2, <2>3, <2>4 DEF FetchOK, Got
  <2>6. Located(dml[r])' = IF l = k THEN Located(dml[r]) \cup {n} ELSE Located(dml[r])
    <3>1. CASE EnterIndex(s)
      <4>1. Located(dml[r]) = {m \in Slots : tree[i][<<l, m>>] > 0}
        BY <1>3, <2>2, <2>3, <3>1 DEF Located
      <4>2. Located(dml[r])' = {m \in Slots : tree'[i][<<l, m>>] > 0}
        BY <1>3, <2>1, <2>2, <2>3, <3>1 DEF Located
      <4>3. \A m \in Slots : <<l, m>> \in Entries /\ tree[i][<<l, m>>] \in Nat
        BY DEF Entries, TypeInv, TreeOK
      <4>4. \A m \in Slots : tree'[i][<<l, m>>] > 0 <=> tree[i][<<l, m>>] > 0 \/ (l = k /\ m = n)
        BY <1>4, <3>1, <4>3
      <4> QED
        BY <4>1, <4>2, <4>4
    <3>2. CASE EnterUnlinked(s)
      <4>1. dml'[r].age # 0 /\ dml[r].age # 0
        BY <1>3, <2>1, <2>2, <3>2
      <4>2. Located(dml[r]) = dml[r].found /\ Located(dml[r])' = dml'[r].found
        BY <4>1 DEF Located
      <4> QED
        BY <2>1, <2>3, <3>2, <4>2
    <3> QED
      BY <3>1, <3>2
  <2>7. Got(dml[r])' = Located(dml[r])'
    BY <2>2 DEF Got
  <2> QED
    BY <1>5, <2>1, <2>3, <2>4, <2>5, <2>6, <2>7 DEF FetchOK
<1>8. CASE r \notin Sharing(dml[s])
  <2>1. dml'[r] = dml[r]
    BY <1>6, <1>8, EnterOthers
  <2>2. Got(dml[r])' = Got(dml[r])
    <3>1. CASE dml[r].pc = "search" /\ dml[r].age = 0
      <4>1. dml[r] \in Searching
        BY <3>1, StmtKinds DEF TypeInv, DmlOK
      <4>2. PICK j \in Indexes, l \in Keys : j = dml[r].index /\ l = dml[r].key
        BY <4>1 DEF Searching
      <4>3. EnterIndex(s) => j # i
        BY <1>1, <1>2, <1>3, <1>8, <3>1, <4>2 DEF Sharing
      <4>4. tree'[j] = tree[j]
        BY <1>3, <4>2, <4>3 DEF TypeInv, TreeOK
      <4> QED
        BY <2>1, <3>1, <4>2, <4>4 DEF Got, Located
    <3>2. CASE ~(dml[r].pc = "search" /\ dml[r].age = 0)
      BY <2>1, <3>2 DEF Got, Located
    <3> QED
      BY <3>1, <3>2
  <2> QED
    BY <1>6, <2>1, <2>2 DEF FetchOK
<1> QED
  BY <1>7, <1>8

\* A row is entered into its index: the claim becomes an entry.
LEMMA EnterData ==
  ASSUME TypeInv, TypeInv', NamesInv, HandlesInv, DataInv, NEW s \in Sessions, EnterIndex(s)
  PROVE  DataInv'
<1>1. PICK st \in Indexing : st = dml[s]
  BY StmtKinds DEF TypeInv, DmlOK, EnterIndex
<1>2. PICK i \in Indexes, t \in Tables, n \in Slots, k \in Keys :
        i = st.index /\ t = st.table /\ n = st.slot /\ k = st.key
  BY DEF Indexing
<1>3. /\ up /\ UNCHANGED <<names, file, ddl, rows>> /\ st.pc = "enter" /\ st.age = 0
      /\ tree' = [tree EXCEPT ![i] = Entered(i, <<k, n>>)]
      /\ damage' = IF st.lost THEN [damage EXCEPT ![i] = @ \cup {"LateEntry"}] ELSE damage
  BY <1>1, <1>2, Zenon DEF EnterIndex
<1>4. /\ dml'[s] = IdleDml
      /\ \A r \in Sessions \ {s} : dml'[r] = dml[r] \/ (dml[r].pc = "search" /\ dml'[r].pc = "search")
  BY EnterRest
<1>5. ~Claiming(dml'[s]) /\ dml'[s].pc = "idle"
  BY <1>4 DEF Claiming, IdleDml
<1>6. \A x : Evolved(x)
  BY <1>3 DEF Evolved
<1>7. Owns'
  <2> SUFFICES ASSUME NEW r \in Sessions, Claiming(dml'[r]) PROVE dml'[r] = dml[r] /\ HasRow(dml[r], r)
    BY <1>3 DEF Owns, HasRow
  <2>1. dml'[r] = dml[r]
    BY <1>4, <1>5 DEF Claiming
  <2> QED
    BY <2>1 DEF DataInv, Owns
<1>8. FetchInv'
  BY <1>3, EnterFetch
<1>9. ASSUME NEW j \in Indexes, NEW x \in Tables, damage'[j] = {}, Kept(j, x)' PROVE Exact(j, x)'
  <2>1. damage[j] = {} /\ Kept(j, x)
    BY <1>3, <1>9, SameNamesKept DEF TypeInv, DamageOK
  <2>2. Exact(j, x)
    BY <1>3, <2>1 DEF DataInv, ExactInv
  <2>3. CASE j # i
    <3>1. tree'[j] = tree[j]
      BY <1>3, <2>3 DEF TypeInv, TreeOK
    <3>2. \A m : WillEnter(j, x, m)' <=> WillEnter(j, x, m)
      BY <1>1, <1>2, <1>3, <1>4, <1>5, <2>3 DEF WillEnter
    <3>3. ClaimsKept(j, x)
      BY <1>3, <3>2 DEF ClaimsKept
    <3> QED
      BY <1>6, <2>2, <3>1, <3>3, ExactKept
  <2>4. CASE j = i
    <3>1. ~st.lost
      BY <1>3, <1>9, <2>4 DEF TypeInv, DamageOK
    <3>2. Rightful(i, t)
      BY <1>1, <1>2, <1>3, <3>1 DEF HandlesInv, Holding
    <3>3. x = t
      BY <2>1, <2>4, <3>2, NamesAssumption DEF Rightful, Kept
    <3>4. Claiming(dml[s]) /\ tree'[i] = Entered(i, <<k, n>>)
      BY <1>1, <1>3, <3>1 DEF Claiming, TypeInv, TreeOK
    <3> QED
      BY <1>1, <1>2, <1>3, <1>4, <2>2, <2>4, <3>3, <3>4, EnteredExact DEF DataInv
  <2> QED
    BY <2>3, <2>4
<1> QED
  BY <1>7, <1>8, <1>9 DEF DataInv, ExactInv

\* A row that is entered into a tree without a name was not claimed for an index.
LEMMA UnlinkedData ==
  ASSUME TypeInv, HandlesInv, DataInv, NEW s \in Sessions, EnterUnlinked(s)
  PROVE  DataInv'
<1>1. /\ up /\ UNCHANGED <<names, file, ddl, rows, tree, damage>>
      /\ dml[s].pc = "enter" /\ dml[s].age # 0
  <2>1. /\ up /\ UNCHANGED <<names, file, ddl, rows, tree, damage>>
        /\ dml[s].pc = "enter" /\ dml[s].age > 0
    BY Zenon DEF EnterUnlinked
  <2> QED
    BY <2>1
<1>2. /\ dml'[s] = IdleDml
      /\ \A r \in Sessions \ {s} : dml'[r] = dml[r] \/ (dml[r].pc = "search" /\ dml'[r].pc = "search")
  BY EnterRest
<1>3. dml'[s].pc = "idle"
  BY <1>2 DEF IdleDml
<1>4. \A x : Evolved(x)
  BY <1>1 DEF Evolved
<1>5. Owns'
  <2> SUFFICES ASSUME NEW r \in Sessions, Claiming(dml'[r]) PROVE dml'[r] = dml[r] /\ HasRow(dml[r], r)
    BY <1>1 DEF Owns, HasRow
  <2>1. dml'[r] = dml[r]
    BY <1>2, <1>3 DEF Claiming
  <2> QED
    BY <2>1 DEF DataInv, Owns
<1>6. FetchInv'
  BY <1>1, EnterFetch
<1>7. \A i, x, m : WillEnter(i, x, m)' <=> WillEnter(i, x, m)
  BY <1>1, <1>2, <1>3 DEF WillEnter
<1>8. \A i, x : ClaimsKept(i, x)
  BY <1>1, <1>7 DEF ClaimsKept
<1>9. ExactInv'
  BY <1>1, <1>4, <1>8, SameNamesKept, ExactInvKept DEF DataInv
<1> QED
  BY <1>5, <1>6, <1>9 DEF DataInv


(***************************************************************************)
(* Statements on tables and indexes, and a crash.                          *)
(***************************************************************************)

\* A step that changes neither rows nor statements, nor the tree of an index that
\* is kept undamaged, and does not begin to keep an index for a table.
LEMMA DdlData ==
  ASSUME TypeInv, DataInv, up, UNCHANGED <<rows, dml, tree>>,
         \A i \in Indexes, t \in Tables : damage'[i] = {} /\ Kept(i, t)' => damage[i] = {} /\ Kept(i, t)
  PROVE  DataInv'
<1>1. \A t : Evolved(t)
  <2>1. rows' = rows
    OBVIOUS
  <2> QED
    BY <2>1 DEF Evolved
<1>2. \A i, t : ClaimsKept(i, t)
  <2>1. rows' = rows
    OBVIOUS
  <2> QED
    BY <2>1, UnchangedClaims DEF ClaimsKept
<1>3. Owns'
  BY DEF DataInv, Owns, HasRow
<1>4. FetchInv'
  BY <1>1, FetchKept DEF DataInv
<1>5. ExactInv'
  BY <1>1, <1>2, ExactInvKept DEF DataInv
<1> QED
  BY <1>3, <1>4, <1>5 DEF DataInv

\* The calls that change the names only.
LEMMA CallData ==
  ASSUME TypeInv, TypeInv', NamesInv, DataInv,
         \/ CreateTable \/ DropTable \/ SkipDrop \/ HookTree \/ ListIndex \/ DropIndex
         \/ UnlistIndex \/ SaveMeta
  PROVE  DataInv'
<1>1. UNCHANGED <<rows, tree, dml, damage>>
  BY Zenon DEF CreateTable, DropTable, SkipDrop, HookTree, ListIndex, DropIndex, UnlistIndex, SaveMeta
<1>2. up /\ \A i \in Indexes : damage[i] # {} \/ KeptFor(i)' \in {KeptFor(i), None}
  <2>1. CASE CreateTable \/ DropTable \/ SkipDrop
    BY <2>1, TableNames
  <2>2. CASE HookTree \/ ListIndex
    BY <2>2, ListNames
  <2>3. CASE DropIndex
    BY <2>3, DropIndexNames
  <2>4. CASE UnlistIndex
    BY <2>4, UnlistNames
  <2>5. CASE SaveMeta
    BY <2>5, SaveNames
  <2> QED
    BY <2>1, <2>2, <2>3, <2>4, <2>5
<1>3. \A i \in Indexes, t \in Tables : damage'[i] = {} /\ Kept(i, t)' => damage[i] = {} /\ Kept(i, t)
  BY <1>1, <1>2, NamesAssumption DEF Kept
<1> QED
  BY <1>1, <1>2, <1>3, DdlData

\* A failing save aborts the transaction of Admin, who is in no other statement.
LEMMA SaveFailsData ==
  ASSUME TypeInv, TypeInv', NamesInv, AdminInv, DataInv, SaveFails
  PROVE  DataInv'
<1>1. ddl.pc = "save" /\ rows' = Ended({Admin}, Void)
  BY DEF SaveFails
<1>2. up /\ UNCHANGED <<tree, dml, damage>> /\ \A i \in Indexes : KeptFor(i)' \in {KeptFor(i), None}
  BY SaveNames
<1>3. \A i \in Indexes, t \in Tables : Kept(i, t)' => Kept(i, t)
  BY <1>2, NamesAssumption DEF Kept
<1>4. Admin \in Sessions /\ dml[Admin] = IdleDml
  BY <1>1, AdminAssumption DEF AdminInv
<1>5. dml'[Admin] = IdleDml /\ \A r \in Sessions \ {Admin} : dml'[r] = dml[r]
  BY <1>2, <1>4
<1> QED
  BY <1>1, <1>2, <1>3, <1>4, <1>5, EndData

\* DROP TABLE: the statements on the table are lost, its indexes orphaned.
LEMMA UnlinkTableData ==
  ASSUME TypeInv, TypeInv', NamesInv, DataInv, UnlinkTable
  PROVE  DataInv'
<1>1. ddl.pc = "call" /\ Subject.op = "unlink_table"
  BY Zenon DEF UnlinkTable
<1>2. PICK T \in Tables : T = Subject.table
  BY <1>1, SubjectType DEF Proper
<1>3. /\ UNCHANGED tree /\ rows' = [rows EXCEPT ![T] = <<>>]
      /\ damage' = [i \in Indexes |-> IF KeptFor(i) = T THEN damage[i] \cup {"Orphaned"} ELSE damage[i]]
      /\ dml' = [s \in Sessions |-> IF dml[s].pc \notin {"idle", "plan"} /\ dml[s].table = T
                                    THEN [dml[s] EXCEPT !.lost = TRUE] ELSE dml[s]]
  BY <1>2, Zenon DEF UnlinkTable
<1>4. up /\ \A i : KeptFor(i)' = KeptFor(i)
  BY TableNames
<1>5. ASSUME NEW s \in Sessions
      PROVE  \/ dml'[s] = dml[s] /\ (dml[s].pc \in {"idle", "plan"} \/ dml[s].table # T)
             \/ dml[s].table = T /\ dml'[s].table = T /\ dml'[s].lost = TRUE
  <2>1. dml[s] \in Stmt
    BY DEF TypeInv, DmlOK
  <2>2. CASE dml[s].pc \in {"idle", "plan"} \/ dml[s].table # T
    BY <1>3, <2>2
  <2>3. CASE dml[s].pc \notin {"idle", "plan"} /\ dml[s].table = T
    BY <1>3, <2>1, <2>3, LostStmt
  <2> QED
    BY <2>2, <2>3
<1>6. \A x \in Tables \ {T} : rows'[x] = rows[x] /\ Evolved(x)
  BY <1>3 DEF TypeInv, RowsOK, Evolved
<1>7. \A r \in Sessions : dml[r].pc # "idle" => dml[r].table \in Tables
  BY StmtTable DEF TypeInv
<1>8. ASSUME NEW s \in Sessions, dml'[s].pc \notin {"idle", "plan"}, ~dml'[s].lost
      PROVE  dml'[s] = dml[s] /\ dml[s].table \in Tables \ {T}
  BY <1>5, <1>7, <1>8
<1>9. Owns'
  <2> SUFFICES ASSUME NEW s \in Sessions, Claiming(dml'[s]) PROVE HasRow(dml[s], s)' /\ dml'[s] = dml[s]
    BY DEF Owns, HasRow
  <2>1. dml'[s] = dml[s] /\ dml[s].table \in Tables \ {T}
    BY <1>8 DEF Claiming
  <2> QED
    BY <1>6, <2>1 DEF DataInv, Owns, HasRow
<1>10. FetchInv'
  BY <1>3, <1>6, <1>8, FetchKept DEF DataInv
<1>11. ASSUME NEW i \in Indexes, NEW t \in Tables, damage'[i] = {}, Kept(i, t)'
       PROVE  damage[i] = {} /\ Kept(i, t) /\ Evolved(t) /\ ClaimsKept(i, t)
  <2>1. damage[i] = {} /\ KeptFor(i) # T
    BY <1>3, <1>11
  <2>2. Kept(i, t) /\ t \in Tables \ {T}
    BY <1>4, <1>11, <2>1 DEF Kept
  <2>3. ASSUME NEW s \in Sessions, dml[s].pc \notin {"idle", "plan"}, dml[s].table = t
        PROVE  dml'[s] = dml[s]
    BY <1>5, <2>2, <2>3
  <2>4. ASSUME NEW s \in Sessions, dml'[s].pc \notin {"idle", "plan"}, ~dml'[s].lost
        PROVE  dml'[s] = dml[s]
    BY <1>8, <2>4
  <2>5. \A n : WillEnter(i, t, n)' <=> WillEnter(i, t, n)
    BY <2>3, <2>4 DEF WillEnter
  <2>6. ClaimsKept(i, t)
    BY <1>6, <2>2, <2>5 DEF ClaimsKept
  <2> QED
    BY <1>6, <2>1, <2>2, <2>6
<1>12. ExactInv'
  BY <1>3, <1>4, <1>11, ExactInvKept DEF DataInv
<1> QED
  BY <1>9, <1>10, <1>12 DEF DataInv

\* An index that is built without damage has the committed rows, and every other
\* live row is claimed.
LEMMA CreateIndexData ==
  ASSUME TypeInv, TypeInv', NamesInv, HandlesInv, DataInv, CreateIndex
  PROVE  DataInv'
<1>1. PICK i \in Indexes, t \in Tables :
        /\ up /\ ddl.pc \in {"idle", "call"} /\ meta[i] = None
        /\ tree' = [tree EXCEPT ![i] = [e \in Entries |-> tree[i][e] + Backfilled(t)[e]]]
        /\ damage' = [damage EXCEPT ![i] =
             {c \in {"Leftover"} : tree[i] # NoEntries} \cup
             {c \in {"Misnamed"} : Saved(i) \notin {None, t}} \cup
             {c \in {"Running"} : \E n \in DOMAIN rows[t] :
                rows[t][n].ins \in Sessions /\ ~WillEnter(i, t, n)}]
        /\ KeptFor(i)' = t
        /\ \A j \in Indexes \ {i} : KeptFor(j)' = KeptFor(j)
        /\ UNCHANGED <<names, file, rows, dml>>
  BY CreateIndexBegins
<1>2. trees = Listed /\ i \notin trees
  BY <1>1 DEF NamesInv, Listed
<1>3. UNCHANGED <<rows, dml>>
  BY <1>1
<1>4. \A x : Evolved(x)
  BY <1>3 DEF Evolved
<1>5. \A j, x : ClaimsKept(j, x)
  BY <1>3, UnchangedClaims DEF ClaimsKept
<1>6. \A j \in Indexes \ {i} : tree'[j] = tree[j] /\ damage'[j] = damage[j]
  BY <1>1 DEF TypeInv, TreeOK, DamageOK
<1>7. Owns'
  BY <1>3 DEF DataInv, Owns, HasRow
<1>8. ASSUME NEW s \in Sessions, dml[s].pc \in {"search", "fetch"}, ~dml[s].lost
      PROVE  FetchOK(dml[s])'
  <2>1. Got(dml[s])' = Got(dml[s])
    <3>1. CASE dml[s].pc = "search" /\ dml[s].age = 0
      <4>1. dml[s] \in Searching
        BY <3>1, StmtKinds DEF TypeInv, DmlOK
      <4>2. PICK j \in Indexes : j = dml[s].index
        BY <4>1 DEF Searching
      <4>3. Named(j)
        BY <3>1, <4>2 DEF HandlesInv, Holding
      <4>4. j # i
        BY <1>1, <1>2, <4>3 DEF Named
      <4>5. tree'[j] = tree[j]
        BY <1>6, <4>4
      <4> QED
        BY <1>3, <3>1, <4>2, <4>5 DEF Got, Located
    <3>2. CASE ~(dml[s].pc = "search" /\ dml[s].age = 0)
      BY <1>3, <3>2 DEF Got, Located
    <3> QED
      BY <3>1, <3>2
  <2>2. FetchOK(dml[s])
    BY DEF DataInv, FetchInv
  <2> QED
    BY <1>3, <2>1, <2>2 DEF FetchOK
<1>9. FetchInv'
  BY <1>3, <1>8 DEF FetchInv, FetchOK
<1>10. ASSUME damage'[i] = {} PROVE Exact(i, t)'
  <2>1. tree[i] = NoEntries /\ \A n \in DOMAIN rows[t] : rows[t][n].ins \in Sessions => WillEnter(i, t, n)
    <3>1. damage'[i] = {c \in {"Leftover"} : tree[i] # NoEntries} \cup
             {c \in {"Misnamed"} : Saved(i) \notin {None, t}} \cup
             {c \in {"Running"} : \E n \in DOMAIN rows[t] :
                rows[t][n].ins \in Sessions /\ ~WillEnter(i, t, n)}
      BY <1>1 DEF TypeInv, DamageOK
    <3> HIDE DEF WillEnter
    <3> QED
      BY <1>10, <3>1
  <2>2. \A n \in Slots, k \in Keys :
          tree'[i][<<k, n>>] = IF n \in DOMAIN rows[t] /\ rows[t][n].key = k /\ Visible(rows[t][n], NoOne)
                               THEN 1 ELSE 0
    <3>1. tree'[i] = [e \in Entries |-> tree[i][e] + Backfilled(t)[e]]
      BY <1>1 DEF TypeInv, TreeOK
    <3>2. \A e \in Entries : tree[i][e] = 0 /\ Backfilled(t)[e] \in {0, 1}
      BY <2>1 DEF NoEntries, Backfilled
    <3>3. \A e \in Entries : tree'[i][e] = Backfilled(t)[e]
      BY <3>1, <3>2
    <3> QED
      BY <3>3 DEF Entries, Backfilled
  <2>3. ASSUME NEW n \in DOMAIN rows[t]
        PROVE  /\ Visible(rows[t][n], NoOne) => ~WillEnter(i, t, n)
               /\ Live(rows[t][n]) /\ ~WillEnter(i, t, n) => Visible(rows[t][n], NoOne)
    <3>1. rows[t][n] \in Row
      BY DEF TypeInv, RowsOK
    <3>2. WillEnter(i, t, n) => rows[t][n].ins \in Sessions
      BY ClaimIsOwners DEF DataInv
    <3>3. Done \notin Sessions /\ NoOne \notin Sessions /\ None # NoOne /\ Done # NoOne
      BY MarksAssumption DEF Done, NoOne
    <3>4. rows[t][n].ins \in Sessions \cup {Done, Void} /\ rows[t][n].del \in Sessions \cup {Done, None}
      BY <3>1 DEF Row
    <3> HIDE DEF Done, Void, NoOne
    <3> QED
      BY <2>1, <3>2, <3>3, <3>4 DEF Visible, Live
  <2>4. \A n : WillEnter(i, t, n)' <=> WillEnter(i, t, n)
    BY <1>3, UnchangedClaims
  <2> SUFFICES ASSUME NEW n \in Slots, NEW k \in Keys
               PROVE  /\ tree'[i][<<k, n>>] # 0 =>
                           /\ n \in DOMAIN rows[t] /\ rows[t][n].key = k
                           /\ ~WillEnter(i, t, n)' /\ tree'[i][<<k, n>>] = 1
                      /\ n \in DOMAIN rows[t] /\ rows[t][n].key = k /\ Live(rows[t][n])
                           /\ ~WillEnter(i, t, n)' => tree'[i][<<k, n>>] = 1
    BY <1>3, Zenon DEF Exact
  <2> HIDE DEF WillEnter
  <2> QED
    BY <2>2, <2>3, <2>4
<1>11. ASSUME NEW j \in Indexes, NEW x \in Tables, damage'[j] = {}, Kept(j, x)' PROVE Exact(j, x)'
  <2>1. CASE j = i
    <3>1. x = t
      BY <1>1, <1>11, <2>1 DEF Kept
    <3> QED
      BY <1>10, <1>11, <2>1, <3>1
  <2>2. CASE j # i
    <3>1. damage[j] = {} /\ tree'[j] = tree[j] /\ Kept(j, x)
      BY <1>1, <1>6, <1>11, <2>2 DEF Kept
    <3>2. Exact(j, x)
      BY <1>1, <3>1 DEF DataInv, ExactInv
    <3> QED
      BY <1>4, <1>5, <3>1, <3>2, ExactKept
  <2> QED
    BY <2>1, <2>2
<1> QED
  BY <1>7, <1>9, <1>11 DEF DataInv, ExactInv

\* The file of an index is removed: a scan that holds its tree goes on reading what
\* it had then.
LEMMA UnlinkIndexData ==
  ASSUME TypeInv, TypeInv', NamesInv, DataInv, UnlinkIndex
  PROVE  DataInv'
<1>1. PICK i \in Indexes : i = Subject.index
  BY SubjectType DEF UnlinkIndex
<1>2. /\ tree' = [tree EXCEPT ![i] = NoEntries] /\ damage' = [damage EXCEPT ![i] = {"FileGone"}]
      /\ dml' = [s \in Sessions |-> Aged(dml[s])] /\ UNCHANGED rows
  BY <1>1, Zenon DEF UnlinkIndex
<1>3. up /\ \A j : KeptFor(j)' = KeptFor(j)
  BY UnlinkNames
<1>4. \A x : Evolved(x)
  BY <1>2 DEF Evolved
<1>5. \A s \in Sessions : dml[s] \in Stmt /\ dml'[s] = Aged(dml[s]) /\ dml'[s].pc = dml[s].pc
  BY <1>2, AgedStmt DEF TypeInv, DmlOK
<1>6. ASSUME NEW s \in Sessions, dml[s].pc \in {"choose", "open", "enter"}
      PROVE  /\ dml'[s].pc = dml[s].pc /\ dml'[s].lost = dml[s].lost /\ dml'[s].table = dml[s].table
             /\ dml'[s].slot = dml[s].slot /\ dml'[s].key = dml[s].key
             /\ dml[s].pc \in {"open", "enter"} => dml'[s].index = dml[s].index
             /\ dml[s].pc = "enter" /\ dml[s].index # i => dml'[s].age = dml[s].age
  <2>1. CASE dml[s].pc = "enter"
    BY <1>1, <1>5, <2>1, AgedStmt
  <2>2. CASE dml[s].pc # "enter"
    BY <1>5, <1>6, <2>2, AgedStmt
  <2> QED
    BY <2>1, <2>2
<1>7. Owns'
  BY <1>2, <1>5, <1>6 DEF DataInv, Owns, HasRow, Claiming
<1>8. ASSUME NEW s \in Sessions, dml'[s].pc \in {"search", "fetch"}, ~dml'[s].lost
      PROVE  FetchOK(dml[s])'
  <2>1. FetchOK(dml[s])
    BY DEF DataInv, FetchInv
  <2>2. CASE dml[s].pc = "fetch"
    <3>1. dml'[s] = dml[s]
      BY <1>5, <2>2, AgedStmt
    <3> QED
      BY <1>2, <2>1, <2>2, <3>1 DEF FetchOK, Got
  <2>3. CASE dml[s].pc = "search"
    <3>1. /\ dml'[s].pc = "search" /\ dml'[s].table = dml[s].table /\ dml'[s].lost = dml[s].lost
          /\ dml'[s].key = dml[s].key /\ dml'[s].due = dml[s].due /\ dml'[s].index = dml[s].index
          /\ dml'[s].age = IF dml[s].index = i THEN dml[s].age + 1 ELSE dml[s].age
          /\ dml'[s].found = IF dml[s].index = i THEN Located(dml[s]) ELSE dml[s].found
      BY <1>1, <1>5, <2>3, AgedStmt
    <3>2. dml[s].age \in Nat /\ dml[s].index \in Indexes
      BY <1>5, <2>3, StmtKinds DEF Searching
    <3>3. CASE dml[s].index = i
      <4>1. dml'[s].age # 0 /\ dml'[s].found = Located(dml[s])
        BY <3>1, <3>2, <3>3
      <4>2. Located(dml[s])' = Located(dml[s])
        BY <4>1 DEF Located
      <4> QED
        BY <1>2, <1>8, <2>1, <2>3, <3>1, <4>2 DEF FetchOK, Got
    <3>4. CASE dml[s].index # i
      <4>1. tree'[dml[s].index] = tree[dml[s].index]
        BY <1>2, <3>2, <3>4 DEF TypeInv, TreeOK
      <4>2. Located(dml[s])' = Located(dml[s])
        BY <3>1, <3>4, <4>1 DEF Located
      <4> QED
        BY <1>2, <1>8, <2>1, <2>3, <3>1, <4>2 DEF FetchOK, Got
    <3> QED
      BY <3>3, <3>4
  <2> QED
    BY <1>5, <1>8, <2>2, <2>3
<1>9. FetchInv'
  BY <1>8 DEF FetchInv, FetchOK
<1>10. ASSUME NEW j \in Indexes, NEW x \in Tables, damage'[j] = {}, Kept(j, x)'
       PROVE  damage[j] = {} /\ Kept(j, x) /\ tree'[j] = tree[j] /\ ClaimsKept(j, x)
  <2>1. j # i
    BY <1>2, <1>10 DEF TypeInv, DamageOK
  <2>2. damage[j] = {} /\ tree'[j] = tree[j]
    BY <1>2, <1>10, <2>1 DEF TypeInv, DamageOK, TreeOK
  <2>3. Kept(j, x)
    BY <1>3, <1>10 DEF Kept
  <2>4. \A n : WillEnter(j, x, n)' <=> WillEnter(j, x, n)
    BY <1>5, <1>6, <2>1 DEF WillEnter
  <2>5. ClaimsKept(j, x)
    BY <1>2, <2>4 DEF ClaimsKept
  <2> QED
    BY <2>2, <2>3, <2>5
<1>11. ExactInv'
  BY <1>3, <1>4, <1>10, ExactInvKept DEF DataInv
<1> QED
  BY <1>7, <1>9, <1>11 DEF DataInv

\* A crash makes the claimed rows void, with all those of running transactions.
LEMMA CrashData ==
  ASSUME TypeInv, NamesInv, DataInv, Crash
  PROVE  DataInv'
<1>1. /\ up /\ rows' = Ended(Sessions, Void) /\ UNCHANGED <<tree, damage>>
      /\ dml' = [s \in Sessions |-> IdleDml]
  BY DEF Crash
<1>2. MarksRewritten(rows', Sessions, Void)
  BY <1>1, EndedRows DEF TypeInv
<1>3. \A t \in Tables : Evolved(t)
  BY <1>2 DEF Evolved, MarksRewritten
<1>4. \A s \in Sessions : dml'[s].pc = "idle"
  BY <1>1 DEF IdleDml
<1>5. Owns' /\ FetchInv'
  BY <1>4 DEF Owns, FetchInv, FetchOK, Claiming
<1>6. \A i \in Indexes, t \in Tables : ClaimsKept(i, t)
  <2>1. \A i, t, n : ~WillEnter(i, t, n)'
    BY <1>4 DEF WillEnter
  <2>2. ASSUME NEW i \in Indexes, NEW t \in Tables, NEW n \in Slots, WillEnter(i, t, n)
        PROVE  n \in DOMAIN rows[t] /\ ~Live(rows'[t][n])
    BY <1>2, <2>2, ClaimIsOwners DEF DataInv, MarksRewritten
  <2>3. \A t \in Tables : DOMAIN rows'[t] = DOMAIN rows[t]
    BY <1>2 DEF MarksRewritten
  <2> QED
    BY <2>1, <2>2, <2>3 DEF ClaimsKept
<1>7. ExactInv'
  <2> SUFFICES ASSUME up' PROVE ExactInv'
    BY DEF ExactInv
  <2>1. \A i \in Indexes : damage[i] # {} \/ KeptFor(i)' \in {KeptFor(i), None}
    BY CrashNames
  <2>2. \A i \in Indexes, t \in Tables : damage'[i] = {} /\ Kept(i, t)' => damage[i] = {} /\ Kept(i, t)
    BY <1>1, <2>1, NamesAssumption DEF Kept
  <2> QED
    BY <1>1, <1>3, <1>6, <2>2, ExactInvKept DEF DataInv
<1> QED
  BY <1>5, <1>7 DEF DataInv

\* Every step of a statement on rows keeps indexes and tables together.
LEMMA DmlData ==
  ASSUME TypeInv, TypeInv', NamesInv, HandlesInv, DataInv, NEW s \in Sessions, DmlStep(s)
  PROVE  DataInv'
BY EndsData, InsertData, DeleteData, UpdateData, PlanData, ChooseData, OpenData, EnterData,
   UnlinkedData, OpenScanData, SearchData, FetchData
   DEF DmlStep

\* So does every step.
LEMMA DataStep ==
  ASSUME TypeInv, TypeInv', NamesInv, AdminInv, HandlesInv, DataInv, [Next]_vars
  PROVE  DataInv'
<1>1. CASE UNCHANGED vars
  <2>1. /\ UNCHANGED <<rows, tree, dml, damage, up, meta, json, ddl>>
    BY <1>1 DEF vars
  <2>2. \A i : KeptFor(i)' = KeptFor(i)
    BY <2>1, SameKept
  <2>3. Owns' /\ FetchInv'
    BY <2>1 DEF DataInv, Owns, FetchInv, FetchOK, Got, Located, HasRow
  <2>4. ASSUME NEW i \in Indexes, NEW t \in Tables, Exact(i, t) PROVE Exact(i, t)'
    <3>1. ClaimsKept(i, t)
      BY <2>1, UnchangedClaims DEF ClaimsKept
    <3>2. Evolved(t)
      BY <2>1 DEF Evolved
    <3> QED
      BY <2>1, <2>4, <3>1, <3>2, ExactKept
  <2> QED
    BY <2>1, <2>2, <2>3, <2>4 DEF DataInv, ExactInv, Kept
<1> QED
  BY <1>1, DmlData, UnlinkTableData, CreateIndexData, CallData, SaveFailsData, UnlinkIndexData, CrashData
     DEF Next, DdlStep

\* At first the tables and the trees are empty.
LEMMA DataInit == Init => DataInv
<1> SUFFICES ASSUME Init PROVE DataInv
  OBVIOUS
<1>1. Owns /\ FetchInv
  BY DEF Init, Owns, FetchInv, FetchOK, IdleDml, Claiming
<1>2. ASSUME NEW i \in Indexes, NEW t \in Tables PROVE Exact(i, t)
  BY DEF Init, Exact, NoEntries, Entries
<1> QED
  BY <1>1, <1>2 DEF DataInv, ExactInv

(***************************************************************************)
(* The theorems.                                                           *)
(***************************************************************************)

Inv == TypeInv /\ NamesInv /\ AdminInv /\ HandlesInv /\ DataInv

\* The invariant holds in every state.
LEMMA InvHolds == Spec => []Inv
<1>1. Init => Inv
  BY TypeInit, NamesInit, HandlesInit, DataInit DEF Inv
<1>2. Inv /\ [Next]_vars => Inv'
  BY TypeStep, NamesStep, AdminStep, HandlesStep, DataStep DEF Inv
<1> QED
  BY <1>1, <1>2, PTL DEF Spec

\* The variables keep their types, whatever statements run, fail and crash.
THEOREM TypeCorrect == Spec => []TypeOK
<1>1. Inv => TypeOK
  BY TypeInvGivesTypeOK DEF Inv
<1> QED
  BY <1>1, InvHolds, PTL

\* A restart brings back the names of the last DDL statement, if its saves did not
\* fail (create_table, drop_table, create_index, drop_index, save_meta, open).
THEOREM NamesCorrect == Spec => RestartKeepsNames
<1>1. ASSUME Inv, Crash, ddl = IdleDdl, ~unsaved PROVE up' /\ UNCHANGED <<open, meta, trees>>
  <2>1. up /\ ddl.pc = "idle" /\ TypeInv /\ NamesInv
    BY <1>1 DEF Crash, IdleDdl, Inv
  <2>2. json = [tables |-> open, indexes |-> meta] /\ trees = Listed
    BY <1>1, <2>1 DEF NamesInv
  <2>3. json # Torn
    BY <2>1, <2>2, TornAssumption DEF CatalogMeta, TypeInv, NamesOK
  <2>4. json' = json
    BY <1>1, <2>1 DEF Crash
  <2>5. up'
    BY <1>1, <2>3, <2>4 DEF Crash
  <2>6. open' = open /\ meta' = meta
    BY <1>1, <2>2, <2>4, <2>5 DEF Crash
  <2>7. trees' = trees
    BY <1>1, <2>2, <2>6 DEF Crash, Listed
  <2> QED
    BY <2>5, <2>6, <2>7
<1>2. Inv /\ [Next]_vars =>
        [Crash /\ ddl = IdleDdl /\ ~unsaved => up' /\ UNCHANGED <<open, meta, trees>>]_vars
  BY <1>1
<1> QED
  BY <1>2, InvHolds, PTL DEF Spec, RestartKeepsNames

\* An undamaged index holds each row that a transaction can see exactly once,
\* under its key, and leads to no other (insert, update, create_index, vacuum_table).
THEOREM IndexCorrect == Spec => []IndexExact
<1>1. ASSUME Inv PROVE IndexExact
  <2> SUFFICES ASSUME NEW i \in Indexes, Readable(i), NEW n \in DOMAIN rows[meta[i]],
                      NEW k \in Keys, NEW r \in Sessions \cup {NoOne},
                      Visible(rows[meta[i]][n], r), ~WillEnter(i, meta[i], n)
               PROVE  tree[i][<<k, n>>] = IF rows[meta[i]][n].key = k THEN 1 ELSE 0
    BY DEF IndexExact
  <2>1. PICK t \in Tables : t = meta[i]
    BY <1>1 DEF Inv, TypeInv, NamesOK, Readable
  <2>2. Kept(i, t)
    BY <2>1, NamesAssumption DEF Kept, KeptFor
  <2>3. Exact(i, t)
    BY <1>1, <2>2 DEF Inv, DataInv, ExactInv, Readable
  <2>4. n \in Slots
    BY <1>1, <2>1, BoundsAssumption DEF Inv, TypeInv, RowsOK, Slots
  <2>5. Live(rows[t][n])
    BY <2>1, MarksAssumption DEF Live, Visible, Done, Void, NoOne
  <2>6. <<k, n>> \in Entries /\ tree[i][<<k, n>>] \in Nat
    BY <1>1, <2>4 DEF Inv, TypeInv, TreeOK, Entries
  <2> HIDE DEF WillEnter
  <2> QED
    BY <2>1, <2>3, <2>4, <2>5, <2>6 DEF Exact
<1> QED
  BY <1>1, InvHolds, PTL

\* A scan through an index that stayed with its table returns visible rows of its
\* key only, and every row that was visible when it took hold of the index and
\* still is (indexscan.rs).
THEOREM ScanCorrect == Spec => []ScanIsBracketed
<1>1. ASSUME Inv PROVE ScanIsBracketed
  <2> SUFFICES ASSUME NEW s \in Sessions, dml[s].pc = "fetch", ~dml[s].lost
               PROVE  /\ \A n \in Answer(s) : /\ rows[dml[s].table][n].key = dml[s].key
                                              /\ Visible(rows[dml[s].table][n], s)
                      /\ \A n \in dml[s].due : Visible(rows[dml[s].table][n], s) => n \in Answer(s)
    BY DEF ScanIsBracketed
  <2>1. /\ dml[s].due \subseteq dml[s].found
        /\ \A n \in dml[s].found : n \in DOMAIN rows[dml[s].table] /\ rows[dml[s].table][n].key = dml[s].key
    BY <1>1 DEF Inv, DataInv, FetchInv, FetchOK, Got
  <2> QED
    BY <2>1 DEF Answer
<1> QED
  BY <1>1, InvHolds, PTL
=============================================================================
