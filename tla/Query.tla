------------------------------- MODULE Query -------------------------------
(***************************************************************************)
(* A SELECT on its way through crumble: main.rs lowers it to a logical     *)
(* plan (crumble-ir), folds constants (crumble-opt), chooses the physical  *)
(* plan, looks for indexes (crumble-planner) and executes it               *)
(* (crumble-exec).  Each pass is an action.                                *)
(*                                                                         *)
(* The tables do not change: what a statement may see of them while others *)
(* write is RowMvcc's and Catalog's.  Each index holds what its table      *)
(* does, as Catalog and BTree have it.                                     *)
(***************************************************************************)
EXTENDS Expressions, SqlMeaning, PlanNodes

CONSTANT Cases   \* the databases and the statements to try: records [db, sql]

VARIABLES
  db,      \* the tables: their columns, kinds, rows and indexed columns
  sql,     \* the statement
  stage,   \* how far it has come
  plan,    \* its plan, from the first pass on
  answer   \* the row set printed, or the error

vars == <<db, sql, stage, plan, answer>>

Stages == {"parsed", "logical", "folded", "physical", "planned", "done", "refused", "panicked"}

RowSet(columns, rows) == [columns |-> columns, rows |-> rows, error |-> "none"]
Error(e) == [columns |-> <<>>, rows |-> <<>>, error |-> e]
NotYet == Error("not yet")

-----------------------------------------------------------------------------
(* Lowering (crumble-ir/src/lower) *)

Filter(input, predicate) == [op |-> "filter", input |-> input, predicate |-> predicate]
Project(input, columns) == [op |-> "project", input |-> input, columns |-> columns]
Scan(table) == [op |-> "scan", table |-> table]
Everything == <<>>   \* Projection::All

\* lower_from.
LowerFrom(s) ==
    IF s.join = <<>> THEN Scan(s.from.table)
    ELSE LET j == s.join[1]
         IN  [op |-> "join", left |-> Scan(s.from.table), right |-> Scan(j.table),
              leftTable |-> s.from.qualifier, rightTable |-> j.qualifier,
              on |-> LowerExpr(j.on), kind |-> j.kind]

IsFunction(item) == item.func # "none"

\* is_aggregate_query: HAVING alone does not make one.
IsAggregateQuery(s) == s.group # <<>> \/ \E i \in DOMAIN s.items : IsFunction(s.items[i])

\* lower_aggregate_func: the name of a function's column, unless AS gives one.
FuncName(func, column) == <<func, IF column = <<>> THEN "*" ELSE column[1]>>
LowerFunc(f, alias) ==
    [func |-> f.func, column |-> f.column,
     alias |-> IF alias = <<>> THEN FuncName(f.func, f.column) ELSE alias]
Callable(f) == Len(f.column) <= 1 /\ (f.column = <<>> => f.func = "COUNT")

\* The functions of a HAVING predicate, as collect_having_aggregates meets them.
RECURSIVE FuncsOf(_)
FuncsOf(e) ==
    CASE e.e = "func"   -> <<LowerFunc(e, <<>>)>>
      [] e.e = "binary" -> FuncsOf(e.left) \o FuncsOf(e.right)
      [] e.e = "isnull" -> FuncsOf(e.arg)
      [] OTHER          -> <<>>

\* lower_having_predicate: what it accepts, and what it makes of a predicate,
\* each function the column that Aggregate computes for it.
RECURSIVE HavingLowerable(_)
HavingLowerable(e) ==
    CASE e.e = "func"   -> Callable(e)
      [] e.e = "binary" -> HavingLowerable(e.left) /\ HavingLowerable(e.right)
      [] e.e = "isnull" -> HavingLowerable(e.arg)
      [] OTHER          -> e.e \in {"column", "literal"}

RECURSIVE LowerHaving(_)
LowerHaving(e) ==
    CASE e.e = "func"   -> Column(FuncName(e.func, e.column))
      [] e.e = "binary" -> [e EXCEPT !.left = LowerHaving(@), !.right = LowerHaving(@)]
      [] e.e = "isnull" -> [e EXCEPT !.arg = LowerHaving(@)]
      [] OTHER          -> e

\* A mutant: only the functions of the SELECT list.
SelectedOnly(s) ==
    LET selected == SelectSeq(s.items, IsFunction)
    IN  [i \in DOMAIN selected |-> LowerFunc(selected[i], selected[i].alias)]

\* The functions to compute: those of the SELECT list, then those that only
\* HAVING has (collect_having_aggregates), each once.
Aggregates(s) ==
    LET selected == SelectSeq(s.items, IsFunction)
        listed == [i \in DOMAIN selected |-> LowerFunc(selected[i], selected[i].alias)]
        add(acc, f) == IF \E i \in DOMAIN acc : acc[i].alias = f.alias THEN acc ELSE Append(acc, f)
    IN  IF s.having = <<>> THEN listed ELSE FoldLeft(add, listed, FuncsOf(s.having[1]))

\* lower_aggregate.
LowerAggregate(s, input) ==
    LET aggregate == [op |-> "aggregate", input |-> input, groupBy |-> s.group,
                      aggregates |-> Aggregates(s)]
    IN  IF s.having = <<>> THEN aggregate ELSE Filter(aggregate, LowerHaving(s.having[1]))

\* The names of the SELECT list (lower_projection, lower_aggregate).
OutputColumns(s) ==
    [i \in DOMAIN s.items |->
        IF IsFunction(s.items[i]) THEN LowerFunc(s.items[i], s.items[i].alias).alias
        ELSE s.items[i].column]

\* lower_select.
LowerSelect(s) ==
    LET base == LowerFrom(s)
        filtered == IF s.where = <<>> THEN base ELSE Filter(base, LowerExpr(s.where[1]))
    IN  Project(IF IsAggregateQuery(s) THEN LowerAggregate(s, filtered) ELSE filtered,
                OutputColumns(s))

\* apply_order_by and apply_limit, above the projection.
Sorted(s, input) ==
    IF s.order = <<>> THEN input ELSE [op |-> "sort", input |-> input, orderBy |-> s.order]
Limited(s, input) ==
    IF s.limit = <<>> /\ s.offset = <<>> THEN input
    ELSE [op |-> "limit", input |-> input, limit |-> s.limit, offset |-> s.offset]

\* lower_statement.
LowerQuery(s) == Limited(s, Sorted(s, LowerSelect(s)))

\* Whether lower returns a plan.  A query that aggregates has names and
\* functions in its SELECT list, plain names in GROUP BY, and its HAVING is
\* read; one that does not has names only, without AS, and its HAVING is not read.
Supported(s) ==
    /\ s.join # <<>> => Lowerable(s.join[1].on)
    /\ s.where # <<>> => Lowerable(s.where[1])
    /\ IsAggregateQuery(s) =>
          /\ s.items # <<>>
          /\ \A i \in DOMAIN s.group : Len(s.group[i]) = 1
          /\ \A i \in DOMAIN s.items :
                IF IsFunction(s.items[i]) THEN Callable(s.items[i]) ELSE Len(s.items[i].column) = 1
          /\ s.having # <<>> => HavingLowerable(s.having[1])
    /\ ~IsAggregateQuery(s) => \A i \in DOMAIN s.items : s.items[i].alias = <<>>

-----------------------------------------------------------------------------
(* The passes over the plan *)

\* fold_plan.
RECURSIVE FoldPlan(_)
FoldPlan(p) ==
    CASE p.op = "scan"   -> p
      [] p.op = "filter" -> [p EXCEPT !.input = FoldPlan(@), !.predicate = FoldExpr(@)]
      [] p.op = "join"   -> [p EXCEPT !.left = FoldPlan(@), !.right = FoldPlan(@), !.on = FoldExpr(@)]
      [] OTHER           -> [p EXCEPT !.input = FoldPlan(@)]

RECURSIVE PlanPanics(_)
PlanPanics(p) ==
    CASE p.op = "scan"   -> FALSE
      [] p.op = "filter" -> Panics(p.predicate) \/ PlanPanics(p.input)
      [] p.op = "join"   -> Panics(p.on)
      [] OTHER           -> PlanPanics(p.input)

\* to_physical: every Scan a SeqScan, every Join a NestedLoopJoin.
RECURSIVE Physical(_)
Physical(p) ==
    CASE p.op = "scan" -> [p EXCEPT !.op = "seqScan"]
      [] p.op = "join" -> [p EXCEPT !.op = "nestedLoopJoin", !.left = Physical(@), !.right = Physical(@)]
      [] OTHER         -> [p EXCEPT !.input = Physical(@)]

\* plan_index_scans.  It looks through filters, projections and the left of a
\* join; what is under an aggregate, a sort or a limit stays as it is.
RECURSIVE PlanIndexScans(_)
PlanIndexScans(p) ==
    CASE p.op = "filter" ->
            LET rewritten == IF p.input.op = "seqScan" THEN TryRewrite(p.input.table, db[p.input.table].indexed, p.predicate)
                             ELSE <<>>
            IN  IF rewritten # <<>> THEN rewritten[1]
                ELSE [p EXCEPT !.input = PlanIndexScans(@)]
      [] p.op = "project" -> [p EXCEPT !.input = PlanIndexScans(@)]
      [] p.op = "nestedLoopJoin" ->
            LET rewritten == TryIndexJoin([p EXCEPT !.left = PlanIndexScans(@)], db[p.right.table].indexed)
            IN  IF rewritten # <<>> THEN rewritten[1]
                ELSE [p EXCEPT !.left = PlanIndexScans(@), !.right = PlanIndexScans(@)]
      [] OTHER -> p

-----------------------------------------------------------------------------
(* The executor (crumble-exec/src/interpret) *)

Failed(rs) == rs.error # "none"
Nulls(columns) == [i \in DOMAIN columns |-> Null]

\* filter: the predicate is compiled for the columns that the first row
\* tracks, and interpreted if it cannot be.
FilterRows(rs, predicate) ==
    LET tracked == Tracked(rs.columns, rs.rows)
        compiled == Compiles(predicate, tracked)
        value == [i \in DOMAIN rs.rows |-> EvalExpr(predicate, rs.columns, rs.rows[i])]
        bad == {i \in DOMAIN value : value[i].kind \notin {"bool", "null"}}
        first == CHOOSE i \in bad : \A j \in bad : i <= j
        kept == SelectSeq([i \in DOMAIN rs.rows |-> i],
                    LAMBDA i : IF compiled THEN Compiled(predicate, tracked, rs.rows[i]) = TriTrue
                               ELSE value[i] = True)
    IN  IF ~compiled /\ bad # {}
        THEN Error(IF Fails(value[first]) THEN value[first].kind ELSE "TypeMismatch")
        ELSE RowSet(rs.columns, [k \in DOMAIN kept |-> rs.rows[kept[k]]])

\* A mutant: the row set keeps the names of the columns it had.
KeepsNames(rs, columns) ==
    LET resolved == IF columns = Everything THEN rs.columns ELSE columns
        at(i) == ColumnIndex(rs.columns, resolved[i])
    IN  IF \E i \in DOMAIN resolved : at(i) = 0 THEN Error("ColumnNotFound")
        ELSE RowSet(rs.columns, [k \in DOMAIN rs.rows |-> [i \in DOMAIN resolved |-> rs.rows[k][at(i)]]])

\* project.
ProjectRows(rs, columns) ==
    LET resolved == IF columns = Everything THEN rs.columns ELSE columns
        at(i) == ColumnIndex(rs.columns, resolved[i])
    IN  IF \E i \in DOMAIN resolved : at(i) = 0 THEN Error("ColumnNotFound")
        ELSE RowSet(resolved, [k \in DOMAIN rs.rows |-> [i \in DOMAIN resolved |-> rs.rows[k][at(i)]]])

\* sum_values and extremum, on the known values of a group.
SumValues(values) ==
    LET add(acc, v) == EvalBinaryOp(acc, "+", v)
    IN  IF values[1].kind \in Numeric THEN FoldLeft(add, values[1], Tail(values))
        ELSE Val("TypeMismatch", <<>>)

\* A later value replaces the best only when it is strictly better.
Extremum(values, wantMax) ==
    LET better(v, best) == IF wantMax THEN Precedes(best.v, v.v) ELSE Precedes(v.v, best.v)
        step(best, v) == IF v.kind = "bool" THEN Val("TypeMismatch", <<>>)
                         ELSE IF better(v, best) THEN v ELSE best
    IN  FoldLeft(step, values[1], Tail(values))

\* compute_aggregate, for the rows of one group.
ComputeAggregate(f, columns, rows) ==
    LET at == ColumnIndex(columns, f.column)
        known == SelectSeq([k \in DOMAIN rows |-> rows[k][at]], LAMBDA v : v # Null)
        sum == SumValues(known)
    IN  CASE f.func = "COUNT" -> IntVal(IF f.column = <<>> THEN Len(rows) ELSE Len(known))
          [] f.func # "COUNT" /\ known = <<>> -> Null
          [] f.func = "SUM" /\ known # <<>> -> sum
          [] f.func = "AVG" /\ known # <<>> ->
                IF Fails(sum) THEN sum
                ELSE FloatVal((IF sum.kind = "int" THEN 6 * sum.v[1] ELSE sum.v[1]) \div Len(known))
          [] f.func \in {"MIN", "MAX"} /\ known # <<>> -> Extremum(known, f.func = "MAX")

\* aggregate: the groups in the order in which their keys are met.
AggregateRows(rs, groupBy, aggregates) ==
    LET names == groupBy \o SelectSeq([i \in DOMAIN aggregates |-> aggregates[i].column],
                                      LAMBDA c : c # <<>>)
        key(row) == [i \in DOMAIN groupBy |-> row[ColumnIndex(rs.columns, groupBy[i])]]
        meet(keys, row) == IF \E i \in DOMAIN keys : keys[i] = key(row) THEN keys
                           ELSE Append(keys, key(row))
        met == FoldLeft(meet, <<>>, rs.rows)
        keys == IF groupBy = <<>> /\ met = <<>> THEN << <<>> >> ELSE met
        computed(k) == [i \in DOMAIN aggregates |->
            ComputeAggregate(aggregates[i], rs.columns,
                             SelectSeq(rs.rows, LAMBDA row : key(row) = keys[k]))]
        rows == [k \in DOMAIN keys |-> keys[k] \o computed(k)]
        failures == {<<k, i>> \in (DOMAIN keys) \X (DOMAIN aggregates) : Fails(computed(k)[i])}
    IN  IF \E i \in DOMAIN names : ColumnIndex(rs.columns, names[i]) = 0 THEN Error("ColumnNotFound")
        ELSE IF failures # {}
        THEN LET f == CHOOSE f \in failures : \A g \in failures :
                        f[1] < g[1] \/ (f[1] = g[1] /\ f[2] <= g[2])
             IN  Error(computed(f[1])[f[2]].kind)
        ELSE RowSet(groupBy \o [i \in DOMAIN aggregates |-> aggregates[i].alias], rows)

\* sort: sort_by is stable.
SortRows(rs, orderBy) ==
    LET keys == SortKeys(rs.columns, orderBy)
        goesFirst(i, j) == RowSortsBefore(rs.rows[i], rs.rows[j], keys)
        arranged == SetToSortSeq(DOMAIN rs.rows,
                        LAMBDA i, j : goesFirst(i, j) \/ (~goesFirst(j, i) /\ i < j))
    IN  IF \E k \in DOMAIN keys : keys[k].at = 0 THEN Error("ColumnNotFound")
        ELSE RowSet(rs.columns, [k \in DOMAIN arranged |-> rs.rows[arranged[k]]])

\* limit: skip, then take.
LimitRows(rs, limit, offset) ==
    LET start == IF offset = <<>> THEN 0 ELSE offset[1]
        rest == SubSeq(rs.rows, start + 1, Len(rs.rows))
    IN  RowSet(rs.columns, IF limit = <<>> \/ (limit # <<>> => limit[1] >= Len(rest)) THEN rest
                           ELSE SubSeq(rest, 1, limit[1]))

\* The rows of a table whose key in an index passes a test, in key order.
IndexedRows(table, index, Test(_)) ==
    LET t == db[table]
        key(i) == t.rows[i][ColumnIndex(t.columns, index)]
        hits == {i \in DOMAIN t.rows : IsKey(key(i)) /\ Test(key(i))}
    IN  SetToSortSeq(hits, LAMBDA i, j : KeyBefore(key(i), key(j)) \/ (key(i) = key(j) /\ i < j))

RowsAt(table, places) == [k \in DOMAIN places |-> db[table].rows[places[k]]]

\* indexscan and rangeindexscan.
SearchRows(p) ==
    IF ~IsKey(p.key) THEN Error("TypeMismatch")
    ELSE RowSet(db[p.table].columns,
                RowsAt(p.table, IndexedRows(p.table, p.index, LAMBDA k : k = p.key)))

RangeRows(p) ==
    IF \E b \in Range(p.lower \o p.upper) : ~IsKey(b.key) THEN Error("TypeMismatch")
    ELSE RowSet(db[p.table].columns,
                RowsAt(p.table, IndexedRows(p.table, p.index, LAMBDA k : InRange(p.lower, p.upper, k))))

\* A mutant: FULL OUTER JOIN loses the right rows without a partner.
LeftUnmatchedOnly(p, left, right, meets) ==
    LET alone(i) == IF p.kind \in {"left", "full"}
                    THEN <<left.rows[i] \o Nulls(right.columns)>> ELSE <<>>
        partners(i) == IF meets[i] = <<>> THEN alone(i)
                       ELSE [k \in DOMAIN meets[i] |-> left.rows[i] \o right.rows[meets[i][k]]]
    IN  RowSet(Qualified(p.leftTable, left.columns) \o Qualified(p.rightTable, right.columns),
               FlattenSeq([i \in DOMAIN left.rows |-> partners(i)]))

\* The rows of a join, given the places of the right rows each left row meets.
JoinRows(p, left, right, meets) ==
    LET alone(i) == IF p.kind \in {"left", "full"}
                    THEN <<left.rows[i] \o Nulls(right.columns)>> ELSE <<>>
        partners(i) == IF meets[i] = <<>> THEN alone(i)
                       ELSE [k \in DOMAIN meets[i] |-> left.rows[i] \o right.rows[meets[i][k]]]
        unmet == SelectSeq([j \in DOMAIN right.rows |-> j],
                    LAMBDA j : p.kind \in {"right", "full"} /\ \A i \in DOMAIN meets : ~Contains(meets[i], j))
    IN  RowSet(Qualified(p.leftTable, left.columns) \o Qualified(p.rightTable, right.columns),
               FlattenSeq([i \in DOMAIN left.rows |-> partners(i)])
                 \o [k \in DOMAIN unmet |-> Nulls(left.columns) \o right.rows[unmet[k]]])

\* nestedloopjoin: ON is interpreted for each pair, and anything but true is no
\* match.
NestedLoopRows(p, left, right) ==
    LET columns == Qualified(p.leftTable, left.columns) \o Qualified(p.rightTable, right.columns)
        on(i, j) == EvalExpr(p.on, columns, left.rows[i] \o right.rows[j])
        failures == {<<i, j>> \in (DOMAIN left.rows) \X (DOMAIN right.rows) : Fails(on(i, j))}
        first == CHOOSE f \in failures : \A g \in failures :
                    f[1] < g[1] \/ (f[1] = g[1] /\ f[2] <= g[2])
        meets == [i \in DOMAIN left.rows |->
                    SelectSeq([j \in DOMAIN right.rows |-> j], LAMBDA j : on(i, j) = True)]
    IN  IF failures # {} THEN Error(on(first[1], first[2]).kind)
        ELSE JoinRows(p, left, right, meets)

\* indexnestedloopjoin: the column to probe with is looked up among the left
\* row set's, and each of its values in the index.
IndexNestedLoopRows(p, left) ==
    LET right == RowSet(db[p.table].columns, db[p.table].rows)
        probe == ColumnIndex(left.columns, p.leftColumn)
        meets == [i \in DOMAIN left.rows |->
                    IndexedRows(p.table, p.index, LAMBDA k : k = left.rows[i][probe])]
    IN  IF probe = 0 THEN Error("ColumnNotFound") ELSE JoinRows(p, left, right, meets)

\* execute.  An operator whose input fails fails with it.
RECURSIVE Execute(_)
Execute(p) ==
    CASE p.op = "seqScan"        -> RowSet(db[p.table].columns, db[p.table].rows)
      [] p.op = "indexScan"      -> SearchRows(p)
      [] p.op = "rangeIndexScan" -> RangeRows(p)
      [] p.op = "nestedLoopJoin" -> NestedLoopRows(p, Execute(p.left), Execute(p.right))
      [] p.op = "indexNestedLoopJoin" -> IndexNestedLoopRows(p, Execute(p.left))
      [] OTHER ->
            LET input == Execute(p.input)
            IN  CASE Failed(input)       -> input
                  [] p.op = "filter"     -> FilterRows(input, p.predicate)
                  [] p.op = "project"    -> ProjectRows(input, p.columns)
                  [] p.op = "aggregate"  -> AggregateRows(input, p.groupBy, p.aggregates)
                  [] p.op = "sort"       -> SortRows(input, p.orderBy)
                  [] p.op = "limit"      -> LimitRows(input, p.limit, p.offset)

-----------------------------------------------------------------------------
(* The statement loop of main.rs *)

Pass(from, to, p) ==
    /\ stage = from /\ stage' = to
    /\ plan' = p
    /\ UNCHANGED <<db, sql, answer>>

Init ==
    /\ \E c \in Cases : db = c.db /\ sql = c.sql
    /\ stage = "parsed" /\ plan = Scan("none") /\ answer = NotYet

Lower == Supported(sql) /\ Pass("parsed", "logical", LowerQuery(sql))

\* lower returns an error, which is printed.
Refuse == ~Supported(sql) /\ Pass("parsed", "refused", plan)

ConstantFold ==
    /\ stage = "logical" /\ ~PlanPanics(FoldPlan(plan))
    /\ Pass("logical", "folded", FoldPlan(plan))

\* An addition of two literals overflows, and the program ends.
FoldOverflows ==
    /\ stage = "logical" /\ PlanPanics(FoldPlan(plan))
    /\ Pass("logical", "panicked", plan)

ToPhysical == Pass("folded", "physical", Physical(plan))

UseIndexes == Pass("physical", "planned", PlanIndexScans(plan))

Run ==
    /\ stage = "planned" /\ stage' = "done"
    /\ answer' = Execute(plan)
    /\ UNCHANGED <<db, sql, plan>>

Next == Lower \/ Refuse \/ ConstantFold \/ FoldOverflows \/ ToPhysical \/ UseIndexes \/ Run

Spec == Init /\ [][Next]_vars

-----------------------------------------------------------------------------
(* Properties *)

\* The shape of the state: a row set has a value for each of its columns, and
\* only a statement that ran has one.
TypeOK ==
    /\ stage \in Stages
    /\ \A i \in DOMAIN answer.rows : DOMAIN answer.rows[i] = DOMAIN answer.columns
    /\ \A i \in DOMAIN answer.rows : \A v \in Range(answer.rows[i]) : v.kind \in Kinds \cup {"null"}
    /\ answer.error \in {"none", "not yet"} \cup Errors
    /\ stage = "done" <=> answer # NotYet

\* The statements that SQL accepts for these tables: every name is there, and
\* every expression has a type.
WellTyped ==
    LET schema == SchemaOf(sql, db)
        predicate(option) == option = <<>> \/ KindOf(option[1], schema) \in {"bool", "any"}
    IN  /\ predicate(sql.where) /\ predicate(sql.having)
        /\ sql.join # <<>> => predicate(<<sql.join[1].on>>)
        /\ Range(sql.group) \subseteq DOMAIN schema
        /\ \A i \in DOMAIN sql.items :
              IF IsFunction(sql.items[i]) THEN KindOf(Func(sql.items[i].func, sql.items[i].column), schema) # "bad"
              ELSE /\ sql.items[i].column \in DOMAIN schema
                   /\ IsAggregateQuery(sql) => sql.items[i].column \in Range(sql.group)
        /\ \A i \in DOMAIN sql.order :
              sql.order[i].column \in IF sql.items = <<>> THEN DOMAIN schema ELSE Range(OutputColumns(sql))

\* The sums in an expression.
RECURSIVE Sums(_)
Sums(e) ==
    CASE e.e = "binary" -> Sums(e.left) \cup Sums(e.right) \cup (IF e.op = "+" THEN {e} ELSE {})
      [] e.e \in {"isnull", "not"} -> Sums(e.arg)
      [] OTHER -> {}

\* A sum in WHERE is too large for some row.
SumTooLarge ==
    \E row \in Range(FromRows(sql, db)) : \E e \in UNION {Sums(w) : w \in Range(sql.where)} :
        LET v == Denote(e, [columns |-> NamesOf(sql, db), row |-> row, group |-> <<>>])
        IN  v.kind = "int" /\ v.v[1] > MaxInt

\* The index scan or index join in a plan: none or one.
RECURSIVE IndexNode(_)
IndexNode(p) ==
    CASE p.op \in {"indexScan", "rangeIndexScan", "indexNestedLoopJoin"} -> <<p>>
      [] p.op \in {"seqScan", "scan", "nestedLoopJoin", "join"} -> <<>>
      [] OTHER -> IndexNode(p.input)

ValuesIn(table, column) ==
    {row[ColumnIndex(db[table].columns, column)] : row \in Range(db[table].rows)}

\* Where an index does not answer as the filter or the join it replaces would:
\* a range with no upper end takes in the NULLs, which are the last keys; a
\* float or a boolean is no key, so that a search for one fails and IS NOT
\* NULL finds none; and an index join looks for the qualified name of its
\* left column among names without a qualifier.
IndexDiffers(n) ==
    CASE n.op = "indexScan" -> ~IsKey(n.key)
      [] n.op = "rangeIndexScan" ->
            \/ \E b \in Range(n.lower \o n.upper) : ~IsKey(b.key)
            \/ n.upper = <<>> /\ Null \in ValuesIn(n.table, n.index)
            \/ \E v \in ValuesIn(n.table, n.index) : ~IsKey(v)
      [] n.op = "indexNestedLoopJoin" -> TRUE

\* Whether the answer is to be what SQL says: a statement that ran, that SQL
\* accepts, whose HAVING was read, and whose index answers as no index would.
Judged ==
    /\ stage = "done" /\ WellTyped
    /\ sql.having # <<>> => IsAggregateQuery(sql)
    /\ \A n \in Range(IndexNode(plan)) : ~IndexDiffers(n)

Exact ==
    IF SumTooLarge THEN Checked => answer.error = "Panic"
    ELSE /\ answer.error = "none"
         /\ answer.columns = (IF sql.items = <<>> THEN NamesOf(sql, db) ELSE OutputColumns(sql))
         /\ IsAnswer(answer.rows, answer.columns, sql, db)

Arranged == sql.order # <<>> \/ sql.limit # <<>> \/ sql.offset # <<>>

\* WHERE keeps the rows for which the predicate is true, in three-valued logic,
\* whether it was folded or not, and compiled, interpreted or searched for in
\* an index (lower/expr.rs, constant_fold.rs, index_scan.rs, filter.rs).
FilterIsExact == Judged /\ ~IsAggregateQuery(sql) /\ sql.join = <<>> /\ ~Arranged => Exact

\* A join has the pairs for which ON is true, and the rows without a partner
\* of the sides it keeps, each once (nestedloopjoin.rs).
JoinIsExact == Judged /\ sql.join # <<>> => Exact

\* Every row is in the group of its key, NULLs together, the functions skip
\* NULLs, HAVING sees the functions that the SELECT list does not have, and a
\* query without GROUP BY has a group even of no rows (lower/aggregate.rs,
\* aggregate.rs).
GroupsAreExact == Judged /\ IsAggregateQuery(sql) /\ ~Arranged => Exact

\* ORDER BY puts NULLs last in both directions and later columns decide ties;
\* OFFSET and LIMIT take a window of that order (sort.rs, limit.rs).
OrderIsExact == Judged /\ Arranged => Exact

\* Folding constants changes neither the rows nor the error of any statement
\* that SQL accepts, although it decides which predicates are compiled
\* (constant_fold.rs, filter.rs).
FoldKeepsAnswer ==
    [][ConstantFold /\ WellTyped => Execute(Physical(plan')) = Execute(Physical(plan))]_vars

\* The filters of a plan.
RECURSIVE FiltersOf(_)
FiltersOf(p) ==
    CASE p.op = "filter" -> {p} \cup FiltersOf(p.input)
      [] p.op \in {"project", "sort", "limit", "aggregate"} -> FiltersOf(p.input)
      [] OTHER -> {}

\* An index search that says what the filter says of every row: not a range
\* without an upper end over NULLs.
SearchesAlike(n) ==
    /\ n.op \in {"indexScan", "rangeIndexScan"}
    /\ n.op = "rangeIndexScan" => n.upper # <<>> \/ Null \notin ValuesIn(n.table, n.index)

\* What an index scan answers in place of the filter it replaces: the same rows,
\* but for those whose value is no index key, and TypeMismatch for a literal
\* that is none.
IndexAnswers(n, filtered) ==
    LET value(row) == row[ColumnIndex(db[n.table].columns, n.index)]
        keys == IF n.op = "indexScan" THEN {n.key} ELSE {b.key : b \in Range(n.lower \o n.upper)}
    IN  IF \E key \in keys : ~IsKey(key) THEN Execute(n) = Error("TypeMismatch")
        ELSE SameRows(Execute(n).rows, SelectSeq(filtered.rows, LAMBDA row : IsKey(value(row))))

\* Planning an index scan does not change the rows of a statement that SQL
\* accepts (index_scan.rs, indexscan.rs), where it searches alike; what
\* the two cases left out do is IndexesChangeNoAnswer.
IndexKeepsAnswer ==
    [][UseIndexes /\ WellTyped =>
          \A n \in Range(IndexNode(plan')) : \A f \in FiltersOf(plan) :
              SearchesAlike(n) => IndexAnswers(n, Execute(f))]_vars

\* Whether compiled code and interpreter keep the same rows of a row set.
SameVerdicts(predicate, tracked, rs) ==
    Compiles(predicate, tracked) =>
        \A row \in Range(rs.rows) :
            LET value == EvalExpr(predicate, rs.columns, row)
            IN  Fails(value) \/ (value = True <=> Compiled(predicate, tracked, row) = TriTrue)

CompilesRight(predicate, rs) == SameVerdicts(predicate, Tracked(rs.columns, rs.rows), rs)

\* The compiled predicate keeps the rows that the interpreter would keep, NULLs
\* in any place, for every row the interpreter has a value for: the statements
\* that SQL rejects are included (jit lib.rs, filter.rs:23).
CompiledAgrees ==
    stage = "done" => \A f \in FiltersOf(plan) : CompilesRight(f.predicate, Execute(f.input))

\* What the docs say of the rewriting to indexes: it would be wrong to answer
\* "what's stored under the key Null, which is a different question", the filter's
\* "null aware check" decides (docs/decisions/README.md:276), and joins are "all
\* four accelerated via index nested loop join" (docs/status/README.md:34).  So
\* using an index changes no answer of a statement that SQL accepts.  The code
\* breaks it twice: a range with no upper end has the NULL keys
\* (index_scan.rs:151), and the left column of an index join is passed with its
\* qualifier and is not found (index_scan.rs:83, indexnestedloopjoin.rs:24).
IndexesChangeNoAnswer ==
    [][UseIndexes /\ WellTyped =>
          LET with == Execute(plan')
              without == Execute(plan)
          IN  with.error = without.error /\ SameRows(with.rows, without.rows)]_vars
=============================================================================
