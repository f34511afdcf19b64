----------------------------- MODULE PlanNodes -----------------------------
(***************************************************************************)
(* What the planner makes of one filter over one table, and of one join    *)
(* (crumble-planner/src/index_scan.rs), which keys an index search answers *)
(* with (crumble-exec/src/index_key.rs, crumble-index/src/key.rs), and the *)
(* order in which Sort puts two rows (sort.rs).                            *)
(***************************************************************************)
EXTENDS ExpressionNodes

IsColumn(e) == e.e = "column"
IsLiteral(e) == e.e = "literal"

IndexScan(table, index, key) ==
    [op |-> "indexScan", table |-> table, index |-> index, key |-> key]
RangeIndexScan(table, index, lower, upper) ==
    [op |-> "rangeIndexScan", table |-> table, index |-> index, lower |-> lower, upper |-> upper]

\* A mutant: the operator of 2 < a is read as that of a < 2.
NotTurned(op) == op

\* A comparison of a column with a literal, the column brought to the left:
\* what equality_on_literal and comparison_on_literal find, if anything.
Turned(op) ==
    CASE op = "<" -> ">" [] op = "<=" -> ">=" [] op = ">" -> "<" [] op = ">=" -> "<=" [] OTHER -> op
OnLiteral(e) ==
    CASE e.e # "binary" -> <<>>
      [] e.e = "binary" /\ IsColumn(e.left) /\ IsLiteral(e.right) ->
            <<[column |-> e.left.name, op |-> e.op, key |-> e.right.value]>>
      [] e.e = "binary" /\ IsLiteral(e.left) /\ IsColumn(e.right) ->
            <<[column |-> e.right.name, op |-> Turned(e.op), key |-> e.left.value]>>
      [] OTHER -> <<>>

\* try_rewrite: the index scan that a predicate on a table with these columns
\* indexed (index_for; at most one index on a column, named as the column)
\* becomes, or <<>>.  A comparison with NULL is left to the filter.
TryRewrite(table, indexed, e) ==
    LET found == OnLiteral(e)
        c == found[1]
        bound(ops) == IF c.op \in ops THEN <<[key |-> c.key, inclusive |-> c.op \in {"<=", ">="}]>>
                      ELSE <<>>
        upTo(key) == <<[key |-> key, inclusive |-> FALSE]>>
    IN  CASE e.e = "isnull" ->
                IF ~IsColumn(e.arg) \/ (IsColumn(e.arg) => e.arg.name \notin indexed) THEN <<>>
                ELSE IF e.negated THEN <<RangeIndexScan(table, e.arg.name, <<>>, upTo(Null))>>
                ELSE <<IndexScan(table, e.arg.name, Null)>>
          [] e.e # "isnull" /\ found # <<>> ->
                IF c.key = Null \/ c.column \notin indexed THEN <<>>
                ELSE IF c.op = "=" THEN <<IndexScan(table, c.column, c.key)>>
                ELSE IF c.op \in {"<", "<=", ">", ">="}
                THEN <<RangeIndexScan(table, c.column, bound({">", ">="}), bound({"<", "<="}))>>
                ELSE <<>>
          [] OTHER -> <<>>

\* Whether a name is qualified by q (starts_with, strip_qualifier).
QualifiedBy(q, name) == Len(name) > 1 /\ name[1] = q

\* try_index_join, for the right side of a join that is a plain scan of a table
\* with these columns indexed.
TryIndexJoin(p, indexed) ==
    LET equal == p.on.e = "binary" /\ p.on.op = "=" /\ IsColumn(p.on.left) /\ IsColumn(p.on.right)
        l == p.on.left.name
        r == p.on.right.name
        sides == IF QualifiedBy(p.leftTable, l) THEN <<l, r>> ELSE <<r, l>>
    IN  IF /\ equal
           /\ equal => /\ QualifiedBy(p.leftTable, sides[1]) /\ QualifiedBy(p.rightTable, sides[2])
                       /\ Tail(sides[2]) \in indexed
        THEN <<[op |-> "indexNestedLoopJoin", left |-> p.left, leftTable |-> p.leftTable,
                table |-> p.right.table, rightTable |-> p.rightTable, index |-> Tail(sides[2]),
                leftColumn |-> sides[1], kind |-> p.kind]>>
        ELSE <<>>

-----------------------------------------------------------------------------
(* Keys *)

\* value_to_index_key and literal_to_index_key: what can be a key, and the
\* order of keys, a NULL after every number and every text.
IsKey(value) == value.kind \in {"int", "text", "null"}
Rank(key) == CASE key.kind = "int" -> 1 [] key.kind = "text" -> 2 [] key.kind = "null" -> 3
KeyBefore(k, l) == Rank(k) < Rank(l) \/ (Rank(k) = Rank(l) /\ Precedes(k.v, l.v))

\* range_search: whether a key is between two bounds, if there are any.
InRange(lower, upper, key) ==
    /\ \/ lower = <<>> \/ KeyBefore(lower[1].key, key)
       \/ lower[1].inclusive /\ key = lower[1].key
    /\ \/ upper = <<>> \/ KeyBefore(key, upper[1].key)
       \/ upper[1].inclusive /\ key = upper[1].key

-----------------------------------------------------------------------------
(* The order of rows *)

\* A mutant: a descending order reverses the place of NULLs as well.
ReversesNulls(a, b, desc) ==
    IF desc THEN b # Null /\ (a = Null \/ Precedes(b.v, a.v))
    ELSE a # Null /\ (b = Null \/ Precedes(a.v, b.v))

\* compare_with_direction: whether a sorts before b.  A NULL is after every
\* value before the direction is looked at; values of two kinds are equal.
SortsBefore(a, b, desc) ==
    CASE a = Null -> FALSE
      [] a # Null /\ b = Null -> TRUE
      [] OTHER -> a.kind = b.kind /\ IF desc THEN Precedes(b.v, a.v) ELSE Precedes(a.v, b.v)

\* sort_indices: where each column to sort by is.
SortKeys(columns, orderBy) ==
    [k \in DOMAIN orderBy |->
        [at |-> ColumnIndex(columns, orderBy[k].column), desc |-> orderBy[k].desc]]

\* The comparator of sort, column after column.
RowSortsBefore(r, s, keys) ==
    \E k \in DOMAIN keys :
        /\ SortsBefore(r[keys[k].at], s[keys[k].at], keys[k].desc)
        /\ \A i \in 1..k-1 : /\ ~SortsBefore(r[keys[i].at], s[keys[i].at], keys[i].desc)
                             /\ ~SortsBefore(s[keys[i].at], r[keys[i].at], keys[i].desc)
=============================================================================
