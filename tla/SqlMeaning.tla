----------------------------- MODULE SqlMeaning -----------------------------
(***************************************************************************)
(* What a SELECT means, by the rules of SQL and apart from how crumble     *)
(* computes it: three-valued logic on numbers, joins and groups as sets of *)
(* positions, LIKE as a way to cut the text.  Query compares its answers   *)
(* with these.                                                             *)
(*                                                                         *)
(* A database db has, for each table, its columns, their kinds and its     *)
(* rows.  A statement sql has the clauses                                  *)
(*   from    the table and its qualifier                                   *)
(*   join    <<>>, or the kind, the table, the qualifier and ON            *)
(*   where, having, limit, offset   <<>>, or what the clause says          *)
(*   group   the columns of GROUP BY                                       *)
(*   items   <<>> for *, or columns and functions                          *)
(*   order   the columns of ORDER BY, each ascending or not                *)
(***************************************************************************)
EXTENDS SqlRules

RECURSIVE Denote(_, _)
Denote(sql, env) == DenoteNode(sql, env, LAMBDA s : Denote(s, env))

RECURSIVE KindOf(_, _)
KindOf(sql, schema) == KindNode(sql, schema, LAMBDA s : KindOf(s, schema))

IsTrue(option, env) == option = <<>> \/ Denote(option[1], env) = True

-----------------------------------------------------------------------------
(* The clauses *)

Qualified(q, columns) == [i \in DOMAIN columns |-> <<q>> \o columns[i]]

\* The names a statement can use, and the kind of each.
NamesOf(sql, db) ==
    IF sql.join = <<>> THEN db[sql.from.table].columns
    ELSE Qualified(sql.from.qualifier, db[sql.from.table].columns)
           \o Qualified(sql.join[1].qualifier, db[sql.join[1].table].columns)

SchemaOf(sql, db) ==
    LET names == NamesOf(sql, db)
        kinds == IF sql.join = <<>> THEN db[sql.from.table].kinds
                 ELSE db[sql.from.table].kinds \o db[sql.join[1].table].kinds
    IN  [name \in Range(names) |-> kinds[ColumnIndex(names, name)]]

\* The rows of the side a join keeps that are in no pair, with partner 0.
Alone(left, right, pairs, kind) ==
    {<<i, 0>> : i \in {i \in DOMAIN left : kind \in {"left", "full"} /\ \A p \in pairs : p[1] # i}}
      \cup
    {<<0, j>> : j \in {j \in DOMAIN right : kind \in {"right", "full"} /\ \A p \in pairs : p[2] # j}}

\* The rows at the two positions of a pair.
Side(i, rows, columns) == IF i = 0 THEN [k \in DOMAIN columns |-> Null] ELSE rows[i]
BothSides(p, left, right) ==
    Side(p[1], left.rows, left.columns) \o Side(p[2], right.rows, right.columns)

Partners(left, right, on, names) ==
    {p \in (DOMAIN left.rows) \X (DOMAIN right.rows) :
        Denote(on, [columns |-> names, row |-> BothSides(p, left, right)]) = True}

WithAlone(left, right, pairs, kind) == pairs \cup Alone(left.rows, right.rows, pairs, kind)

AsRows(left, right, places) == [k \in DOMAIN places |-> BothSides(places[k], left, right)]

\* The rows of FROM: those of the table, or the pairs for which ON is true and
\* the rows that the join keeps without a partner.
JoinedRows(left, right, join, names) ==
    AsRows(left, right,
           SetToSeq(WithAlone(left, right, Partners(left, right, join.on, names), join.kind)))

FromRows(sql, db) ==
    IF sql.join = <<>> THEN db[sql.from.table].rows
    ELSE JoinedRows(db[sql.from.table], db[sql.join[1].table], sql.join[1], NamesOf(sql, db))

Grouped(sql) ==
    \/ sql.group # <<>> \/ sql.having # <<>>
    \/ \E i \in DOMAIN sql.items : sql.items[i].func # "none"

Env(names, row, group) == [columns |-> names, row |-> row, group |-> group]

\* The groups of rows: those with one key.  A statement that only aggregates
\* has one group, even of no rows.
KeyOf(row, by, names) == [i \in DOMAIN by |-> Of(Env(names, row, <<>>), by[i])]
Groups(rows, by, names) ==
    LET keys == IF by = <<>> THEN {<<>>} ELSE {KeyOf(row, by, names) : row \in Range(rows)}
    IN  {SelectSeq(rows, LAMBDA row : KeyOf(row, by, names) = k) : k \in keys}
GroupEnv(names, group) == Env(names, IF group = <<>> THEN <<>> ELSE group[1], group)

\* What HAVING leaves of the rows that WHERE leaves: an environment for each
\* row of the answer.
AfterHaving(sql, rows, names) ==
    IF Grouped(sql)
    THEN SetToSeq({g \in {GroupEnv(names, group) : group \in Groups(rows, sql.group, names)} :
                      IsTrue(sql.having, g)})
    ELSE [i \in DOMAIN rows |-> Env(names, rows[i], <<>>)]

Environments(sql, db, names) ==
    AfterHaving(sql, SelectSeq(FromRows(sql, db), LAMBDA row : IsTrue(sql.where, Env(names, row, <<>>))),
                names)

ItemValue(item, env) ==
    IF item.func = "none" THEN Of(env, item.column) ELSE Aggregated(env, item.func, item.column)

\* What an environment is printed as.
Selected(items, env) ==
    IF items = <<>> THEN env.row ELSE [i \in DOMAIN items |-> ItemValue(items[i], env)]

\* The rows of the answer, in no particular order, before LIMIT and OFFSET.
Meaning(sql, db) ==
    LET select(envs) == [k \in DOMAIN envs |-> Selected(sql.items, envs[k])]
    IN  select(Environments(sql, db, NamesOf(sql, db)))

InOrder(rows, order, columns) ==
    \A i, j \in DOMAIN rows : i < j => ~Earlier(rows[j], rows[i], order, columns)

\* The same rows, each as often.
SameRows(r, s) ==
    /\ Len(r) = Len(s)
    /\ \A x \in Range(r) : Cardinality({i \in DOMAIN r : r[i] = x}) = Cardinality({i \in DOMAIN s : s[i] = x})

\* The rows that OFFSET and LIMIT leave of an arrangement.
Window(rows, sql) ==
    LET first == IF sql.offset = <<>> THEN 1 ELSE sql.offset[1] + 1
        last == IF sql.limit = <<>> THEN Len(rows) ELSE first + sql.limit[1] - 1
    IN  SubSeq(rows, first, IF last < Len(rows) THEN last ELSE Len(rows))

\* Whether rows is what LIMIT and OFFSET leave of all, arranged as ORDER BY asks.
Arrangement(rows, columns, sql, all) ==
    IF sql.limit = <<>> /\ sql.offset = <<>>
    THEN SameRows(rows, all) /\ InOrder(rows, sql.order, columns)
    ELSE \E p \in {f \in [DOMAIN all -> DOMAIN all] : \A i, j \in DOMAIN all : i # j => f[i] # f[j]} :
            LET arranged == [i \in DOMAIN all |-> all[p[i]]]
            IN  InOrder(arranged, sql.order, columns) /\ rows = Window(arranged, sql)

\* Whether rows is an answer to the statement.
IsAnswer(rows, columns, sql, db) == Arrangement(rows, columns, sql, Meaning(sql, db))
=============================================================================
