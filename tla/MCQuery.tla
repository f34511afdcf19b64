------------------------------ MODULE MCQuery ------------------------------
(* Databases and statements for Query. *)
EXTENDS Query

A == <<"a">>
B == <<"b">>
TA == <<"t", "a">>
UA == <<"u", "a">>

Select == [from |-> [table |-> "t", qualifier |-> "t"], join |-> <<>>, where |-> <<>>,
           group |-> <<>>, items |-> <<>>, having |-> <<>>, order |-> <<>>,
           limit |-> <<>>, offset |-> <<>>]
Plain(column) == [func |-> "none", column |-> column, alias |-> <<>>]
Call(func, column) == [func |-> func, column |-> column, alias |-> <<>>]

Named(func, column, alias) == [func |-> func, column |-> column, alias |-> alias]

Table(columns, kinds, rows, indexed) ==
    [columns |-> columns, kinds |-> kinds, rows |-> rows, indexed |-> indexed]
UpTo(n, rows) == UNION {[1..k -> rows] : k \in 0..n}
Options(S) == {<<>>} \cup {<<x>> : x \in S}
Cross(dbs, sqls) == [db : dbs, sql : sqls]

\* Two values of each kind, and one of another kind.
One(kind) == CASE kind = "int" -> IntVal(1) [] kind = "float" -> FloatVal(6)
               [] kind = "text" -> TextVal(<<97>>) [] kind = "bool" -> False
Two(kind) == CASE kind = "int" -> IntVal(2) [] kind = "float" -> FloatVal(9)
               [] kind = "text" -> TextVal(<<97, 98>>) [] kind = "bool" -> True
Other(kind) == IF kind = "int" THEN True ELSE IntVal(1)
ValuesOf(kind) == {One(kind), Two(kind), Null}

-----------------------------------------------------------------------------
(* WHERE on one column, with and without an index *)

Singles(kind, n, indexed) ==
    {[t |-> Table(<<A>>, <<kind>>, [i \in DOMAIN s |-> <<s[i]>>], indexed)] : s \in UpTo(n, ValuesOf(kind))}

Compare(e, ops, values) ==
    {Binary(e, op, Literal(v)) : op \in ops, v \in values}
      \cup {Binary(Literal(v), op, e) : op \in ops, v \in values}
Combine(es, ops) == {Binary(l, op, r) : l \in es, r \in es, op \in ops}

Core(kind) == LET one == Literal(One(kind)) IN
    {Binary(Column(A), "=", one), Binary(Column(A), "<>", one), IsNull(Column(A), FALSE),
     Binary(Column(A), "=", Literal(Null)), Binary(one, "=", one), Binary(Column(A), "=", Literal(Other(kind)))}

Predicates(kind) ==
    LET one == Literal(One(kind))
        two == Literal(Two(kind))
        null == Literal(Null)
        a == Column(A)
    IN  Compare(a, Comparisons, ValuesOf(kind) \cup {Other(kind)})
          \cup {IsNull(a, TRUE), IsNull(a, FALSE), IsNull(Binary(a, "=", one), FALSE), a, null,
                Literal(True), Binary(one, "<", two), Not(Binary(a, "=", one)), Not(Binary(a, "<", null)), Not(a),
                Nested(a), Binary(a, "=", Column(B))}
          \cup {InList(a, list, n) : list \in {<<>>, <<one>>, <<one, two>>, <<two, null>>}, n \in BOOLEAN}
          \cup {Between(a, low, high, n) : low \in {one, null}, high \in {one, two, null}, n \in BOOLEAN}
          \cup Combine(Core(kind), {"AND", "OR"})
          \cup {Binary(Binary(a, "+", one), op, two) : op \in {"=", "<="}}
          \cup {Binary(a, op, Binary(one, "+", one)) : op \in {"=", ">"}}

Largest == Literal(IntVal(MaxInt))
Overflowing == {Binary(Binary(Column(A), "+", Largest), ">", Literal(One("int"))),
                Binary(Column(A), "<", Binary(Largest, "+", Literal(One("int"))))}

Wheres(predicates) == {[Select EXCEPT !.where = <<p>>] : p \in predicates}

WhereCases ==
    UNION {Cross(UNION {Singles(kind, 2, x) : x \in {{}, {A}}}, Wheres(Predicates(kind))) : kind \in Kinds}
      \cup Cross(Singles("int", 2, {}), Wheres(Overflowing))

\* One comparison of an indexed column with a literal.
ComparisonCases ==
    Cross(Singles("int", 2, {A}), Wheres({Binary(Column(A), op, Literal(v)) : op \in Comparisons, v \in ValuesOf("int")}))

\* LIKE, on every short text and pattern of two letters and the wildcards.
LikeCases ==
    {[db |-> [t |-> Table(<<A>>, <<"text">>, << <<TextVal(text)>> >>, {})],
      sql |-> [Select EXCEPT !.where = <<Like(Column(A), Literal(TextVal(pattern)), n)>>]] :
        text \in UpTo(3, {97, 98}), pattern \in UpTo(3, {97, Percent, Underscore}), n \in BOOLEAN}

\* Two columns, either of which may be NULL in the first row.
Pairs(kind, n, values) ==
    {[t |-> Table(<<A, B>>, <<"int", kind>>, rows, {})] :
        rows \in UpTo(n, (values \cap ValuesOf("int")) \X (values \cap ValuesOf(kind)))}

TwoColumnCases ==
    LET bs(kind) == {Binary(Column(B), ">", Literal(One(kind))), IsNull(Column(B), TRUE)}
        as == {Binary(Column(A), ">=", Literal(Two("int"))), IsNull(Column(A), FALSE)}
        both(kind) == {Binary(l, op, r) : l \in as, r \in bs(kind), op \in {"AND", "OR"}}
    IN  UNION {Cross(Pairs(kind, 2, ValuesOf(kind) \cup ValuesOf("int")),
                     Wheres(both(kind) \cup {Binary(Column(A), op, Column(B)) : op \in {"=", "<"}})) :
                   kind \in {"int", "float"}}

-----------------------------------------------------------------------------
(* Joins *)

JoinKinds == {"inner", "left", "right", "full"}
TwoTables(kind, indexed) ==
    {[t |-> Table(<<A>>, <<kind>>, [i \in DOMAIN l |-> <<l[i]>>], {}),
      u |-> Table(<<A>>, <<kind>>, [i \in DOMAIN r |-> <<r[i]>>], indexed)] :
        l \in UpTo(2, ValuesOf(kind)), r \in UpTo(2, ValuesOf(kind))}
Joins(ons, kinds) ==
    {[Select EXCEPT !.join = <<[kind |-> k, table |-> "u", qualifier |-> "u", on |-> on]>>] :
        k \in kinds, on \in ons}
Equal == Binary(Column(TA), "=", Column(UA))
Turn == Binary(Column(UA), "=", Column(TA))
OtherOns == {Binary(Column(TA), "<", Column(UA)), Literal(Null),
             Binary(Equal, "OR", IsNull(Column(UA), FALSE))}

\* A table joined with itself, under two aliases.
SelfJoins ==
    {[Select EXCEPT !.from.qualifier = "x",
        !.join = <<[kind |-> k, table |-> "t", qualifier |-> "y",
                    on |-> Binary(Column(<<"x", "a">>), "<", Column(<<"y", "a">>))]>>] : k \in JoinKinds}

IndexJoinCases == Cross(TwoTables("int", {A}), Joins({Equal, Turn}, JoinKinds))

\* The statements that an index may answer: those of one comparison, and the joins.
IndexCases == ComparisonCases \cup IndexJoinCases

JoinCases ==
    Cross(TwoTables("int", {}), Joins({Equal} \cup OtherOns, JoinKinds))
      \cup IndexJoinCases
      \cup Cross(TwoTables("int", {A}), Joins(OtherOns, {"full"}))
      \cup Cross(TwoTables("int", {}),
                 {[j EXCEPT !.where = <<w>>, !.items = <<Plain(UA)>>] :
                     j \in Joins({Equal}, {"left", "full"}),
                     w \in {IsNull(Column(UA), FALSE), Binary(Column(TA), ">", Literal(One("int")))}})
      \cup Cross(Singles("int", 2, {}), SelfJoins)

-----------------------------------------------------------------------------
(* Groups *)

Functions == <<Call("SUM", B), Plain(A), Call("COUNT", <<>>), Call("COUNT", B),
               Call("AVG", B), Call("MIN", B), Call("MAX", B)>>
OnlyFunctions == SelectSeq(Functions, IsFunction)

Havings ==
    {Binary(Func("COUNT", <<>>), ">", Literal(IntVal(1))),
     Binary(Func("SUM", B), ">=", Literal(IntVal(2))),
     IsNull(Func("MAX", B), FALSE),
     Binary(Binary(Func("MIN", B), "=", Literal(IntVal(1))), "AND",
            Binary(Func("COUNT", B), "<", Literal(IntVal(2)))),
     Binary(Column(A), "=", Literal(IntVal(1))),
     Not(IsNull(Func("SUM", B), FALSE))}

GroupCases ==
    LET dbs == {d \in Pairs("int", 3, ValuesOf("int")) : \A r \in Range(d.t.rows) : r[1] # IntVal(2)}
        by == [Select EXCEPT !.group = <<A>>]
    IN  Cross(dbs,
              {[by EXCEPT !.items = Functions, !.having = h] : h \in Options(Havings)}
                \cup {[by EXCEPT !.items = <<Plain(A)>>, !.having = h] : h \in Options(Havings)}
                \cup {[by EXCEPT !.items = <<Named("SUM", B, <<"s">>)>>, !.having = h] : h \in Options(Havings)}
                \cup {[Select EXCEPT !.items = OnlyFunctions, !.where = w] :
                         w \in Options({Binary(Column(A), "=", Literal(IntVal(1)))})}
                \cup {[Select EXCEPT !.items = <<Plain(A)>>, !.having = <<Binary(Column(A), "=", Literal(Null))>>]})
        \cup Cross(Singles("bool", 2, {}) \cup Singles("text", 3, {}) \cup Singles("float", 3, {}),
                   {[Select EXCEPT !.items = <<Call(f, A)>>] : f \in {"SUM", "AVG", "MIN", "MAX"}})

-----------------------------------------------------------------------------
(* ORDER BY, LIMIT and OFFSET *)

By(column, desc) == [column |-> column, desc |-> desc]
OrderCases ==
    LET dbs == {d \in Pairs("int", 3, ValuesOf("int")) : \A r \in Range(d.t.rows) : r[2] # Null}
    IN  Cross(dbs,
              {[Select EXCEPT !.order = o, !.limit = l, !.offset = f] :
                  o \in {<<>>, <<By(A, FALSE)>>, <<By(A, TRUE)>>, <<By(A, TRUE), By(B, FALSE)>>},
                  l \in Options({1, 2}), f \in Options({1})}
                \cup {[Select EXCEPT !.items = <<Plain(A)>>, !.order = <<By(B, FALSE)>>]})

AllCases == WhereCases \cup LikeCases \cup TwoColumnCases \cup JoinCases \cup GroupCases \cup OrderCases

=============================================================================
