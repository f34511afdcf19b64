------------------------------ MODULE SqlRules ------------------------------
(***************************************************************************)
(* What an expression means by the rules of SQL, and which expressions have *)
(* a type: three-valued logic on numbers, LIKE as a way to cut the text.   *)
(* As in ExpressionNodes, an operator takes what its recursion makes of    *)
(* the expressions below a node; SqlMeaning ties the recursion.            *)
(***************************************************************************)
EXTENDS SqlValues, FiniteSets, FiniteSetsExt

\* The greatest of a set of numbers.
LargestInt(S) == CHOOSE m \in S : \A n \in S : n <= m

-----------------------------------------------------------------------------
(* Expressions: a row is env.row, its names env.columns, and env.group is   *)
(* the rows that were grouped into it.                                      *)

Of(env, name) == env.row[ColumnIndex(env.columns, name)]

Unknown == 1      \* between false, 0, and true, 2
AsTruth(value) == CASE value = True -> 2 [] value = False -> 0 [] value = Null -> Unknown
AsValue(truth) == CASE truth = 2 -> True [] truth = 0 -> False [] truth = Unknown -> Null

\* A text matches a pattern if its characters can be cut into one piece for
\* each character of the pattern: any piece for %, any one character for _.
Matches(text, pattern) ==
    \E cut \in [0..Len(pattern) -> 0..Len(text)] :
        /\ cut[0] = 0 /\ cut[Len(pattern)] = Len(text)
        /\ \A i \in DOMAIN pattern :
              IF pattern[i] = Percent THEN cut[i-1] <= cut[i]
              ELSE /\ cut[i] = cut[i-1] + 1
                   /\ pattern[i] = Underscore \/ pattern[i] = text[cut[i]]

\* The columns of a group's rows, without the NULLs, by their position.
Known(env, column) ==
    {i \in DOMAIN env.group : env.group[i][ColumnIndex(env.columns, column)] # Null}

Aggregated(env, func, column) ==
    LET at(i) == env.group[i][ColumnIndex(env.columns, column)]
        known == Known(env, column)
        total == MapThenSumSet(LAMBDA i : at(i).v[1], known)
        kind == at(CHOOSE i \in known : TRUE).kind
    IN  CASE func = "COUNT" /\ column = <<>> -> IntVal(Len(env.group))
          [] func = "COUNT" /\ column # <<>> -> IntVal(Cardinality(known))
          [] func # "COUNT" /\ known = {} -> Null
          [] func = "SUM" /\ known # {} -> Val(kind, <<total>>)
          [] func = "AVG" /\ known # {} ->
                FloatVal((IF kind = "int" THEN 6 * total ELSE total) \div Cardinality(known))
          [] func = "MIN" /\ known # {} ->
                at(CHOOSE i \in known : \A j \in known : ~Precedes(at(j).v, at(i).v))
          [] func = "MAX" /\ known # {} ->
                at(CHOOSE i \in known : \A j \in known : ~Precedes(at(i).v, at(j).v))

\* The value of an expression.  AND, OR and NOT are the least, the greatest
\* and the opposite of their operands; IN asks whether one item is equal.
DenoteNode(sql, env, value(_)) ==
    LET truth(e) == AsTruth(value(e))
        opposite(negated, t) == AsValue(IF negated THEN 2 - t ELSE t)
        compare(l, op, r) == IF Null \in {l, r} THEN Unknown ELSE IF Holds(l.v, op, r.v) THEN 2 ELSE 0
    IN  CASE sql.e = "column"  -> Of(env, sql.name)
          [] sql.e = "literal" -> sql.value
          [] sql.e = "func"    -> Aggregated(env, sql.func, sql.column)
          [] sql.e = "binary" /\ sql.op = "AND" ->
                AsValue(LET l == truth(sql.left)  r == truth(sql.right) IN IF l < r THEN l ELSE r)
          [] sql.e = "binary" /\ sql.op = "OR" ->
                AsValue(LET l == truth(sql.left)  r == truth(sql.right) IN IF l < r THEN r ELSE l)
          [] sql.e = "binary" /\ sql.op = "+" ->
                LET l == value(sql.left)  r == value(sql.right)
                IN  IF Null \in {l, r} THEN Null ELSE Val(l.kind, <<l.v[1] + r.v[1]>>)
          [] sql.e = "binary" /\ sql.op \in Comparisons ->
                AsValue(compare(value(sql.left), sql.op, value(sql.right)))
          [] sql.e = "isnull" -> BoolVal((value(sql.arg) = Null) # sql.negated)
          [] sql.e = "not" -> opposite(TRUE, truth(sql.arg))
          [] sql.e = "like" ->
                LET text == value(sql.arg)  pattern == value(sql.pattern)
                IN  IF Null \in {text, pattern} THEN Null
                    ELSE BoolVal(Matches(text.v, pattern.v) # sql.negated)
          [] sql.e = "in" -> opposite(sql.negated, LargestInt(
                {compare(value(sql.arg), "=", value(sql.list[i])) :
                    i \in DOMAIN sql.list}))
          [] sql.e = "between" ->
                LET arg == value(sql.arg)
                    least == compare(arg, ">=", value(sql.low))
                    most == compare(arg, "<=", value(sql.high))
                IN  opposite(sql.negated, IF least < most THEN least ELSE most)

-----------------------------------------------------------------------------
(* Types: which expressions SQL accepts.  A NULL literal has any kind.      *)

Boolean(accepted) == IF accepted THEN "bool" ELSE "bad"
Alike(kinds) == "bad" \notin kinds /\ Cardinality(kinds \ {"any"}) <= 1
Comparable(kinds) == Alike(kinds) /\ "bool" \notin kinds

KindOfFunc(func, column) ==
    CASE func = "COUNT" -> "int"
      [] func = "AVG" -> IF column \in Numeric THEN "float" ELSE "bad"
      [] func = "SUM" -> IF column \in Numeric THEN column ELSE "bad"
      [] func \in {"MIN", "MAX"} -> IF column = "bool" THEN "bad" ELSE column

KindOfBinary(l, op, r) ==
    CASE op \in {"AND", "OR"} -> Boolean({l, r} \subseteq {"bool", "any"})
      [] op \in {"=", "<>"}   -> Boolean(Alike({l, r}))
      [] op = "+"             -> IF l = r /\ l \in Numeric THEN l ELSE "bad"
      [] OTHER                -> Boolean(Comparable({l, r}))

KindNode(sql, schema, kind(_)) ==
    LET named(name) == IF name \in DOMAIN schema THEN schema[name] ELSE "bad"
    IN  CASE sql.e = "column"  -> named(sql.name)
          [] sql.e = "literal" -> IF sql.value = Null THEN "any" ELSE sql.value.kind
          [] sql.e = "func"    -> KindOfFunc(sql.func, named(sql.column))
          [] sql.e = "binary"  -> KindOfBinary(kind(sql.left), sql.op, kind(sql.right))
          [] sql.e = "isnull"  -> Boolean(kind(sql.arg) # "bad")
          [] sql.e = "not"     -> Boolean(kind(sql.arg) \in {"bool", "any"})
          [] sql.e = "like"    -> Boolean({kind(sql.arg), kind(sql.pattern)} \subseteq {"text", "any"})
          [] sql.e = "in"      -> Boolean(Alike({kind(sql.arg)} \cup {kind(e) : e \in Range(sql.list)}))
          [] sql.e = "between" -> Boolean(Comparable({kind(sql.arg), kind(sql.low), kind(sql.high)}))
          [] OTHER             -> "bad"

-----------------------------------------------------------------------------
(* The order of rows *)

\* Whether row r must come before row s: by the first column in which they
\* differ, and a NULL after everything, whichever the direction.
Earlier(r, s, order, columns) ==
    \E k \in DOMAIN order :
        LET at(row, i) == row[ColumnIndex(columns, order[i].column)]
            x == at(r, k)
            y == at(s, k)
        IN  /\ \A i \in 1..k-1 : at(r, i) = at(s, i)
            /\ x # y /\ x # Null
            /\ y = Null \/ (IF order[k].desc THEN Precedes(y.v, x.v) ELSE Precedes(x.v, y.v))
=============================================================================
