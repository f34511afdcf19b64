-------------------------- MODULE ExpressionNodes --------------------------
(***************************************************************************)
(* Expressions, one node at a time: how SQL's are lowered                  *)
(* (crumble-ir/src/lower/expr.rs), folded                                  *)
(* (crumble-opt/src/constant_fold.rs), interpreted on a row                *)
(* (crumble-exec/src/interpret/eval.rs), and compiled to machine code      *)
(* (crumble-jit/src/lib.rs) by the Filter operator (filter.rs).            *)
(*                                                                         *)
(* An expression of the IR is a record: a column, a literal, a binary      *)
(* operation, IS NULL or LIKE.  SQL has NOT, IN, BETWEEN, parentheses and  *)
(* functions as well.  Each ...Node operator takes what its recursion      *)
(* makes of the expressions below a node; Expressions ties the recursion.  *)
(***************************************************************************)
EXTENDS SqlValues, FiniteSets

CONSTANTS
  MaxInt,   \* the largest i64
  Checked   \* whether the build checks additions for overflow (cargo's debug profile)

ASSUME IntAssumption == MaxInt \in Nat /\ Checked \in BOOLEAN

Column(name) == [e |-> "column", name |-> name]
Literal(value) == [e |-> "literal", value |-> value]
Binary(l, op, r) == [e |-> "binary", left |-> l, op |-> op, right |-> r]
IsNull(arg, negated) == [e |-> "isnull", arg |-> arg, negated |-> negated]
Like(arg, pattern, negated) ==
    [e |-> "like", arg |-> arg, pattern |-> pattern, negated |-> negated]
Not(arg) == [e |-> "not", arg |-> arg]
InList(arg, list, negated) == [e |-> "in", arg |-> arg, list |-> list, negated |-> negated]
Between(arg, low, high, negated) ==
    [e |-> "between", arg |-> arg, low |-> low, high |-> high, negated |-> negated]
Nested(arg) == [e |-> "nested", arg |-> arg]
Func(func, column) == [e |-> "func", func |-> func, column |-> column]

-----------------------------------------------------------------------------
(* Lowering *)

IsFalse(expr) == Binary(expr, "=", Literal(False))
IsFalseIf(negated, expr) == IF negated THEN IsFalse(expr) ELSE expr

\* The disjunction IN stands for, its items joined from the left.
AnyOf(target, items) ==
    LET equal(n) == Binary(target, "=", items[n])
        any[n \in DOMAIN items] == IF n = 1 THEN equal(n) ELSE Binary(any[n - 1], "OR", equal(n))
    IN  any[Len(items)]

\* Whether lower_expr accepts an expression: parentheses and functions are
\* unsupported, and so is IN with an empty list.
LowerableNode(sql, lowerable(_)) ==
    CASE sql.e \in {"nested", "func"} -> FALSE
      [] sql.e = "binary"  -> lowerable(sql.left) /\ lowerable(sql.right)
      [] sql.e = "like"    -> lowerable(sql.arg) /\ lowerable(sql.pattern)
      [] sql.e = "in"      -> /\ lowerable(sql.arg) /\ sql.list # <<>>
                              /\ \A i \in DOMAIN sql.list : lowerable(sql.list[i])
      [] sql.e = "between" -> lowerable(sql.arg) /\ lowerable(sql.low) /\ lowerable(sql.high)
      [] sql.e \in {"isnull", "not"} -> lowerable(sql.arg)
      [] OTHER -> TRUE

\* lower_expr.
LowerNode(sql, lower(_)) ==
    CASE sql.e \in {"column", "literal"} -> sql
      [] sql.e = "binary" -> Binary(lower(sql.left), sql.op, lower(sql.right))
      [] sql.e = "isnull" -> IsNull(lower(sql.arg), sql.negated)
      [] sql.e = "like"   -> Like(lower(sql.arg), lower(sql.pattern), sql.negated)
      [] sql.e = "not"    -> IsFalse(lower(sql.arg))
      [] sql.e = "in"     -> IsFalseIf(sql.negated,
             AnyOf(lower(sql.arg), [i \in DOMAIN sql.list |-> lower(sql.list[i])]))
      [] sql.e = "between" ->
             LET target == lower(sql.arg)
             IN  IsFalseIf(sql.negated, Binary(Binary(target, ">=", lower(sql.low)), "AND",
                                               Binary(target, "<=", lower(sql.high))))

-----------------------------------------------------------------------------
(* The interpreter *)

\* `l + r` of i64: out of its range it panics, or wraps around.
AddInt(l, r) ==
    LET sum == l + r
        half == MaxInt + 1
    IN  IF sum \in -half..MaxInt THEN IntVal(sum)
        ELSE IF Checked THEN Val("Panic", <<>>)
        ELSE IntVal(((sum + half) % (2 * half)) - half)

\* A mutant: a NULL operand makes every operation NULL.
AlwaysNull(l, op, r) == Null

\* eval_binary_op_with_null: only AND and OR can be known with a NULL operand.
WithNull(l, op, r) ==
    CASE op = "AND" /\ False \in {l, r} -> False
      [] op = "OR" /\ True \in {l, r}   -> True
      [] OTHER -> Null

\* eval_int, eval_bool, eval_string and eval_float.
SameKind(l, op, r) ==
    LET kind == l.kind IN
    CASE op \in {"=", "<>"} \/ (op \in Comparisons /\ kind # "bool") -> BoolVal(Holds(l.v, op, r.v))
      [] op = "AND" /\ kind = "bool" -> IF l = True /\ r = True THEN True ELSE False
      [] op = "OR" /\ kind = "bool"  -> IF l = True \/ r = True THEN True ELSE False
      [] op = "+" /\ kind = "int"    -> AddInt(l.v[1], r.v[1])
      [] op = "+" /\ kind = "float"  -> FloatVal(l.v[1] + r.v[1])
      [] OTHER -> Val("TypeMismatch", <<>>)

\* eval_binary_op.  Both operands are evaluated first, so that either's error
\* is the operation's even where the other decides it.
EvalBinaryOp(l, op, r) ==
    IF Fails(l) THEN l
    ELSE IF Fails(r) THEN r
    ELSE IF Null \in {l, r} THEN WithNull(l, op, r)
    ELSE IF l.kind = r.kind THEN SameKind(l, op, r)
    ELSE Val("TypeMismatch", <<>>)

\* like_match_from, at a place of the text and one of the pattern: a % stands for
\* no character, or takes one and stays.
LikeMatch(text, pattern) ==
    LET from[at \in (0..Len(text)) \X (0..Len(pattern))] ==
            LET ti == at[1]
                pi == at[2]
            IN  IF pi = Len(pattern) THEN ti = Len(text)
                ELSE IF pattern[pi + 1] = Percent
                THEN from[<<ti, pi + 1>>] \/ (ti < Len(text) /\ from[<<ti + 1, pi>>])
                ELSE /\ ti < Len(text)
                     /\ pattern[pi + 1] \in {Underscore, text[ti + 1]}
                     /\ from[<<ti + 1, pi + 1>>]
    IN  from[<<0, 0>>]

EvalLike(value, pattern, negated) ==
    IF Fails(value) THEN value
    ELSE IF Fails(pattern) THEN pattern
    ELSE IF Null \in {value, pattern} THEN Null
    ELSE IF value.kind = "text" /\ pattern.kind = "text"
    THEN BoolVal(LikeMatch(value.v, pattern.v) # negated)
    ELSE Val("TypeMismatch", <<>>)

EvalIsNull(value, negated) ==
    IF Fails(value) THEN value ELSE BoolVal((value = Null) # negated)

\* eval_expr.
EvalNode(expr, columns, row, value(_)) ==
    CASE expr.e = "column"  -> LET i == ColumnIndex(columns, expr.name)
                               IN  IF i = 0 THEN Val("ColumnNotFound", <<>>) ELSE row[i]
      [] expr.e = "literal" -> expr.value
      [] expr.e = "binary"  -> EvalBinaryOp(value(expr.left), expr.op, value(expr.right))
      [] expr.e = "isnull"  -> EvalIsNull(value(expr.arg), expr.negated)
      [] expr.e = "like"    -> EvalLike(value(expr.arg), value(expr.pattern), expr.negated)

-----------------------------------------------------------------------------
(* Constant folding *)

\* What fold_int, fold_bool, fold_string and fold_float fold.
Foldable(kind) ==
    CASE kind \in Numeric -> Comparisons \cup {"+"}
      [] kind = "text"    -> Comparisons
      [] kind = "bool"    -> {"=", "<>", "AND", "OR"}
      [] OTHER            -> {}

\* A mutant: the operands are swapped.
FoldSwapped(l, op, r) ==
    LET both == l.e = "literal" /\ r.e = "literal"
    IN  IF both /\ (both => l.value.kind = r.value.kind /\ op \in Foldable(l.value.kind))
        THEN Literal(SameKind(r.value, op, l.value))
        ELSE Binary(l, op, r)

\* fold_binary_op: two literals of one kind; a NULL is left to the interpreter.
FoldBinary(l, op, r) ==
    LET both == l.e = "literal" /\ r.e = "literal"
    IN  IF both /\ (both => l.value.kind = r.value.kind /\ op \in Foldable(l.value.kind))
        THEN Literal(SameKind(l.value, op, r.value))
        ELSE Binary(l, op, r)

\* fold_expr.  A literal of kind Panic: the fold did not return.
FoldNode(expr, folded(_)) ==
    CASE expr.e = "binary" -> FoldBinary(folded(expr.left), expr.op, folded(expr.right))
      [] expr.e = "isnull" -> IsNull(folded(expr.arg), expr.negated)
      [] expr.e = "like"   -> Like(folded(expr.arg), folded(expr.pattern), expr.negated)
      [] OTHER -> expr

-----------------------------------------------------------------------------
(* The predicate compiler.  tracked is column_index: the position and the   *)
(* kind of the columns the machine code can read.                           *)

\* filter: the columns whose value in the first row is a number.  Of two
\* columns of one name the later is in the map.
Tracked(columns, rows) ==
    LET numeric == {i \in DOMAIN columns : rows # <<>> /\ rows[1][i].kind \in Numeric}
        last(name) == CHOOSE i \in numeric :
            columns[i] = name /\ \A j \in numeric : columns[j] = name => j <= i
    IN  [name \in {columns[i] : i \in numeric} |->
            [at |-> last(name), kind |-> rows[1][last(name)].kind]]

\* The kind codegen_value gives an expression, or "none": a boolean or a NULL
\* is loaded as an integer.
LoadKind(expr, tracked) ==
    CASE expr.e = "column"  -> IF expr.name \in DOMAIN tracked THEN tracked[expr.name].kind ELSE "none"
      [] expr.e = "literal" -> CASE expr.value.kind \in {"int", "bool", "null"} -> "int"
                                 [] expr.value.kind = "float" -> "float"
                                 [] OTHER -> "none"
      [] OTHER -> "none"

\* A mutant: the code does not ask whether a value is NULL, and its bits are 0.
NullAsZero(expr, tracked, row) ==
    LET value == IF expr.e = "literal" THEN expr.value ELSE row[tracked[expr.name].at]
    IN  [null |-> 0, bits |-> IF value # Null THEN value.v ELSE <<0>>]

\* What the code finds in the two arrays of build_flat_arrays: 64 bits, and
\* whether the value is NULL.  A value that is not of its column's kind is 0.
Load(expr, tracked, row) ==
    LET value == IF expr.e = "literal" THEN expr.value ELSE row[tracked[expr.name].at]
        loaded == expr.e = "literal" \/ value.kind = tracked[expr.name].kind
    IN  [null |-> IF value = Null THEN 1 ELSE 0, bits |-> IF value # Null /\ loaded THEN value.v ELSE <<0>>]

\* Whether codegen_predicate has code for an expression.
CompilesNode(expr, tracked, compiles(_)) ==
    CASE expr.e = "isnull" -> LoadKind(expr.arg, tracked) # "none"
      [] expr.e = "binary" /\ expr.op \in {"AND", "OR"} ->
             compiles(expr.left) /\ compiles(expr.right)
      [] expr.e = "binary" /\ expr.op \in Comparisons ->
             LET kind == LoadKind(expr.left, tracked)
             IN  kind # "none" /\ kind = LoadKind(expr.right, tracked)
      [] OTHER -> FALSE

\* The results of a predicate's code.
TriFalse == 0
TriTrue == 1
TriNull == 2

TristateAnd(l, r) ==
    IF TriFalse \in {l, r} THEN TriFalse ELSE IF TriNull \in {l, r} THEN TriNull ELSE TriTrue
TristateOr(l, r) ==
    IF TriTrue \in {l, r} THEN TriTrue ELSE IF TriNull \in {l, r} THEN TriNull ELSE TriFalse

\* The comparison codegen_predicate emits.
TristateCompare(l, op, r) ==
    IF 1 \in {l.null, r.null} THEN TriNull
    ELSE IF Holds(l.bits, op, r.bits) THEN TriTrue ELSE TriFalse

\* What the compiled code of a predicate returns for a row.
CompiledNode(expr, tracked, row, code(_)) ==
    CASE expr.e = "isnull" ->
             IF (Load(expr.arg, tracked, row).null = 1) # expr.negated THEN TriTrue ELSE TriFalse
      [] expr.e = "binary" /\ expr.op = "AND" ->
             TristateAnd(code(expr.left), code(expr.right))
      [] expr.e = "binary" /\ expr.op = "OR" ->
             TristateOr(code(expr.left), code(expr.right))
      [] OTHER -> TristateCompare(Load(expr.left, tracked, row), expr.op,
                                  Load(expr.right, tracked, row))
=============================================================================
