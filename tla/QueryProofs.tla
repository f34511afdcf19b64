---------------------------- MODULE QueryProofs ----------------------------
(***************************************************************************)
(* Machine-checked theorems about expressions of any size and rows of any  *)
(* values.  What a predicate is lowered to means what SQL says, folding    *)
(* does not change its value, its machine code keeps the rows that the     *)
(* interpreter keeps, and the index scan that replaces it returns them     *)
(* too; and the comparator of Sort is the order that ORDER BY asks for.    *)
(*                                                                         *)
(* Expressions and SqlMeaning tie each recursion to its ...Node operator.  *)
(* Here a recursion over a set of expressions, which has with each the     *)
(* ones below it, is any function that satisfies the node's equation; by   *)
(* RecursionsExist there is one.                                           *)
(***************************************************************************)
EXTENDS ExpressionNodes, PlanNodes, SqlRules, FiniteSetTheorems, WellFoundedInduction, TLAPS

(***************************************************************************)
(* Induction.                                                              *)
(***************************************************************************)

\* A nonempty set of numbers has a least one.
LEMMA LeastNumber ==
  ASSUME NEW N \in SUBSET Nat, N # {}
  PROVE  \E n \in N : \A m \in N : n <= m
<1>1. PICK n \in N : \A m \in N : ~(<<m, n>> \in OpToRel(<, Nat))
  BY NatLessThanWellFounded, WFMin, Zenon
<1>2. ASSUME NEW m \in N PROVE n <= m
  <2>1. ~(m < n)
    BY <1>1 DEF OpToRel
  <2>2. m \in Nat /\ n \in Nat
    OBVIOUS
  <2> QED BY <2>1, <2>2
<1> QED BY <1>2

\* What holds of an element whenever it holds of those of lower rank holds of all.
LEMMA RankInduction ==
  ASSUME NEW S, NEW rank \in [S -> Nat], NEW P,
         \A x \in S : (\A y \in S : rank[y] < rank[x] => y \in P) => x \in P
  PROVE  S \subseteq P
<1> SUFFICES ASSUME S \ P # {} PROVE FALSE
  OBVIOUS
<1> DEFINE N == {rank[x] : x \in S \ P}
<1>1. N \in SUBSET Nat /\ N # {}
  OBVIOUS
<1> HIDE DEF N
<1>2. PICK n \in N : \A m \in N : n <= m
  BY <1>1, LeastNumber
<1>3. PICK x \in S \ P : n = rank[x]
  BY DEF N
<1>4. \A y \in S \ P : n <= rank[y]
  BY <1>2 DEF N
<1>5. ASSUME NEW y \in S, rank[y] < rank[x] PROVE y \in P
  <2>1. rank[y] \in Nat /\ rank[x] \in Nat
    OBVIOUS
  <2> QED BY <1>3, <1>4, <1>5, <2>1
<1> QED BY <1>3, <1>5

\* What holds of 0, and of each number whose predecessor has it, holds up to n.
LEMMA UpTo ==
  ASSUME NEW n \in Nat, NEW P, 0 \in P, \A i \in 1..n : i - 1 \in P => i \in P
  PROVE  0..n \subseteq P
<1> DEFINE rank == [i \in 0..n |-> i]
<1>1. rank \in [0..n -> Nat] /\ \A i \in 0..n : rank[i] = i
  OBVIOUS
<1> HIDE DEF rank
<1>2. ASSUME NEW i \in 0..n, \A j \in 0..n : rank[j] < rank[i] => j \in P PROVE i \in P
  <2>1. CASE i = 0
    BY <2>1
  <2>2. CASE i # 0
    <3>1. i \in 1..n /\ i - 1 \in 0..n /\ i - 1 < i
      BY <2>2
    <3> QED BY <1>1, <1>2, <3>1
  <2> QED BY <2>1, <2>2
<1>3. \A i \in 0..n : (\A j \in 0..n : rank[j] < rank[i] => j \in P) => i \in P
  BY <1>2
<1>4. rank \in [0..n -> Nat]
  BY <1>1
<1> DEFINE R == 0..n
<1>5. rank \in [R -> Nat] /\ \A i \in R : (\A j \in R : rank[j] < rank[i] => j \in P) => i \in P
  BY <1>3, <1>4
<1> HIDE DEF R
<1>6. R \subseteq P
  BY <1>5, RankInduction
<1> QED BY <1>6 DEF R

(***************************************************************************)
(* Values.                                                                 *)
(***************************************************************************)

\* What a column or a literal can hold.
Values == {Null} \cup {IntVal(n) : n \in Int} \cup {FloatVal(n) : n \in Int}
            \cup {TextVal(s) : s \in Seq(Nat)} \cup {True, False}

\* What a predicate can evaluate to.
Truths == {True, False, Null}

\* The kinds are apart, and a value is no error.
LEMMA ValueFacts ==
  /\ \A v \in Values : v.kind \in Kinds \cup {"null"} /\ ~Fails(v)
  /\ \A v \in Values : v.kind = "null" <=> v = Null
  /\ \A v \in Values : v.kind = "bool" => v \in {True, False}
  /\ \A v \in Values : v.kind \in Numeric => v = Val(v.kind, <<v.v[1]>>) /\ v.v[1] \in Int
  /\ \A v \in Values : v.kind = "text" => v.v \in Seq(Nat)
  /\ Truths \subseteq Values /\ True # False /\ Null # True /\ Null # False
<1>1. True.v # False.v
  BY DEF True, False, BoolVal, Val
<1>2. \A n \in Int : IntVal(n).v[1] = n /\ FloatVal(n).v[1] = n
  BY DEF IntVal, FloatVal, Val
<1> QED BY <1>1, <1>2 DEF Values, Truths, Null, IntVal, FloatVal, TextVal, True, False, BoolVal, Val, Kinds,
        Fails, Errors, Numeric

(***************************************************************************)
(* Expressions of the IR.                                                  *)
(***************************************************************************)

Operators == Comparisons \cup {"AND", "OR", "+"}

Parts(e) ==
    CASE e.e = "binary" -> {e.left, e.right}
      [] e.e = "isnull" -> {e.arg}
      [] e.e = "like"   -> {e.arg, e.pattern}
      [] OTHER -> {}

IsExpr(e) ==
    \/ e = Column(e.name)
    \/ e = Literal(e.value) /\ e.value \in Values
    \/ e = Binary(e.left, e.op, e.right) /\ e.op \in Operators
    \/ e = IsNull(e.arg, e.negated) /\ e.negated \in BOOLEAN
    \/ e = Like(e.arg, e.pattern, e.negated) /\ e.negated \in BOOLEAN

\* A set of expressions, with each those below it.
Expressions(S, rank) ==
    /\ rank \in [S -> Nat]
    /\ \A e \in S : IsExpr(e) /\ \A x \in Parts(e) : x \in S /\ rank[x] < rank[e]

\* eval_expr, fold_expr and codegen_predicate of an expression, of what they
\* are of its parts.
EvalOf(e, columns, row, value) == EvalNode(e, columns, row, LAMBDA x : value[x])
FoldOf(e, fold) == FoldNode(e, LAMBDA x : fold[x])
CompilesOf(e, tracked, compiles) == CompilesNode(e, tracked, LAMBDA x : compiles[x])
CompiledOf(e, tracked, row, code) == CompiledNode(e, tracked, row, LAMBDA x : code[x])

\* Their recursions.  A fold that panics has no expression for a result.
Evaluates(value, S, columns, row) == \A e \in S : value[e] = EvalOf(e, columns, row, value)
Returns(fold, S) == \A e \in S : fold[e] = FoldOf(e, fold)
Folds(fold, S) == Returns(fold, S) /\ \A e \in S : fold[e] \in S
Accepts(compiles, S, tracked) == \A e \in S : compiles[e] = CompilesOf(e, tracked, compiles)
Runs(code, S, tracked, row) == \A e \in S : code[e] = CompiledOf(e, tracked, row, code)

\* The forms of expressions are apart.
LEMMA Forms ==
  /\ \A n : Column(n).e = "column" /\ Column(n).name = n
  /\ \A v : Literal(v).e = "literal" /\ Literal(v).value = v
  /\ \A l, op, r : /\ Binary(l, op, r).e = "binary" /\ Binary(l, op, r).left = l
                    /\ Binary(l, op, r).op = op /\ Binary(l, op, r).right = r
  /\ \A a, n : IsNull(a, n).e = "isnull" /\ IsNull(a, n).arg = a /\ IsNull(a, n).negated = n
  /\ \A a, p, n : /\ Like(a, p, n).e = "like" /\ Like(a, p, n).arg = a
                   /\ Like(a, p, n).pattern = p /\ Like(a, p, n).negated = n
BY DEF Column, Literal, Binary, IsNull, Like

\* An expression has one of five forms.
LEMMA Shapes ==
  ASSUME NEW e, IsExpr(e)
  PROVE  /\ e.e \in {"column", "literal", "binary", "isnull", "like"}
         /\ e.e = "column" => e = Column(e.name)
         /\ e.e = "literal" => e = Literal(e.value) /\ e.value \in Values
         /\ e.e = "binary" => e = Binary(e.left, e.op, e.right) /\ e.op \in Operators
         /\ e.e = "isnull" => e = IsNull(e.arg, e.negated) /\ e.negated \in BOOLEAN
         /\ e.e = "like" => e = Like(e.arg, e.pattern, e.negated) /\ e.negated \in BOOLEAN
BY Forms DEF IsExpr

\* What is below a node.
LEMMA PartsOf ==
  ASSUME NEW S, NEW rank, Expressions(S, rank), NEW e \in S
  PROVE  /\ e.e = "binary" => /\ e.left \in S /\ rank[e.left] < rank[e]
                              /\ e.right \in S /\ rank[e.right] < rank[e]
         /\ e.e = "isnull" => e.arg \in S /\ rank[e.arg] < rank[e]
         /\ e.e = "like" => /\ e.arg \in S /\ rank[e.arg] < rank[e]
                            /\ e.pattern \in S /\ rank[e.pattern] < rank[e]
BY DEF Expressions, Parts

\* What an expression evaluates to, form by form.
LEMMA EvalForms ==
  ASSUME NEW S, NEW value, NEW columns, NEW row, Evaluates(value, S, columns, row), NEW e \in S
  PROVE  /\ e.e = "column" => value[e] = IF ColumnIndex(columns, e.name) = 0
                                         THEN Val("ColumnNotFound", <<>>)
                                         ELSE row[ColumnIndex(columns, e.name)]
         /\ e.e = "literal" => value[e] = e.value
         /\ e.e = "binary" => value[e] = EvalBinaryOp(value[e.left], e.op, value[e.right])
         /\ e.e = "isnull" => value[e] = EvalIsNull(value[e.arg], e.negated)
         /\ e.e = "like" => value[e] = EvalLike(value[e.arg], value[e.pattern], e.negated)
BY DEF Evaluates, EvalOf, EvalNode

(***************************************************************************)
(* Folding.                                                                *)
(***************************************************************************)

\* Two literals of a kind that fold_binary_op folds are neither an error nor NULL.
LEMMA FoldedLiterals ==
  ASSUME NEW l, NEW op, NEW r, l.kind = r.kind, op \in Foldable(l.kind)
  PROVE  EvalBinaryOp(l, op, r) = SameKind(l, op, r)
<1>1. l.kind \in Kinds
  BY DEF Foldable, Kinds, Numeric
<1>2. ~Fails(l) /\ ~Fails(r) /\ l # Null /\ r # Null
  BY <1>1 DEF Kinds, Fails, Errors, Null, Val
<1> QED BY <1>2 DEF EvalBinaryOp

\* Folding one operation does not change its value.
LEMMA FoldBinaryKeeps ==
  ASSUME NEW S, NEW value, NEW columns, NEW row, Evaluates(value, S, columns, row),
         NEW l \in S, NEW op, NEW r \in S, FoldBinary(l, op, r) \in S
  PROVE  value[FoldBinary(l, op, r)] = EvalBinaryOp(value[l], op, value[r])
<1>1. CASE /\ l.e = "literal" /\ r.e = "literal"
           /\ l.value.kind = r.value.kind /\ op \in Foldable(l.value.kind)
  <2>1. FoldBinary(l, op, r) = Literal(SameKind(l.value, op, r.value))
    BY <1>1 DEF FoldBinary
  <2>2. value[FoldBinary(l, op, r)] = SameKind(l.value, op, r.value)
    BY <2>1, EvalForms, Forms
  <2>3. value[l] = l.value /\ value[r] = r.value
    BY <1>1, EvalForms
  <2> QED BY <1>1, <2>2, <2>3, FoldedLiterals
<1>2. CASE ~(/\ l.e = "literal" /\ r.e = "literal"
             /\ l.value.kind = r.value.kind /\ op \in Foldable(l.value.kind))
  <2>1. FoldBinary(l, op, r) = Binary(l, op, r)
    BY <1>2 DEF FoldBinary
  <2> QED BY <2>1, EvalForms, Forms
<1> QED BY <1>1, <1>2

\* Folding the constants of an expression changes neither its value on any row
\* nor its error (constant_fold.rs:105).
THEOREM FoldingKeepsValues ==
  ASSUME NEW S, NEW rank, Expressions(S, rank), NEW fold, Folds(fold, S),
         NEW value, NEW columns, NEW row, Evaluates(value, S, columns, row)
  PROVE  \A e \in S : value[fold[e]] = value[e]
<1> DEFINE P == {e \in S : value[fold[e]] = value[e]}
<1>1. ASSUME NEW e \in S, \A x \in S : rank[x] < rank[e] => x \in P
      PROVE  value[fold[e]] = value[e]
  <2>1. IsExpr(e)
    BY DEF Expressions
  <2>2. fold[e] \in S /\ fold[e] = FoldOf(e, fold)
    BY DEF Folds, Returns
  <2>3. \A x \in S : rank[x] < rank[e] => fold[x] \in S /\ value[fold[x]] = value[x]
    BY <1>1 DEF Folds
  <2>4. CASE e.e = "binary"
    <3>1. fold[e] = FoldBinary(fold[e.left], e.op, fold[e.right])
      BY <2>2, <2>4 DEF FoldOf, FoldNode
    <3>2. /\ fold[e.left] \in S /\ value[fold[e.left]] = value[e.left]
          /\ fold[e.right] \in S /\ value[fold[e.right]] = value[e.right]
      BY <2>3, <2>4, PartsOf
    <3>3. value[fold[e]] = EvalBinaryOp(value[fold[e.left]], e.op, value[fold[e.right]])
      BY <2>2, <3>1, <3>2, FoldBinaryKeeps
    <3> QED BY <2>4, <3>2, <3>3, EvalForms
  <2>5. CASE e.e = "isnull"
    <3>1. fold[e] = IsNull(fold[e.arg], e.negated)
      BY <2>2, <2>5 DEF FoldOf, FoldNode
    <3>2. value[fold[e]] = EvalIsNull(value[fold[e.arg]], e.negated)
      BY <2>2, <3>1, EvalForms, Forms
    <3>3. value[fold[e.arg]] = value[e.arg]
      BY <2>3, <2>5, PartsOf
    <3> QED BY <2>5, <3>2, <3>3, EvalForms
  <2>6. CASE e.e = "like"
    <3>1. fold[e] = Like(fold[e.arg], fold[e.pattern], e.negated)
      BY <2>2, <2>6 DEF FoldOf, FoldNode
    <3>2. value[fold[e]] = EvalLike(value[fold[e.arg]], value[fold[e.pattern]], e.negated)
      BY <2>2, <3>1, EvalForms, Forms
    <3>3. value[fold[e.arg]] = value[e.arg] /\ value[fold[e.pattern]] = value[e.pattern]
      BY <2>3, <2>6, PartsOf
    <3> QED BY <2>6, <3>2, <3>3, EvalForms
  <2>7. CASE e.e \notin {"binary", "isnull", "like"}
    BY <2>2, <2>7 DEF FoldOf, FoldNode
  <2> QED BY <2>4, <2>5, <2>6, <2>7
<1>2. \A e \in S : (\A x \in S : rank[x] < rank[e] => x \in P) => e \in P
  BY <1>1
<1>3. rank \in [S -> Nat]
  BY DEF Expressions
<1> HIDE DEF P
<1>4. S \subseteq P
  BY <1>2, <1>3, RankInduction
<1> QED BY <1>4 DEF P

(***************************************************************************)
(* Compiled predicates.                                                    *)
(***************************************************************************)

\* The columns of a row set have names of their own, and the values of each,
\* NULLs apart, one kind: that of the table's column (column.rs:28).
TypedRows(columns, rows) ==
    /\ columns \in Seq(Range(columns)) /\ rows \in Seq(Range(rows))
    /\ \A i, j \in DOMAIN columns : columns[i] = columns[j] => i = j
    /\ \A k \in DOMAIN rows, i \in DOMAIN columns : rows[k][i] \in Values
    /\ \A k, m \in DOMAIN rows, i \in DOMAIN columns :
          rows[k][i] = Null \/ rows[m][i] = Null \/ rows[k][i].kind = rows[m][i].kind

\* The position of a name.
LEMMA ColumnAt ==
  ASSUME NEW columns, columns \in Seq(Range(columns)), NEW name
  PROVE  /\ \A i \in DOMAIN columns :
               /\ columns[i] = name
               /\ \A j \in DOMAIN columns : columns[i] = columns[j] => i = j
               => ColumnIndex(columns, name) = i
         /\ ColumnIndex(columns, name) # 0 => /\ ColumnIndex(columns, name) \in DOMAIN columns
                                              /\ columns[ColumnIndex(columns, name)] = name
<1> DEFINE I == {i \in 1..Len(columns) : columns[i] = name}
<1>1. ColumnIndex(columns, name) = IF I # {} THEN Min(I) ELSE 0
  BY DEF ColumnIndex, SelectInSeq
<1>2. DOMAIN columns = 1..Len(columns) /\ I \in SUBSET Nat
  OBVIOUS
<1>3. I # {} => Min(I) \in I
  <2> SUFFICES ASSUME I # {} PROVE Min(I) \in I
    OBVIOUS
  <2>1. PICK n \in I : \A m \in I : n <= m
    BY <1>2, LeastNumber
  <2> QED BY <2>1 DEF Min
<1>4. ASSUME NEW i \in DOMAIN columns, columns[i] = name,
             \A j \in DOMAIN columns : columns[i] = columns[j] => i = j
      PROVE  ColumnIndex(columns, name) = i
  <2>1. i \in I /\ \A j \in I : j = i
    BY <1>2, <1>4
  <2> QED BY <1>1, <1>3, <2>1
<1> QED BY <1>1, <1>2, <1>3, <1>4

\* A column that the code can read is where the interpreter looks for it, and
\* its value in any row is NULL or of the kind of the first row's.
LEMMA TrackedColumn ==
  ASSUME NEW columns, NEW rows, TypedRows(columns, rows), NEW name \in DOMAIN Tracked(columns, rows),
         NEW k \in DOMAIN rows
  PROVE  LET t == Tracked(columns, rows)[name]
         IN  /\ t.at = ColumnIndex(columns, name) /\ t.at # 0
             /\ t.kind \in Numeric
             /\ rows[k][t.at] \in Values
             /\ rows[k][t.at] = Null \/ rows[k][t.at].kind = t.kind
<1> DEFINE numeric == {i \in DOMAIN columns : rows # <<>> /\ rows[1][i].kind \in Numeric}
           last(n) == CHOOSE i \in numeric :
                         columns[i] = n /\ \A j \in numeric : columns[j] = n => j <= i
<1>1. Tracked(columns, rows) = [n \in {columns[i] : i \in numeric} |->
                                  [at |-> last(n), kind |-> rows[1][last(n)].kind]]
  BY DEF Tracked
<1>2. PICK i \in numeric : columns[i] = name
  BY <1>1
<1>3. DOMAIN columns \subseteq Nat
  BY DEF TypedRows
<1>4. \A j \in numeric : columns[j] = name => j = i
  BY <1>2 DEF TypedRows
<1>5. last(name) = i
  <2>1. columns[i] = name /\ \A j \in numeric : columns[j] = name => j <= i
    BY <1>2, <1>3, <1>4
  <2> QED BY <1>2, <1>4, <2>1
<1>6. Tracked(columns, rows)[name] = [at |-> i, kind |-> rows[1][i].kind]
  <2>1. name \in {columns[j] : j \in numeric}
    BY <1>2
  <2> HIDE DEF last, numeric
  <2> QED BY <1>1, <1>5, <2>1
<1>7. i \in DOMAIN columns /\ rows[1][i].kind \in Numeric /\ i # 0
  BY <1>2 DEF TypedRows
<1>8. ColumnIndex(columns, name) = i
  BY <1>2, <1>7, ColumnAt DEF TypedRows
<1>9. 1 \in DOMAIN rows
  BY DEF TypedRows
<1>10. rows[1][i] # Null
  BY <1>7 DEF Null, Val, Numeric
<1>11. rows[k][i] \in Values /\ (rows[k][i] = Null \/ rows[k][i].kind = rows[1][i].kind)
  BY <1>7, <1>9, <1>10 DEF TypedRows
<1> QED BY <1>6, <1>7, <1>8, <1>11

\* The bits the code loads for a column or a literal are those of its value.
Loaded(value, kind, load) ==
    /\ value \in Values
    /\ value = Null => load.null = 1
    /\ value # Null => /\ load.null = 0 /\ load.bits = value.v
                       /\ kind = "int" => value.kind \in {"int", "bool"}
                       /\ kind # "int" => value.kind = "float"
LEMMA Loads ==
  ASSUME NEW S, NEW rank, Expressions(S, rank), NEW columns, NEW rows, TypedRows(columns, rows),
         NEW k \in DOMAIN rows, NEW value, Evaluates(value, S, columns, rows[k]),
         NEW e \in S, LoadKind(e, Tracked(columns, rows)) # "none"
  PROVE  Loaded(value[e], LoadKind(e, Tracked(columns, rows)), Load(e, Tracked(columns, rows), rows[k]))
<1> DEFINE tracked == Tracked(columns, rows)
<1>1. CASE e.e = "column"
  <2>1. e.name \in DOMAIN tracked /\ LoadKind(e, tracked) = tracked[e.name].kind
    BY <1>1 DEF LoadKind
  <2> DEFINE t == tracked[e.name]
             v == rows[k][t.at]
  <2>2. /\ t.at = ColumnIndex(columns, e.name) /\ t.at # 0 /\ t.kind \in Numeric
        /\ v \in Values /\ (v = Null \/ v.kind = t.kind)
    BY <2>1, TrackedColumn
  <2>3. value[e] = v
    BY <1>1, <2>2, EvalForms
  <2>4. Load(e, tracked, rows[k]) = [null |-> IF v = Null THEN 1 ELSE 0,
                                     bits |-> IF v # Null /\ v.kind = t.kind THEN v.v ELSE <<0>>]
    BY <1>1 DEF Load
  <2> HIDE DEF v
  <2>5. CASE v = Null
    <3>1. Load(e, tracked, rows[k]).null = 1
      BY <2>4, <2>5
    <3> QED BY <2>2, <2>3, <2>5, <3>1 DEF Loaded
  <2>6. CASE v # Null
    <3>1. Load(e, tracked, rows[k]).null = 0 /\ Load(e, tracked, rows[k]).bits = v.v
      BY <2>2, <2>4, <2>6
    <3>2. /\ LoadKind(e, tracked) = "int" => v.kind \in {"int", "bool"}
          /\ LoadKind(e, tracked) # "int" => v.kind = "float"
      BY <2>1, <2>2, <2>6 DEF Numeric
    <3> QED BY <2>2, <2>3, <2>6, <3>1, <3>2 DEF Loaded
  <2> QED BY <2>5, <2>6
<1>2. CASE e.e = "literal"
  <2>1. value[e] = e.value /\ e.value \in Values
    BY <1>2, EvalForms, Shapes DEF Expressions
  <2>2. Load(e, tracked, rows[k]) = [null |-> IF e.value = Null THEN 1 ELSE 0,
                                     bits |-> IF e.value # Null THEN e.value.v ELSE <<0>>]
    BY <1>2 DEF Load
  <2>3. LoadKind(e, tracked) = CASE e.value.kind \in {"int", "bool", "null"} -> "int"
                                 [] e.value.kind = "float" -> "float"
                                 [] OTHER -> "none"
    BY <1>2 DEF LoadKind
  <2>4. e.value.kind = "null" <=> e.value = Null
    BY <2>1, ValueFacts
  <2>5. CASE e.value = Null
    <3>1. Load(e, tracked, rows[k]).null = 1
      BY <2>2, <2>5
    <3> QED BY <2>1, <2>5, <3>1 DEF Loaded
  <2>6. CASE e.value # Null
    <3>1. Load(e, tracked, rows[k]).null = 0 /\ Load(e, tracked, rows[k]).bits = e.value.v
      BY <2>2, <2>6
    <3>2. /\ LoadKind(e, tracked) = "int" => e.value.kind \in {"int", "bool"}
          /\ LoadKind(e, tracked) # "int" => e.value.kind = "float"
      BY <2>3, <2>4, <2>6
    <3> QED BY <2>1, <2>6, <3>1, <3>2 DEF Loaded
  <2> QED BY <2>5, <2>6
<1> QED BY <1>1, <1>2 DEF LoadKind

\* Whether the result of the code is that of the interpreter.
Tri(value) == IF value = True THEN TriTrue ELSE IF value = False THEN TriFalse ELSE TriNull
Agrees(value, code) == Fails(value) \/ (value \in Truths /\ code = Tri(value))

\* A comparison of two loaded values.
LEMMA CompareAgrees ==
  ASSUME NEW l, NEW r, NEW op \in Comparisons, NEW kind, NEW ll, NEW lr,
         Loaded(l, kind, ll), Loaded(r, kind, lr)
  PROVE  Agrees(EvalBinaryOp(l, op, r), TristateCompare(ll, op, lr))
<1>1. ~Fails(l) /\ ~Fails(r) /\ op \notin {"AND", "OR", "+"}
  BY ValueFacts DEF Loaded, Comparisons
<1>2. CASE l = Null \/ r = Null
  <2>1. EvalBinaryOp(l, op, r) = Null
    BY <1>1, <1>2 DEF EvalBinaryOp, WithNull
  <2>2. TristateCompare(ll, op, lr) = TriNull
    BY <1>2 DEF Loaded, TristateCompare
  <2> QED BY <2>1, <2>2, ValueFacts DEF Agrees, Truths, Tri
<1>3. CASE l # Null /\ r # Null
  <2>1. TristateCompare(ll, op, lr) = IF Holds(l.v, op, r.v) THEN TriTrue ELSE TriFalse
    BY <1>3 DEF Loaded, TristateCompare
  <2>2. CASE l.kind = r.kind /\ (op \in {"=", "<>"} \/ l.kind # "bool")
    <3>1. EvalBinaryOp(l, op, r) = BoolVal(Holds(l.v, op, r.v))
      BY <1>1, <1>3, <2>2 DEF EvalBinaryOp, SameKind
    <3>2. CASE Holds(l.v, op, r.v)
      <4>1. EvalBinaryOp(l, op, r) = True
        BY <3>1, <3>2 DEF BoolVal, True
      <4> QED BY <2>1, <3>2, <4>1, ValueFacts DEF Agrees, Truths, Tri
    <3>3. CASE ~Holds(l.v, op, r.v)
      <4>1. EvalBinaryOp(l, op, r) = False
        BY <3>1, <3>3 DEF BoolVal, False
      <4> QED BY <2>1, <3>3, <4>1, ValueFacts DEF Agrees, Truths, Tri
    <3> QED BY <3>2, <3>3
  <2>3. CASE ~(l.kind = r.kind /\ (op \in {"=", "<>"} \/ l.kind # "bool"))
    <3>1. EvalBinaryOp(l, op, r) = Val("TypeMismatch", <<>>)
      BY <1>1, <1>3, <2>3 DEF EvalBinaryOp, SameKind, Comparisons
    <3> QED BY <3>1 DEF Agrees, Fails, Errors, Val
  <2> QED BY <2>2, <2>3
<1> QED BY <1>2, <1>3

\* AND and OR of two results.
LEMMA JunctionAgrees ==
  ASSUME NEW l, NEW r, NEW cl, NEW cr, Agrees(l, cl), Agrees(r, cr)
  PROVE  /\ Agrees(EvalBinaryOp(l, "AND", r), TristateAnd(cl, cr))
         /\ Agrees(EvalBinaryOp(l, "OR", r), TristateOr(cl, cr))
<1>1. CASE Fails(l) \/ Fails(r)
  BY <1>1 DEF Agrees, EvalBinaryOp
<1>2. CASE ~Fails(l) /\ ~Fails(r)
  <2>1. l \in Truths /\ r \in Truths /\ cl = Tri(l) /\ cr = Tri(r)
    BY <1>2 DEF Agrees
  <2>2. True # False /\ Null # True /\ Null # False
    BY ValueFacts
  <2>3. True.kind = "bool" /\ False.kind = "bool"
    BY DEF True, False, BoolVal, Val
  <2>4. EvalBinaryOp(l, "AND", r) = IF False \in {l, r} THEN False
                                    ELSE IF Null \in {l, r} THEN Null ELSE True
    BY <1>2, <2>1, <2>2, <2>3 DEF EvalBinaryOp, WithNull, SameKind, Truths, Comparisons
  <2>5. EvalBinaryOp(l, "OR", r) = IF True \in {l, r} THEN True
                                   ELSE IF Null \in {l, r} THEN Null ELSE False
    BY <1>2, <2>1, <2>2, <2>3 DEF EvalBinaryOp, WithNull, SameKind, Truths, Comparisons
  <2> QED BY <2>1, <2>2, <2>4, <2>5
          DEF Agrees, Truths, Tri, TristateAnd, TristateOr, TriTrue, TriFalse, TriNull
<1> QED BY <1>1, <1>2

\* The machine code of a predicate keeps a row exactly if the interpreter would,
\* NULLs in any place, unless the interpreter fails (jit lib.rs:152, filter.rs:36).
THEOREM CompiledCodeAgrees ==
  ASSUME NEW S, NEW rank, Expressions(S, rank), NEW columns, NEW rows, TypedRows(columns, rows),
         NEW k \in DOMAIN rows, NEW value, Evaluates(value, S, columns, rows[k]),
         NEW compiles, Accepts(compiles, S, Tracked(columns, rows)),
         NEW code, Runs(code, S, Tracked(columns, rows), rows[k])
  PROVE  \A e \in S : compiles[e] => \/ Fails(value[e])
                                     \/ value[e] \in Truths /\ (code[e] = TriTrue <=> value[e] = True)
<1> DEFINE tracked == Tracked(columns, rows)
           P == {e \in S : compiles[e] => Agrees(value[e], code[e])}
<1>1. ASSUME NEW e \in S, \A x \in S : rank[x] < rank[e] => x \in P, compiles[e]
      PROVE  Agrees(value[e], code[e])
  <2>1. IsExpr(e)
    BY DEF Expressions
  <2>2. CompilesOf(e, tracked, compiles)
    BY <1>1 DEF Accepts
  <2>3. code[e] = CompiledOf(e, tracked, rows[k], code)
    BY DEF Runs
  <2>4. \A x \in S : rank[x] < rank[e] /\ compiles[x] => Agrees(value[x], code[x])
    BY <1>1
  <2> HIDE DEF tracked, P
  <2>5. CASE e.e = "isnull"
    <3>1. LoadKind(e.arg, tracked) # "none" /\ e.arg \in S /\ e.negated \in BOOLEAN
      BY <2>1, <2>2, <2>5, PartsOf, Shapes DEF CompilesOf, CompilesNode
    <3>2. Loaded(value[e.arg], LoadKind(e.arg, tracked), Load(e.arg, tracked, rows[k]))
      BY <3>1, Loads DEF tracked
    <3>3. value[e] = EvalIsNull(value[e.arg], e.negated)
      BY <2>5, EvalForms
    <3>4. code[e] = IF (Load(e.arg, tracked, rows[k]).null = 1) # e.negated THEN TriTrue ELSE TriFalse
      BY <2>3, <2>5 DEF CompiledOf, CompiledNode
    <3>5. value[e] = BoolVal((value[e.arg] = Null) # e.negated)
      BY <3>2, <3>3, ValueFacts DEF EvalIsNull, Loaded
    <3>6. CASE value[e.arg] = Null
      <4>1. Load(e.arg, tracked, rows[k]).null = 1
        BY <3>2, <3>6 DEF Loaded
      <4>2. e.negated = TRUE \/ e.negated = FALSE
        BY <3>1
      <4> QED BY <3>4, <3>5, <3>6, <4>1, <4>2, ValueFacts DEF Agrees, Truths, Tri, BoolVal, True, False
    <3>7. CASE value[e.arg] # Null
      <4>1. Load(e.arg, tracked, rows[k]).null = 0
        BY <3>2, <3>7 DEF Loaded
      <4>2. e.negated = TRUE \/ e.negated = FALSE
        BY <3>1
      <4> QED BY <3>4, <3>5, <3>7, <4>1, <4>2, ValueFacts DEF Agrees, Truths, Tri, BoolVal, True, False
    <3> QED BY <3>6, <3>7
  <2>6. CASE e.e = "binary" /\ e.op \in {"AND", "OR"}
    <3>1. compiles[e.left] /\ compiles[e.right]
      BY <2>2, <2>6 DEF CompilesOf, CompilesNode, Comparisons
    <3>2. Agrees(value[e.left], code[e.left]) /\ Agrees(value[e.right], code[e.right])
      BY <2>4, <2>6, <3>1, PartsOf
    <3>3. value[e] = EvalBinaryOp(value[e.left], e.op, value[e.right])
      BY <2>6, EvalForms
    <3>4. /\ e.op = "AND" => code[e] = TristateAnd(code[e.left], code[e.right])
          /\ e.op = "OR" => code[e] = TristateOr(code[e.left], code[e.right])
      BY <2>3, <2>6 DEF CompiledOf, CompiledNode
    <3> QED BY <2>6, <3>2, <3>3, <3>4, JunctionAgrees
  <2>7. CASE e.e = "binary" /\ e.op \in Comparisons
    <3>1. e.op \notin {"AND", "OR"}
      BY <2>7 DEF Comparisons
    <3>2. LoadKind(e.left, tracked) # "none" /\ LoadKind(e.right, tracked) = LoadKind(e.left, tracked)
      BY <2>2, <2>7, <3>1 DEF CompilesOf, CompilesNode
    <3>3. e.left \in S /\ e.right \in S
      BY <2>7, PartsOf
    <3>4. /\ Loaded(value[e.left], LoadKind(e.left, tracked), Load(e.left, tracked, rows[k]))
          /\ Loaded(value[e.right], LoadKind(e.left, tracked), Load(e.right, tracked, rows[k]))
      BY <3>2, <3>3, Loads DEF tracked
    <3>5. value[e] = EvalBinaryOp(value[e.left], e.op, value[e.right])
      BY <2>7, EvalForms
    <3>6. code[e] = TristateCompare(Load(e.left, tracked, rows[k]), e.op, Load(e.right, tracked, rows[k]))
      BY <2>3, <2>7, <3>1 DEF CompiledOf, CompiledNode
    <3> QED BY <2>7, <3>4, <3>5, <3>6, CompareAgrees
  <2> QED BY <2>2, <2>5, <2>6, <2>7 DEF CompilesOf, CompilesNode
<1>2. \A e \in S : (\A x \in S : rank[x] < rank[e] => x \in P) => e \in P
  BY <1>1
<1>3. rank \in [S -> Nat]
  BY DEF Expressions
<1> HIDE DEF P
<1>4. S \subseteq P
  BY <1>2, <1>3, RankInduction
<1>5. \A e \in S : compiles[e] => Agrees(value[e], code[e])
  BY <1>4 DEF P
<1> QED BY <1>5, ValueFacts DEF Agrees, Truths, Tri, TriTrue, TriFalse, TriNull

(***************************************************************************)
(* LIKE.                                                                   *)
(***************************************************************************)

\* A piece of the text for one character of the pattern, and the cuts of what
\* is left of both.
Piece(text, c, a, b) ==
    IF c = Percent THEN a <= b ELSE b = a + 1 /\ (c = Underscore \/ c = text[b])
Rest(text, pattern, ti, pi) ==
    \E cut \in [pi..Len(pattern) -> 0..Len(text)] :
        /\ cut[pi] = ti /\ cut[Len(pattern)] = Len(text)
        /\ \A i \in pi+1..Len(pattern) : Piece(text, pattern[i], cut[i-1], cut[i])

\* The cuts of a rest begin with one piece.
LEMMA RestStep ==
  ASSUME NEW text \in Seq(Nat), NEW pattern \in Seq(Nat), NEW ti \in 0..Len(text),
         NEW pi \in 0..Len(pattern), pi # Len(pattern)
  PROVE  Rest(text, pattern, ti, pi)
           <=> \E b \in 0..Len(text) : Piece(text, pattern[pi + 1], ti, b) /\ Rest(text, pattern, b, pi + 1)
<1> DEFINE L == Len(pattern)
           T == Len(text)
<1>0. L \in Nat /\ T \in Nat /\ pi \in Nat /\ pi < L /\ pi + 1 \in pi + 1..L /\ pi + 1 \in pi..L
  OBVIOUS
<1>1. ASSUME Rest(text, pattern, ti, pi)
      PROVE  \E b \in 0..T : Piece(text, pattern[pi + 1], ti, b) /\ Rest(text, pattern, b, pi + 1)
  <2>1. PICK cut \in [pi..L -> 0..T] :
               /\ cut[pi] = ti /\ cut[L] = T
               /\ \A i \in pi + 1..L : Piece(text, pattern[i], cut[i - 1], cut[i])
    BY <1>1 DEF Rest
  <2> DEFINE rest == [i \in pi + 1..L |-> cut[i]]
  <2>2. rest \in [pi + 1..L -> 0..T] /\ \A i \in pi + 1..L : rest[i] = cut[i]
    BY <1>0
  <2> HIDE DEF rest
  <2>3. rest[pi + 1] = cut[pi + 1] /\ rest[L] = T
    BY <1>0, <2>1, <2>2
  <2>4. ASSUME NEW i \in (pi + 1) + 1..L PROVE Piece(text, pattern[i], rest[i - 1], rest[i])
    <3>1. i \in pi + 1..L /\ i - 1 \in pi + 1..L
      BY <1>0
    <3>2. rest[i] = cut[i] /\ rest[i - 1] = cut[i - 1]
      BY <2>2, <3>1
    <3> QED BY <2>1, <3>1, <3>2
  <2>5. Rest(text, pattern, cut[pi + 1], pi + 1)
    BY <2>2, <2>3, <2>4 DEF Rest
  <2>6. Piece(text, pattern[pi + 1], ti, cut[pi + 1])
    <3>1. (pi + 1) - 1 = pi
      BY <1>0
    <3> QED BY <1>0, <2>1, <3>1
  <2>7. cut[pi + 1] \in 0..T
    BY <1>0
  <2> QED BY <2>5, <2>6, <2>7
<1>2. ASSUME NEW b \in 0..T, Piece(text, pattern[pi + 1], ti, b), Rest(text, pattern, b, pi + 1)
      PROVE  Rest(text, pattern, ti, pi)
  <2>1. PICK rest \in [pi + 1..L -> 0..T] :
               /\ rest[pi + 1] = b /\ rest[L] = T
               /\ \A i \in (pi + 1) + 1..L : Piece(text, pattern[i], rest[i - 1], rest[i])
    BY <1>2 DEF Rest
  <2> DEFINE cut == [i \in pi..L |-> IF i = pi THEN ti ELSE rest[i]]
  <2>2. cut \in [pi..L -> 0..T]
    <3>1. \A i \in pi..L : i # pi => i \in pi + 1..L
      BY <1>0
    <3> QED BY <3>1
  <2>3. cut[pi] = ti /\ \A i \in pi + 1..L : cut[i] = rest[i]
    BY <1>0
  <2> HIDE DEF cut
  <2>4. cut[L] = T /\ cut[pi + 1] = b
    <3>1. L \in pi + 1..L
      BY <1>0
    <3> QED BY <1>0, <2>1, <2>3, <3>1
  <2>5. ASSUME NEW i \in pi + 1..L PROVE Piece(text, pattern[i], cut[i - 1], cut[i])
    <3>1. CASE i = pi + 1
      <4>1. i - 1 = pi
        BY <1>0, <3>1
      <4> QED BY <1>2, <2>3, <2>4, <3>1, <4>1
    <3>2. CASE i # pi + 1
      <4>1. i \in (pi + 1) + 1..L /\ i - 1 \in pi + 1..L
        BY <1>0, <3>2
      <4>2. cut[i] = rest[i] /\ cut[i - 1] = rest[i - 1]
        BY <2>3, <4>1
      <4> QED BY <2>1, <4>1, <4>2
    <3> QED BY <3>1, <3>2
  <2> QED BY <2>2, <2>3, <2>4, <2>5 DEF Rest
<1> QED BY <1>1, <1>2

\* The cases of like_match_from.
LEMMA RestCases ==
  ASSUME NEW text \in Seq(Nat), NEW pattern \in Seq(Nat), NEW ti \in 0..Len(text),
         NEW pi \in 0..Len(pattern)
  PROVE  /\ pi = Len(pattern) => (Rest(text, pattern, ti, pi) <=> ti = Len(text))
         /\ pi # Len(pattern) /\ pattern[pi + 1] = Percent =>
               (Rest(text, pattern, ti, pi) <=>
                   \/ Rest(text, pattern, ti, pi + 1)
                   \/ ti < Len(text) /\ Rest(text, pattern, ti + 1, pi))
         /\ pi # Len(pattern) /\ pattern[pi + 1] # Percent =>
               (Rest(text, pattern, ti, pi) <=>
                   /\ ti < Len(text) /\ pattern[pi + 1] \in {Underscore, text[ti + 1]}
                   /\ Rest(text, pattern, ti + 1, pi + 1))
<1> DEFINE L == Len(pattern)
           T == Len(text)
           c == pattern[pi + 1]
<1>0. L \in Nat /\ T \in Nat /\ pi \in Nat /\ ti \in Nat
  OBVIOUS
<1>1. ASSUME pi = L PROVE Rest(text, pattern, ti, pi) <=> ti = T
  <2>1. Rest(text, pattern, ti, pi) => ti = T
    BY <1>1 DEF Rest
  <2>2. ASSUME ti = T PROVE Rest(text, pattern, ti, pi)
    <3> DEFINE cut == [i \in pi..L |-> T]
    <3>1. cut \in [pi..L -> 0..T] /\ cut[pi] = T /\ cut[L] = T /\ pi + 1..L = {}
      BY <1>0, <1>1
    <3> HIDE DEF cut
    <3> QED BY <2>2, <3>1 DEF Rest
  <2> QED BY <2>1, <2>2
<1>2. ASSUME pi # L, c = Percent
      PROVE  Rest(text, pattern, ti, pi) <=>
                \/ Rest(text, pattern, ti, pi + 1)
                \/ ti < T /\ Rest(text, pattern, ti + 1, pi)
  <2>1. \A t \in 0..T : Rest(text, pattern, t, pi)
                           <=> \E b \in 0..T : t <= b /\ Rest(text, pattern, b, pi + 1)
    BY <1>2, RestStep DEF Piece
  <2>2. ti < T => ti + 1 \in 0..T
    BY <1>0
  <2>3. \A b \in 0..T : ti <= b <=> b = ti \/ (ti < T /\ ti + 1 <= b)
    BY <1>0
  <2> QED BY <2>1, <2>2, <2>3
<1>3. ASSUME pi # L, c # Percent
      PROVE  Rest(text, pattern, ti, pi) <=>
                /\ ti < T /\ c \in {Underscore, text[ti + 1]}
                /\ Rest(text, pattern, ti + 1, pi + 1)
  <2>1. Rest(text, pattern, ti, pi)
          <=> \E b \in 0..T : Piece(text, c, ti, b) /\ Rest(text, pattern, b, pi + 1)
    BY <1>3, RestStep
  <2>2. \A b \in 0..T : Piece(text, c, ti, b) <=> b = ti + 1 /\ c \in {Underscore, text[ti + 1]}
    BY <1>3 DEF Piece
  <2>3. ti < T <=> ti + 1 \in 0..T
    BY <1>0
  <2> QED BY <2>1, <2>2, <2>3
<1> QED BY <1>1, <1>2, <1>3

\* like_match finds a match exactly if the text can be cut into pieces for the
\* characters of the pattern, although it tries only the two ends of what a %
\* may stand for (eval.rs:183).
THEOREM LikeIsMatching ==
  ASSUME NEW text \in Seq(Nat), NEW pattern \in Seq(Nat)
  PROVE  LikeMatch(text, pattern) = Matches(text, pattern)
<1> DEFINE L == Len(pattern)
           T == Len(text)
           D == (0..T) \X (0..L)
           Is(f) == f = [at \in D |->
                           IF at[2] = L THEN at[1] = T
                           ELSE IF pattern[at[2] + 1] = Percent
                           THEN f[<<at[1], at[2] + 1>>] \/ (at[1] < T /\ f[<<at[1] + 1, at[2]>>])
                           ELSE /\ at[1] < T
                                /\ pattern[at[2] + 1] \in {Underscore, text[at[1] + 1]}
                                /\ f[<<at[1] + 1, at[2] + 1>>]]
           Step(f, ti, pi) ==
                IF pi = L THEN ti = T
                ELSE IF pattern[pi + 1] = Percent
                THEN f[<<ti, pi + 1>>] \/ (ti < T /\ f[<<ti + 1, pi>>])
                ELSE /\ ti < T
                     /\ pattern[pi + 1] \in {Underscore, text[ti + 1]}
                     /\ f[<<ti + 1, pi + 1>>]
           g == [at \in D |-> Rest(text, pattern, at[1], at[2])]
<1>0. /\ L \in Nat /\ T \in Nat
      /\ \A at \in D : at[1] \in 0..T /\ at[2] \in 0..L /\ at = <<at[1], at[2]>>
  OBVIOUS
<1>1. \A ti \in 0..T, pi \in 0..L : g[<<ti, pi>>] = Rest(text, pattern, ti, pi)
  OBVIOUS
<1>2. ASSUME NEW ti \in 0..T, NEW pi \in 0..L
      PROVE  Rest(text, pattern, ti, pi) = Step(g, ti, pi)
  <2>1. pi # L => pi + 1 \in 0..L
    BY <1>0
  <2>2. ti < T => ti + 1 \in 0..T
    BY <1>0
  <2>3. Rest(text, pattern, ti, pi) \in BOOLEAN
    BY DEF Rest
  <2> HIDE DEF g
  <2>4. CASE pi = L
    BY <2>3, <2>4, RestCases
  <2>5. CASE pi # L /\ pattern[pi + 1] = Percent
    BY <1>1, <2>1, <2>2, <2>3, <2>5, RestCases
  <2>6. CASE pi # L /\ pattern[pi + 1] # Percent
    <3>1. Rest(text, pattern, ti, pi) <=> /\ ti < T /\ pattern[pi + 1] \in {Underscore, text[ti + 1]}
                                          /\ Rest(text, pattern, ti + 1, pi + 1)
      BY <2>6, RestCases
    <3>2. ti < T => g[<<ti + 1, pi + 1>>] = Rest(text, pattern, ti + 1, pi + 1)
      BY <1>1, <2>1, <2>2, <2>6
    <3>3. Step(g, ti, pi) <=> /\ ti < T /\ pattern[pi + 1] \in {Underscore, text[ti + 1]}
                              /\ g[<<ti + 1, pi + 1>>]
      BY <2>6
    <3>4. Step(g, ti, pi) \in BOOLEAN
      BY <2>6
    <3> HIDE DEF Step
    <3> QED BY <2>3, <3>1, <3>2, <3>3, <3>4
  <2> QED BY <2>4, <2>5, <2>6
<1>3. Is(g)
  <2>1. \A at \in D : Rest(text, pattern, at[1], at[2]) = Step(g, at[1], at[2])
    BY <1>0, <1>2
  <2>2. g = [at \in D |-> Step(g, at[1], at[2])]
    <3> HIDE DEF Step
    <3> QED BY <2>1
  <2> HIDE DEF g
  <2> QED BY <2>2
<1>4. ASSUME NEW f, Is(f) PROVE \A at \in D : f[at] = g[at]
  <2> DEFINE rank == [at \in D |-> (T - at[1]) + (L - at[2])]
             P == {at \in D : f[at] = g[at]}
  <2>1. rank \in [D -> Nat]
    BY <1>0
  <2>2. ASSUME NEW h, Is(h), NEW at \in D PROVE h[at] = Step(h, at[1], at[2])
    BY <2>2
  <2>3. ASSUME NEW at \in D, \A x \in D : rank[x] < rank[at] => x \in P PROVE at \in P
    <3>0. at[1] \in 0..T /\ at[2] \in 0..L
      BY <1>0
    <3>1. ASSUME NEW ti \in 0..T, NEW pi \in 0..L, at[1] + at[2] < ti + pi PROVE <<ti, pi>> \in P
      <4>1. <<ti, pi>> \in D
        OBVIOUS
      <4>2. rank[<<ti, pi>>] = (T - ti) + (L - pi) /\ rank[at] = (T - at[1]) + (L - at[2])
        BY <4>1
      <4>3. (T - ti) + (L - pi) < (T - at[1]) + (L - at[2])
        <5>1. at[1] \in Int /\ at[2] \in Int /\ ti \in Int /\ pi \in Int
          BY <1>0
        <5> QED BY <1>0, <3>1, <5>1
      <4> HIDE DEF rank, P, D
      <4> QED BY <2>3, <4>1, <4>2, <4>3
    <3>2. at[2] # L => <<at[1], at[2] + 1>> \in P
      <4>1. at[2] # L => at[2] + 1 \in 0..L /\ at[1] + at[2] < at[1] + (at[2] + 1)
        BY <1>0, <3>0
      <4> HIDE DEF P
      <4> QED BY <3>0, <3>1, <4>1
    <3>3. at[1] < T => <<at[1] + 1, at[2]>> \in P
      <4>1. at[1] < T => at[1] + 1 \in 0..T /\ at[1] + at[2] < (at[1] + 1) + at[2]
        BY <1>0, <3>0
      <4> HIDE DEF P
      <4> QED BY <3>0, <3>1, <4>1
    <3>4. at[1] < T /\ at[2] # L => <<at[1] + 1, at[2] + 1>> \in P
      <4>1. at[1] < T /\ at[2] # L => /\ at[1] + 1 \in 0..T /\ at[2] + 1 \in 0..L
                                    /\ at[1] + at[2] < (at[1] + 1) + (at[2] + 1)
        BY <1>0, <3>0
      <4> HIDE DEF P
      <4> QED BY <3>1, <4>1
    <3>5. Step(f, at[1], at[2]) = Step(g, at[1], at[2])
      <4> HIDE DEF g
      <4> QED BY <3>2, <3>3, <3>4
    <3>6. f[at] = Step(f, at[1], at[2]) /\ g[at] = Step(g, at[1], at[2])
      BY <1>3, <1>4, <2>2
    <3> QED BY <3>5, <3>6
  <2> HIDE DEF D, P, rank
  <2>4. D \subseteq P
    BY <2>1, <2>3, RankInduction
  <2> QED BY <2>4 DEF P
<1>5. LikeMatch(text, pattern) = (CHOOSE f : Is(f))[<<0, 0>>]
  BY DEF LikeMatch
<1>6. LikeMatch(text, pattern) = Rest(text, pattern, 0, 0)
  <2>1. <<0, 0>> \in D
    BY <1>0
  <2>2. g[<<0, 0>>] = Rest(text, pattern, 0, 0)
    BY <1>0, <1>1
  <2> HIDE DEF Is, g, D
  <2>3. Is(CHOOSE f : Is(f))
    BY <1>3
  <2> QED BY <1>4, <1>5, <2>1, <2>2, <2>3
<1>7. Rest(text, pattern, 0, 0) = Matches(text, pattern)
  <2>1. DOMAIN pattern = 0 + 1..L
    OBVIOUS
  <2>2. Rest(text, pattern, 0, 0) <=> Matches(text, pattern)
    BY <2>1 DEF Rest, Matches, Piece
  <2> QED BY <2>2 DEF Rest, Matches
<1> QED BY <1>6, <1>7

(***************************************************************************)
(* Lowering.                                                               *)
(***************************************************************************)

\* An expression of SQL, and those below it.
IsSql(q) ==
    \/ IsExpr(q)
    \/ q = Not(q.arg)
    \/ q = InList(q.arg, q.list, q.negated) /\ q.list \in Seq(Range(q.list)) /\ q.negated \in BOOLEAN
    \/ q = Between(q.arg, q.low, q.high, q.negated) /\ q.negated \in BOOLEAN
    \/ q = Nested(q.arg)
    \/ q = Func(q.func, q.column)
SqlParts(q) ==
    CASE q.e \in {"not", "nested"} -> {q.arg}
      [] q.e = "in" -> {q.arg} \cup Range(q.list)
      [] q.e = "between" -> {q.arg, q.low, q.high}
      [] OTHER -> Parts(q)
Sentences(T, depth) ==
    /\ depth \in [T -> Nat]
    /\ \A q \in T : IsSql(q) /\ \A x \in SqlParts(q) : x \in T /\ depth[x] < depth[q]

\* The recursions of lower_expr, of types, and of the meaning of SQL.
Lowers(lowerable, lower, T, S) ==
    \A q \in T : /\ lowerable[q] = LowerableNode(q, LAMBDA x : lowerable[x])
                 /\ lowerable[q] => lower[q] \in S /\ lower[q] = LowerNode(q, LAMBDA x : lower[x])
Types(kind, T, schema) == \A q \in T : kind[q] = KindNode(q, schema, LAMBDA x : kind[x])
Means(meaning, T, env) == \A q \in T : meaning[q] = DenoteNode(q, env, LAMBDA x : meaning[x])

\* NULL is of every kind.
HasKind(value, kind) == value = Null \/ (value \in Values /\ value.kind = kind)

\* A row that has the columns of a schema.
Suits(env, schema) ==
    \A name \in DOMAIN schema :
        /\ schema[name] \in Kinds
        /\ ColumnIndex(env.columns, name) # 0
        /\ HasKind(env.row[ColumnIndex(env.columns, name)], schema[name])

\* No sum is out of the range of an i64.
SumsFit(meaning, T) ==
    \A q \in T : q.e = "binary" /\ q.op = "+" /\ meaning[q].kind = "int" =>
                    meaning[q].v[1] \in -(MaxInt + 1)..MaxInt

\* Any two kinds that are alike are one.
LEMMA AlikeAreOne ==
  ASSUME NEW K, IsFiniteSet(K), Alike(K), NEW k \in K, NEW l \in K, k # "any", l # "any"
  PROVE  k = l
<1> SUFFICES ASSUME k # l PROVE FALSE
  OBVIOUS
<1>1. IsFiniteSet(K \ {"any"}) /\ Cardinality(K \ {"any"}) \in Nat
  BY FS_Difference, FS_CardinalityType
<1>2. IsFiniteSet({k}) /\ Cardinality({k}) = 1
  BY FS_Singleton
<1>3. IsFiniteSet({k} \cup {l}) /\ Cardinality({k} \cup {l}) = 2
  BY <1>2, FS_AddElement
<1>4. {k} \cup {l} \subseteq K \ {"any"}
  OBVIOUS
<1>5. Cardinality({k} \cup {l}) <= Cardinality(K \ {"any"})
  BY <1>1, <1>4, FS_Subset
<1> QED BY <1>1, <1>3, <1>5 DEF Alike

\* The three truth values as numbers.
LEMMA TruthFacts ==
  /\ AsTruth(True) = 2 /\ AsTruth(False) = 0 /\ AsTruth(Null) = 1
  /\ AsValue(2) = True /\ AsValue(0) = False /\ AsValue(1) = Null
  /\ \A t \in 0..2 : AsValue(t) \in Truths /\ AsTruth(AsValue(t)) = t
  /\ \A v \in Truths : AsTruth(v) \in 0..2 /\ AsValue(AsTruth(v)) = v
<1>1. /\ AsTruth(True) = 2 /\ AsTruth(False) = 0 /\ AsTruth(Null) = 1
      /\ AsValue(2) = True /\ AsValue(0) = False /\ AsValue(1) = Null
  BY ValueFacts DEF AsTruth, AsValue, Unknown
<1>2. \A t \in 0..2 : t = 0 \/ t = 1 \/ t = 2
  OBVIOUS
<1> QED BY <1>1, <1>2 DEF Truths

\* AND, OR and `= FALSE` of truth values are the least, the greatest and the opposite.
LEMMA JunctionMeans ==
  ASSUME NEW l \in Truths, NEW r \in Truths
  PROVE  /\ EvalBinaryOp(l, "AND", r) = AsValue(IF AsTruth(l) < AsTruth(r) THEN AsTruth(l) ELSE AsTruth(r))
         /\ EvalBinaryOp(l, "OR", r) = AsValue(IF AsTruth(l) < AsTruth(r) THEN AsTruth(r) ELSE AsTruth(l))
         /\ EvalBinaryOp(l, "=", False) = AsValue(2 - AsTruth(l))
<1>0. l \in Values /\ r \in Values /\ False \in Values
  BY ValueFacts DEF Truths
<1>1. True # False /\ Null # True /\ Null # False /\ ~Fails(l) /\ ~Fails(r) /\ ~Fails(False)
  BY <1>0, ValueFacts
<1>2. True.kind = "bool" /\ False.kind = "bool" /\ True.v # False.v
  BY DEF True, False, BoolVal, Val
<1>3. EvalBinaryOp(l, "AND", r) = IF False \in {l, r} THEN False
                                  ELSE IF Null \in {l, r} THEN Null ELSE True
  BY <1>1, <1>2 DEF EvalBinaryOp, WithNull, SameKind, Truths, Comparisons
<1>4. EvalBinaryOp(l, "OR", r) = IF True \in {l, r} THEN True
                                 ELSE IF Null \in {l, r} THEN Null ELSE False
  BY <1>1, <1>2 DEF EvalBinaryOp, WithNull, SameKind, Truths, Comparisons
<1>5. EvalBinaryOp(l, "=", False) = IF l = Null THEN Null ELSE BoolVal(l.v = False.v)
  BY <1>1, <1>2 DEF EvalBinaryOp, WithNull, SameKind, Truths, Comparisons, Holds
<1>6. BoolVal(True.v = False.v) = False /\ BoolVal(False.v = False.v) = True
  BY <1>2 DEF BoolVal, True, False
<1> QED BY <1>1, <1>3, <1>4, <1>5, <1>6, TruthFacts DEF Truths

\* A comparison, by the rules of SQL.
Compared(l, op, r) == IF Null \in {l, r} THEN Unknown ELSE IF Holds(l.v, op, r.v) THEN 2 ELSE 0

\* Values of one kind compare as SQL says; booleans are only equal or not.
LEMMA ComparisonMeans ==
  ASSUME NEW l, NEW k, HasKind(l, k), NEW r, NEW m, HasKind(r, m),
         k = "any" \/ m = "any" \/ k = m, NEW op \in Comparisons,
         op \in {"=", "<>"} \/ (k # "bool" /\ m # "bool")
  PROVE  /\ EvalBinaryOp(l, op, r) = AsValue(Compared(l, op, r))
         /\ Compared(l, op, r) \in 0..2
<1>1. l \in Values /\ r \in Values
  BY ValueFacts DEF HasKind, Truths
<1>2. ~Fails(l) /\ ~Fails(r) /\ op \notin {"AND", "OR"}
  BY <1>1, ValueFacts DEF Comparisons
<1>3. CASE Null \in {l, r}
  <2>1. EvalBinaryOp(l, op, r) = Null
    BY <1>2, <1>3 DEF EvalBinaryOp, WithNull
  <2>2. Compared(l, op, r) = 1
    BY <1>3 DEF Compared, Unknown
  <2> QED BY <2>1, <2>2, TruthFacts
<1>4. CASE Null \notin {l, r}
  <2>1. l.kind = k /\ r.kind = m /\ k = m
    <3>1. l.kind = k /\ r.kind = m
      BY <1>4 DEF HasKind
    <3>2. l.kind # "any" /\ r.kind # "any"
      BY <1>1, ValueFacts DEF Kinds
    <3> QED BY <3>1, <3>2
  <2>2. EvalBinaryOp(l, op, r) = SameKind(l, op, r)
    BY <1>2, <1>4, <2>1 DEF EvalBinaryOp
  <2>3. SameKind(l, op, r) = BoolVal(Holds(l.v, op, r.v))
    BY <1>2, <2>1 DEF SameKind, Comparisons
  <2>4. CASE Holds(l.v, op, r.v)
    <3>1. Compared(l, op, r) = 2 /\ SameKind(l, op, r) = True
      BY <1>4, <2>3, <2>4 DEF Compared, BoolVal, True
    <3> QED BY <2>2, <3>1, TruthFacts
  <2>5. CASE ~Holds(l.v, op, r.v)
    <3>1. Compared(l, op, r) = 0 /\ SameKind(l, op, r) = False
      BY <1>4, <2>3, <2>5 DEF Compared, BoolVal, False
    <3> QED BY <2>2, <3>1, TruthFacts
  <2> QED BY <2>4, <2>5
<1> QED BY <1>3, <1>4

\* A sum that fits is the sum.
LEMMA SumMeans ==
  ASSUME NEW k \in Numeric, NEW l, HasKind(l, k), NEW r, HasKind(r, k), NEW sum,
         sum = IF Null \in {l, r} THEN Null ELSE Val(l.kind, <<l.v[1] + r.v[1]>>),
         sum.kind = "int" => sum.v[1] \in -(MaxInt + 1)..MaxInt
  PROVE  EvalBinaryOp(l, "+", r) = sum /\ HasKind(sum, k)
<1>1. l \in Values /\ r \in Values
  BY ValueFacts DEF HasKind, Truths
<1>2. ~Fails(l) /\ ~Fails(r)
  BY <1>1, ValueFacts
<1>3. CASE Null \in {l, r}
  <2>1. EvalBinaryOp(l, "+", r) = Null
    BY <1>2, <1>3 DEF EvalBinaryOp, WithNull
  <2> QED BY <1>3, <2>1 DEF HasKind
<1>4. CASE Null \notin {l, r}
  <2>1. l.kind = k /\ r.kind = k
    BY <1>4 DEF HasKind
  <2>2. l.v[1] \in Int /\ r.v[1] \in Int
    BY <1>1, <2>1, ValueFacts
  <2>3. sum = Val(k, <<l.v[1] + r.v[1]>>)
    BY <1>4, <2>1
  <2>4. sum.kind = k /\ sum.v[1] = l.v[1] + r.v[1]
    BY <2>3 DEF Val
  <2>5. EvalBinaryOp(l, "+", r) = SameKind(l, "+", r)
    BY <1>2, <1>4, <2>1 DEF EvalBinaryOp
  <2>6. CASE k = "int"
    <3>1. SameKind(l, "+", r) = AddInt(l.v[1], r.v[1])
      BY <2>1, <2>6 DEF SameKind, Comparisons
    <3>2. AddInt(l.v[1], r.v[1]) = IntVal(l.v[1] + r.v[1])
      BY <2>4, <2>6 DEF AddInt
    <3>3. sum = IntVal(l.v[1] + r.v[1])
      BY <2>3, <2>6 DEF IntVal
    <3> QED BY <2>2, <2>4, <2>5, <3>1, <3>2, <3>3 DEF HasKind, Values
  <2>7. CASE k = "float"
    <3>1. SameKind(l, "+", r) = FloatVal(l.v[1] + r.v[1])
      BY <2>1, <2>7 DEF SameKind, Comparisons
    <3>2. sum = FloatVal(l.v[1] + r.v[1])
      BY <2>3, <2>7 DEF FloatVal
    <3> QED BY <2>2, <2>4, <2>5, <3>1, <3>2 DEF HasKind, Values
  <2> QED BY <2>6, <2>7 DEF Numeric
<1> QED BY <1>3, <1>4

\* LIKE of texts is the match that SQL asks for.
LEMMA LikeMeans ==
  ASSUME NEW l, NEW k \in {"text", "any"}, HasKind(l, k), NEW r, NEW m \in {"text", "any"}, HasKind(r, m),
         NEW negated \in BOOLEAN
  PROVE  EvalLike(l, r, negated) = IF Null \in {l, r} THEN Null ELSE BoolVal(Matches(l.v, r.v) # negated)
<1>1. l \in Values /\ r \in Values
  BY ValueFacts DEF HasKind, Truths
<1>2. ~Fails(l) /\ ~Fails(r)
  BY <1>1, ValueFacts
<1>3. CASE Null \in {l, r}
  BY <1>2, <1>3 DEF EvalLike
<1>4. CASE Null \notin {l, r}
  <2>1. l.kind = "text" /\ r.kind = "text"
    <3>1. l.kind = k /\ r.kind = m
      BY <1>4 DEF HasKind
    <3>2. l.kind # "any" /\ r.kind # "any"
      BY <1>1, ValueFacts DEF Kinds
    <3> QED BY <3>1, <3>2
  <2>2. l.v \in Seq(Nat) /\ r.v \in Seq(Nat)
    BY <1>1, <2>1, ValueFacts
  <2>3. LikeMatch(l.v, r.v) = Matches(l.v, r.v)
    BY <2>2, LikeIsMatching
  <2> QED BY <1>2, <1>4, <2>1, <2>3 DEF EvalLike
<1> QED BY <1>3, <1>4

\* The disjunction of IN is built item by item.
LEMMA AnyOfSteps ==
  ASSUME NEW target, NEW items, items \in Seq(Range(items)), items # <<>>
  PROVE  \E any : /\ AnyOf(target, items) = any[Len(items)]
                  /\ any[1] = Binary(target, "=", items[1])
                  /\ \A n \in 2..Len(items) :
                        any[n] = Binary(any[n - 1], "OR", Binary(target, "=", items[n]))
<1> DEFINE L == Len(items)
           Body(f, n) == IF n = 1 THEN Binary(target, "=", items[n])
                         ELSE Binary(f[n - 1], "OR", Binary(target, "=", items[n]))
           Is(f) == f = [n \in DOMAIN items |-> Body(f, n)]
           P == {m \in 0..L : \E f : f = [n \in 1..m |-> Body(f, n)]}
<1>1. L \in Nat \ {0} /\ DOMAIN items = 1..L
  OBVIOUS
<1>2. 0 \in P
  <2>1. 1..0 = {}
    OBVIOUS
  <2> DEFINE f == [n \in 1..0 |-> 0]
  <2>2. f = [n \in 1..0 |-> Body(f, n)]
    <3> HIDE DEF Body
    <3> QED BY <2>1
  <2> HIDE DEF f, Body
  <2>3. \E h : h = [n \in 1..0 |-> Body(h, n)]
    BY <2>2
  <2>4. 0 \in 0..L
    BY <1>1
  <2> HIDE DEF L
  <2> QED BY <2>3, <2>4
<1>3. ASSUME NEW m \in 1..L, m - 1 \in P PROVE m \in P
  <2>1. PICK f : f = [n \in 1..m - 1 |-> Body(f, n)]
    BY <1>3
  <2>2. \A n \in 1..m - 1 : f[n] = Body(f, n)
    <3> HIDE DEF Body
    <3> QED BY <2>1
  <2> DEFINE g == [n \in 1..m |-> IF n = m THEN Body(f, m) ELSE f[n]]
  <2>3. \A n \in 1..m : g[n] = IF n = m THEN Body(f, m) ELSE f[n]
    <3> HIDE DEF Body
    <3> QED OBVIOUS
  <2>4. ASSUME NEW n \in 1..m PROVE Body(g, n) = Body(f, n)
    <3>1. n # 1 => n - 1 \in 1..m /\ n - 1 # m
      OBVIOUS
    <3>2. n # 1 => g[n - 1] = f[n - 1]
      BY <2>3, <3>1
    <3> HIDE DEF g
    <3> QED BY <3>2
  <2>5. \A n \in 1..m : g[n] = Body(g, n)
    <3>1. \A n \in 1..m : n # m => n \in 1..m - 1
      OBVIOUS
    <3> HIDE DEF g, Body
    <3> QED BY <2>2, <2>3, <2>4, <3>1
  <2>6. g = [n \in 1..m |-> g[n]]
    OBVIOUS
  <2>7. g = [n \in 1..m |-> Body(g, n)]
    <3> HIDE DEF g, Body
    <3> QED BY <2>5, <2>6
  <2>8. \E h : h = [n \in 1..m |-> Body(h, n)]
    <3> HIDE DEF g, Body
    <3> QED BY <2>7
  <2> HIDE DEF Body
  <2> QED BY <1>1, <2>8
<1>4. L \in P
  <2> HIDE DEF P
  <2>1. 0..L \subseteq P
    BY <1>1, <1>2, <1>3, UpTo
  <2> QED BY <1>1, <2>1
<1>5. \E f : Is(f)
  BY <1>1, <1>4
<1> DEFINE any == CHOOSE f : Is(f)
<1>6. Is(any)
  <2> HIDE DEF Is
  <2> QED BY <1>5
<1>7. AnyOf(target, items) = any[L]
  BY DEF AnyOf
<1> HIDE DEF any
<1>8. \A n \in 1..L : any[n] = Body(any, n)
  <2> HIDE DEF Body
  <2> QED BY <1>1, <1>6
<1>9. any[1] = Binary(target, "=", items[1])
  BY <1>1, <1>8
<1>10. \A n \in 2..L : any[n] = Binary(any[n - 1], "OR", Binary(target, "=", items[n]))
  BY <1>1, <1>8
<1> HIDE DEF L
<1> QED BY <1>7, <1>9, <1>10 DEF L

\* The greatest of some truth values.
LEMMA LargestTruth ==
  ASSUME NEW A \in SUBSET (0..2), A # {}
  PROVE  /\ LargestInt(A) \in A /\ \A n \in A : n <= LargestInt(A)
         /\ \A m \in A : (\A n \in A : n <= m) => LargestInt(A) = m
<1>1. \E m \in A : \A n \in A : n <= m
  <2>1. CASE 2 \in A
    BY <2>1
  <2>2. CASE 2 \notin A /\ 1 \in A
    BY <2>2
  <2>3. CASE 2 \notin A /\ 1 \notin A
    <3>1. \A n \in A : n = 0 /\ n \in Int
      BY <2>3
    <3>2. PICK m \in A : TRUE
      OBVIOUS
    <3>3. \A n \in A : n <= m
      BY <3>1
    <3> QED BY <3>3
  <2> QED BY <2>1, <2>2, <2>3
<1>2. LargestInt(A) \in A /\ \A n \in A : n <= LargestInt(A)
  BY <1>1 DEF LargestInt
<1>3. ASSUME NEW m \in A, \A n \in A : n <= m PROVE LargestInt(A) = m
  <2>1. m <= LargestInt(A) /\ LargestInt(A) <= m
    BY <1>2, <1>3
  <2>2. \A n \in A : n \in Int
    OBVIOUS
  <2>3. m \in Int /\ LargestInt(A) \in Int
    BY <1>2, <2>2
  <2> QED BY <2>1, <2>3
<1> QED BY <1>2, <1>3

\* What IN's disjunction evaluates to, of what its comparisons evaluate to.
LEMMA AnyOfMeans ==
  ASSUME NEW S, NEW rank, Expressions(S, rank),
         NEW value, NEW columns, NEW row, Evaluates(value, S, columns, row),
         NEW target, NEW items, items \in Seq(Range(items)), items # <<>>, AnyOf(target, items) \in S,
         NEW t, t \in [DOMAIN items -> 0..2],
         \A i \in DOMAIN items : EvalBinaryOp(value[target], "=", value[items[i]]) = AsValue(t[i])
  PROVE  value[AnyOf(target, items)] = AsValue(LargestInt({t[i] : i \in DOMAIN items}))
<1> DEFINE L == Len(items)
           equal(n) == Binary(target, "=", items[n])
<1>1. L \in Nat \ {0} /\ DOMAIN items = 1..L
  OBVIOUS
<1> HIDE DEF L
<1>2. PICK any : /\ AnyOf(target, items) = any[L]
                 /\ any[1] = equal(1)
                 /\ \A n \in 2..L : any[n] = Binary(any[n - 1], "OR", equal(n))
  BY AnyOfSteps DEF L
<1> HIDE DEF equal
<1>3. \A n \in 2..L : any[n] \in S => any[n - 1] \in S /\ equal(n) \in S
  BY <1>2, PartsOf, Forms
<1>4. \A n \in 1..L : any[n] \in S
  <2> DEFINE P == {m \in 0..L - 1 : any[L - m] \in S}
  <2>1. 0 \in P
    BY <1>1, <1>2
  <2>2. ASSUME NEW m \in 1..L - 1, m - 1 \in P PROVE m \in P
    <3>1. L - (m - 1) \in 2..L /\ (L - (m - 1)) - 1 = L - m /\ m \in 0..L - 1
      BY <1>1
    <3>2. any[L - (m - 1)] \in S
      BY <2>2
    <3> QED BY <1>3, <3>1, <3>2
  <2>3. L - 1 \in Nat
    BY <1>1
  <2>4. 0..L - 1 \subseteq P
    <3> HIDE DEF P
    <3> DEFINE N == L - 1
    <3>1. N \in Nat /\ \A m \in 1..N : m - 1 \in P => m \in P
      BY <2>2, <2>3
    <3> HIDE DEF N
    <3>2. 0..N \subseteq P
      BY <2>1, <3>1, UpTo
    <3> QED BY <3>2 DEF N
  <2>5. ASSUME NEW n \in 1..L PROVE any[n] \in S
    <3>1. L - n \in 0..L - 1 /\ L - (L - n) = n
      BY <1>1
    <3>2. L - n \in P
      BY <2>4, <3>1
    <3>3. any[L - (L - n)] \in S
      BY <3>2
    <3> QED BY <3>1, <3>3
  <2> QED BY <2>5
<1>5. ASSUME NEW n \in 1..L, equal(n) \in S PROVE value[equal(n)] = AsValue(t[n])
  <2>1. value[equal(n)] = EvalBinaryOp(value[target], "=", value[items[n]])
    BY <1>5, EvalForms, Forms DEF equal
  <2> QED BY <1>1, <2>1
<1> DEFINE A(m) == {t[i] : i \in 1..m}
<1>6. \A m \in 1..L : A(m) \in SUBSET (0..2) /\ A(m) # {} /\ t[m] \in A(m) /\ t[m] \in 0..2
  BY <1>1
<1>7. \A m \in 2..L : A(m) = A(m - 1) \cup {t[m]} /\ m - 1 \in 1..L
  BY <1>1
<1>8. A(1) = {t[1]}
  BY <1>1
<1> HIDE DEF A
<1> DEFINE P == {m \in 0..L : m # 0 => value[any[m]] = AsValue(LargestInt(A(m)))}
<1>9. 0 \in P
  BY <1>1
<1>10. ASSUME NEW m \in 1..L, m - 1 \in P PROVE m \in P
  <2>1. CASE m = 1
    <3>1. value[any[1]] = AsValue(t[1])
      BY <1>2, <1>4, <1>5, <2>1
    <3>2. LargestInt(A(1)) = t[1]
      BY <1>6, <1>8, <2>1, LargestTruth
    <3> QED BY <1>1, <2>1, <3>1, <3>2
  <2>2. CASE m # 1
    <3>1. m \in 2..L /\ m - 1 \in 1..L /\ m - 1 # 0
      BY <1>1, <2>2
    <3> DEFINE a == LargestInt(A(m - 1))
    <3>2. value[any[m - 1]] = AsValue(a)
      BY <1>10, <3>1
    <3>3. any[m] = Binary(any[m - 1], "OR", equal(m)) /\ any[m] \in S /\ equal(m) \in S
      BY <1>2, <1>3, <1>4, <3>1
    <3>4. value[any[m]] = EvalBinaryOp(AsValue(a), "OR", AsValue(t[m]))
      <4>1. value[any[m]] = EvalBinaryOp(value[any[m - 1]], "OR", value[equal(m)])
        BY <3>3, EvalForms, Forms
      <4>2. value[equal(m)] = AsValue(t[m])
        BY <1>5, <3>3
      <4> QED BY <3>2, <4>1, <4>2
    <3>5. a \in A(m - 1) /\ \A n \in A(m - 1) : n <= a
      BY <1>6, <3>1, LargestTruth
    <3>6. a \in 0..2 /\ t[m] \in 0..2
      BY <1>6, <3>1, <3>5
    <3> HIDE DEF a
    <3>7. value[any[m]] = AsValue(IF a < t[m] THEN t[m] ELSE a)
      BY <3>4, <3>6, JunctionMeans, TruthFacts
    <3>8. LargestInt(A(m)) = IF a < t[m] THEN t[m] ELSE a
      <4> DEFINE b == IF a < t[m] THEN t[m] ELSE a
      <4>1. b \in A(m)
        BY <1>7, <3>1, <3>5
      <4>2. \A n \in A(m) : n <= b
        <5>1. \A n \in A(m - 1) : n \in Int /\ n <= a
          BY <1>6, <3>1, <3>5
        <5>2. a \in Int /\ t[m] \in Int
          BY <3>6
        <5>3. \A n \in A(m - 1) : n <= b
          BY <5>1, <5>2
        <5>4. t[m] <= b
          BY <5>2
        <5> HIDE DEF b
        <5> QED BY <1>7, <3>1, <5>3, <5>4
      <4> HIDE DEF b
      <4>3. LargestInt(A(m)) = b
        BY <1>6, <4>1, <4>2, LargestTruth
      <4> QED BY <4>3 DEF b
    <3> QED BY <3>7, <3>8
  <2> QED BY <2>1, <2>2
<1>11. L \in P
  <2> HIDE DEF P
  <2>1. 0..L \subseteq P
    BY <1>1, <1>9, <1>10, UpTo
  <2> QED BY <1>1, <2>1
<1>12. value[any[L]] = AsValue(LargestInt(A(L)))
  BY <1>1, <1>11
<1> QED BY <1>1, <1>2, <1>12 DEF A

\* SQL's further forms.
LEMMA SqlForms ==
  /\ \A a : Not(a).e = "not" /\ Not(a).arg = a
  /\ \A a, l, n : /\ InList(a, l, n).e = "in" /\ InList(a, l, n).arg = a
                   /\ InList(a, l, n).list = l /\ InList(a, l, n).negated = n
  /\ \A a, l, h, n : /\ Between(a, l, h, n).e = "between" /\ Between(a, l, h, n).arg = a
                      /\ Between(a, l, h, n).low = l /\ Between(a, l, h, n).high = h
                      /\ Between(a, l, h, n).negated = n
  /\ \A a : Nested(a).e = "nested"
  /\ \A f, c : Func(f, c).e = "func"
BY DEF Not, InList, Between, Nested, Func

\* What IsSql says of each of the ten forms.
LEMMA SqlShapes ==
  ASSUME NEW q, IsSql(q)
  PROVE  /\ q.e \in {"column", "literal", "binary", "isnull", "like", "not", "in", "between", "nested", "func"}
         /\ q.e = "column" => q = Column(q.name)
         /\ q.e = "literal" => q = Literal(q.value) /\ q.value \in Values
         /\ q.e = "binary" => q = Binary(q.left, q.op, q.right) /\ q.op \in Operators
         /\ q.e \in {"isnull", "like", "in", "between"} => q.negated \in BOOLEAN
         /\ q.e = "in" => q.list \in Seq(Range(q.list))
<1>1. CASE IsExpr(q)
  BY <1>1, Shapes
<1>2. CASE ~IsExpr(q)
  BY <1>2, SqlForms DEF IsSql
<1> QED BY <1>1, <1>2

\* What is below a node of a statement's expression.
LEMMA SqlPartsOf ==
  ASSUME NEW T, NEW depth, Sentences(T, depth), NEW q \in T
  PROVE  /\ q.e = "binary" => /\ q.left \in T /\ depth[q.left] < depth[q]
                              /\ q.right \in T /\ depth[q.right] < depth[q]
         /\ q.e \in {"isnull", "like", "not", "in", "between"} => q.arg \in T /\ depth[q.arg] < depth[q]
         /\ q.e = "like" => q.pattern \in T /\ depth[q.pattern] < depth[q]
         /\ q.e = "between" => /\ q.low \in T /\ depth[q.low] < depth[q]
                               /\ q.high \in T /\ depth[q.high] < depth[q]
         /\ q.e = "in" => \A x \in Range(q.list) : x \in T /\ depth[x] < depth[q]
BY DEF Sentences, SqlParts, Parts

\* What an expression means, form by form.
MeansBy(meaning, q, env) ==
    /\ q.e = "column" => meaning[q] = Of(env, q.name)
    /\ q.e = "literal" => meaning[q] = q.value
    /\ q.e = "binary" =>
          LET l == meaning[q.left]
              r == meaning[q.right]
          IN  /\ q.op = "AND" => meaning[q] = AsValue(IF AsTruth(l) < AsTruth(r) THEN AsTruth(l) ELSE AsTruth(r))
              /\ q.op = "OR" => meaning[q] = AsValue(IF AsTruth(l) < AsTruth(r) THEN AsTruth(r) ELSE AsTruth(l))
              /\ q.op = "+" => meaning[q] = IF Null \in {l, r} THEN Null ELSE Val(l.kind, <<l.v[1] + r.v[1]>>)
              /\ q.op \in Comparisons => meaning[q] = AsValue(Compared(l, q.op, r))
    /\ q.e = "isnull" => meaning[q] = BoolVal((meaning[q.arg] = Null) # q.negated)
    /\ q.e = "not" => meaning[q] = AsValue(2 - AsTruth(meaning[q.arg]))
    /\ q.e = "like" => meaning[q] = IF Null \in {meaning[q.arg], meaning[q.pattern]} THEN Null
                                    ELSE BoolVal(Matches(meaning[q.arg].v, meaning[q.pattern].v) # q.negated)
    /\ q.e = "in" =>
          LET most == LargestInt({Compared(meaning[q.arg], "=", meaning[q.list[i]]) : i \in DOMAIN q.list})
          IN  meaning[q] = AsValue(IF q.negated THEN 2 - most ELSE most)
    /\ q.e = "between" =>
          LET l == Compared(meaning[q.arg], ">=", meaning[q.low])
              r == Compared(meaning[q.arg], "<=", meaning[q.high])
              both == IF l < r THEN l ELSE r
          IN  meaning[q] = AsValue(IF q.negated THEN 2 - both ELSE both)

\* DenoteNode is MeansBy.
LEMMA DenoteForms ==
  ASSUME NEW T, NEW env, NEW meaning, Means(meaning, T, env), NEW q \in T
  PROVE  MeansBy(meaning, q, env)
<1>1. meaning[q] = DenoteNode(q, env, LAMBDA x : meaning[x])
  BY DEF Means
<1>2. CASE q.e = "column"
  BY <1>1, <1>2 DEF DenoteNode, MeansBy
<1>3. CASE q.e = "literal"
  BY <1>1, <1>3 DEF DenoteNode, MeansBy
<1>4. CASE q.e = "binary"
  <2>1. q.op = "AND" => q.op # "OR" /\ q.op # "+" /\ q.op \notin Comparisons
    BY DEF Comparisons
  <2>2. q.op = "OR" => q.op # "+" /\ q.op \notin Comparisons
    BY DEF Comparisons
  <2>3. q.op = "+" => q.op \notin Comparisons
    BY DEF Comparisons
  <2> QED BY <1>1, <1>4, <2>1, <2>2, <2>3 DEF DenoteNode, Compared, MeansBy
<1>5. CASE q.e = "isnull"
  BY <1>1, <1>5 DEF DenoteNode, MeansBy
<1>6. CASE q.e = "not"
  BY <1>1, <1>6 DEF DenoteNode, MeansBy
<1>7. CASE q.e = "like"
  BY <1>1, <1>7 DEF DenoteNode, MeansBy
<1>8. CASE q.e = "in"
  BY <1>1, <1>8 DEF DenoteNode, Compared, MeansBy
<1>9. CASE q.e = "between"
  BY <1>1, <1>9 DEF DenoteNode, Compared, MeansBy
<1> QED BY <1>2, <1>3, <1>4, <1>5, <1>6, <1>7, <1>8, <1>9 DEF MeansBy

\* What an expression that has a type is made of, form by form.
TypedBy(kind, q, schema) ==
    /\ q.e = "column" => q.name \in DOMAIN schema /\ kind[q] = schema[q.name]
    /\ q.e = "literal" => kind[q] = IF q.value = Null THEN "any" ELSE q.value.kind
    /\ q.e = "binary" =>
          /\ q.op \in {"AND", "OR"} => /\ kind[q] = "bool" /\ kind[q.left] \in {"bool", "any"}
                                       /\ kind[q.right] \in {"bool", "any"}
          /\ q.op = "+" => kind[q] = kind[q.left] /\ kind[q.right] = kind[q.left] /\ kind[q.left] \in Numeric
          /\ q.op \in Comparisons => kind[q] = "bool" /\ Alike({kind[q.left], kind[q.right]})
          /\ q.op \in Comparisons \ {"=", "<>"} => "bool" \notin {kind[q.left], kind[q.right]}
    /\ q.e = "isnull" => kind[q] = "bool" /\ kind[q.arg] # "bad"
    /\ q.e = "not" => kind[q] = "bool" /\ kind[q.arg] \in {"bool", "any"}
    /\ q.e = "like" => /\ kind[q] = "bool" /\ kind[q.arg] \in {"text", "any"}
                       /\ kind[q.pattern] \in {"text", "any"}
    /\ q.e = "in" => kind[q] = "bool" /\ Alike({kind[q.arg]} \cup {kind[x] : x \in Range(q.list)})
    /\ q.e = "between" => /\ kind[q] = "bool" /\ Alike({kind[q.arg], kind[q.low], kind[q.high]})
                          /\ "bool" \notin {kind[q.arg], kind[q.low], kind[q.high]}

\* KindNode is TypedBy.
LEMMA KindForms ==
  ASSUME NEW T, NEW schema, NEW kind, Types(kind, T, schema), NEW q \in T, kind[q] # "bad"
  PROVE  TypedBy(kind, q, schema)
<1>1. kind[q] = KindNode(q, schema, LAMBDA x : kind[x])
  BY DEF Types
<1>2. CASE q.e = "column"
  BY <1>1, <1>2 DEF KindNode, TypedBy
<1>3. CASE q.e = "literal"
  BY <1>1, <1>3 DEF KindNode, TypedBy
<1>4. CASE q.e = "binary"
  <2>1. kind[q] = KindOfBinary(kind[q.left], q.op, kind[q.right])
    BY <1>1, <1>4 DEF KindNode, TypedBy
  <2>2. CASE q.op \in {"AND", "OR"}
    BY <1>4, <2>1, <2>2 DEF KindOfBinary, Boolean, Comparisons, TypedBy
  <2>3. CASE q.op \in {"=", "<>"}
    BY <1>4, <2>1, <2>3 DEF KindOfBinary, Boolean, TypedBy
  <2>4. CASE q.op = "+"
    BY <1>4, <2>1, <2>4 DEF KindOfBinary, Comparisons, TypedBy
  <2>5. CASE q.op \in {"<", "<=", ">", ">="}
    BY <1>4, <2>1, <2>5 DEF KindOfBinary, Boolean, Comparable, TypedBy
  <2> QED BY <1>4, <2>2, <2>3, <2>4, <2>5 DEF Comparisons, TypedBy
<1>5. CASE q.e = "isnull"
  BY <1>1, <1>5 DEF KindNode, Boolean, TypedBy
<1>6. CASE q.e = "not"
  BY <1>1, <1>6 DEF KindNode, Boolean, TypedBy
<1>7. CASE q.e = "like"
  BY <1>1, <1>7 DEF KindNode, Boolean, TypedBy
<1>8. CASE q.e = "in"
  BY <1>1, <1>8 DEF KindNode, Boolean, TypedBy
<1>9. CASE q.e = "between"
  BY <1>1, <1>9 DEF KindNode, Boolean, Comparable, TypedBy
<1> QED BY <1>2, <1>3, <1>4, <1>5, <1>6, <1>7, <1>8, <1>9 DEF TypedBy

\* What an expression is lowered to, form by form.
LoweredBy(lowerable, lower, q, S) ==
    /\ lower[q] \in S /\ q.e \notin {"nested", "func"}
    /\ q.e \in {"column", "literal"} => lower[q] = q
    /\ q.e = "binary" => /\ lowerable[q.left] /\ lowerable[q.right]
                         /\ lower[q] = Binary(lower[q.left], q.op, lower[q.right])
    /\ q.e = "isnull" => lowerable[q.arg] /\ lower[q] = IsNull(lower[q.arg], q.negated)
    /\ q.e = "like" => /\ lowerable[q.arg] /\ lowerable[q.pattern]
                       /\ lower[q] = Like(lower[q.arg], lower[q.pattern], q.negated)
    /\ q.e = "not" => lowerable[q.arg] /\ lower[q] = IsFalse(lower[q.arg])
    /\ q.e = "in" => /\ lowerable[q.arg] /\ q.list # <<>> /\ \A i \in DOMAIN q.list : lowerable[q.list[i]]
                     /\ lower[q] = IsFalseIf(q.negated,
                           AnyOf(lower[q.arg], [i \in DOMAIN q.list |-> lower[q.list[i]]]))
    /\ q.e = "between" => /\ lowerable[q.arg] /\ lowerable[q.low] /\ lowerable[q.high]
                          /\ lower[q] = IsFalseIf(q.negated,
                                Binary(Binary(lower[q.arg], ">=", lower[q.low]), "AND",
                                       Binary(lower[q.arg], "<=", lower[q.high])))

\* LowerNode is LoweredBy.
LEMMA LowerForms ==
  ASSUME NEW T, NEW S, NEW lowerable, NEW lower, Lowers(lowerable, lower, T, S), NEW q \in T, IsSql(q), lowerable[q]
  PROVE  LoweredBy(lowerable, lower, q, S)
<1>1. /\ LowerableNode(q, LAMBDA x : lowerable[x])
      /\ lower[q] \in S /\ lower[q] = LowerNode(q, LAMBDA x : lower[x])
  BY DEF Lowers
<1>2. q.e \in {"column", "literal", "binary", "isnull", "like", "not", "in", "between", "nested", "func"}
  BY SqlShapes
<1>3. CASE q.e \in {"nested", "func"}
  BY <1>1, <1>3 DEF LowerableNode, LoweredBy
<1>4. CASE q.e \in {"column", "literal"}
  BY <1>1, <1>4 DEF LowerNode, LoweredBy
<1>5. CASE q.e = "binary"
  BY <1>1, <1>5 DEF LowerableNode, LowerNode, LoweredBy
<1>6. CASE q.e = "isnull"
  BY <1>1, <1>6 DEF LowerableNode, LowerNode, LoweredBy
<1>7. CASE q.e = "like"
  BY <1>1, <1>7 DEF LowerableNode, LowerNode, LoweredBy
<1>8. CASE q.e = "not"
  BY <1>1, <1>8 DEF LowerableNode, LowerNode, LoweredBy
<1>9. CASE q.e = "in"
  BY <1>1, <1>9 DEF LowerableNode, LowerNode, LoweredBy
<1>10. CASE q.e = "between"
  BY <1>1, <1>10 DEF LowerableNode, LowerNode, LoweredBy
<1> QED BY <1>2, <1>3, <1>4, <1>5, <1>6, <1>7, <1>8, <1>9, <1>10 DEF LoweredBy

\* What has kind bool, or is a NULL, is a truth value, and the other way around.
LEMMA TruthKinds ==
  /\ \A v, k : HasKind(v, k) /\ k \in {"bool", "any"} => v \in Truths
  /\ \A v \in Truths : HasKind(v, "bool")
  /\ \A t \in 0..2 : HasKind(AsValue(t), "bool")
  /\ \A b \in BOOLEAN : HasKind(BoolVal(b), "bool")
<1>1. \A v \in Values : v.kind \in {"bool", "any"} => v \in {True, False}
  BY ValueFacts DEF Kinds
<1>2. \A v \in {True, False} : v \in Values /\ v.kind = "bool"
  BY DEF Values, True, False, BoolVal, Val
<1>3. \A b \in BOOLEAN : BoolVal(b) \in {True, False}
  BY DEF BoolVal, True, False
<1>4. \A v \in Truths : HasKind(v, "bool")
  BY <1>2 DEF HasKind, Truths
<1>5. \A v, k : HasKind(v, k) /\ k \in {"bool", "any"} => v \in Truths
  BY <1>1 DEF HasKind, Truths
<1> QED BY <1>3, <1>4, <1>5, TruthFacts DEF Truths

\* `= FALSE` of a truth value, if it is negated.
LEMMA IsFalseMeans ==
  ASSUME NEW S, NEW rank, Expressions(S, rank),
         NEW value, NEW columns, NEW row, Evaluates(value, S, columns, row),
         NEW e, NEW negated \in BOOLEAN, IsFalseIf(negated, e) \in S, NEW t \in 0..2,
         e \in S => value[e] = AsValue(t)
  PROVE  value[IsFalseIf(negated, e)] = AsValue(IF negated THEN 2 - t ELSE t)
<1>1. CASE ~negated
  BY <1>1 DEF IsFalseIf
<1>2. CASE negated
  <2>1. IsFalseIf(negated, e) = Binary(e, "=", Literal(False))
    BY <1>2 DEF IsFalseIf, IsFalse
  <2>2. e \in S /\ Literal(False) \in S
    BY <2>1, PartsOf, Forms
  <2>3. value[Literal(False)] = False
    BY <2>2, EvalForms, Forms
  <2>4. value[IsFalseIf(negated, e)] = EvalBinaryOp(value[e], "=", False)
    BY <2>1, <2>3, EvalForms, Forms
  <2> QED BY <1>2, <2>2, <2>4, JunctionMeans, TruthFacts
<1> QED BY <1>1, <1>2

\* A predicate that SQL accepts is lowered to one that evaluates to what it
\* means: never to an error, with NULL in any place, NOT, IN and BETWEEN
\* included, if no sum overflows (lower/expr.rs:33, eval.rs:22).
THEOREM LoweringKeepsMeaning ==
  ASSUME NEW S, NEW rank, Expressions(S, rank), NEW T, NEW depth, Sentences(T, depth),
         NEW lowerable, NEW lower, Lowers(lowerable, lower, T, S),
         NEW schema, NEW kind, Types(kind, T, schema),
         NEW env, Suits(env, schema), NEW meaning, Means(meaning, T, env), SumsFit(meaning, T),
         NEW value, Evaluates(value, S, env.columns, env.row)
  PROVE  \A q \in T : lowerable[q] /\ kind[q] # "bad" =>
                          value[lower[q]] = meaning[q] /\ HasKind(meaning[q], kind[q])
<1> DEFINE Right(q) == value[lower[q]] = meaning[q] /\ HasKind(meaning[q], kind[q])
           P == {q \in T : lowerable[q] /\ kind[q] # "bad" => Right(q)}
<1>1. ASSUME NEW q \in T, \A x \in T : depth[x] < depth[q] => x \in P, lowerable[q], kind[q] # "bad"
      PROVE  Right(q)
  <2>1. IsSql(q)
    BY DEF Sentences
  <2>2. \A x \in T : depth[x] < depth[q] /\ lowerable[x] /\ kind[x] # "bad" => Right(x)
    BY <1>1
  <2>0. LoweredBy(lowerable, lower, q, S) /\ TypedBy(kind, q, schema) /\ MeansBy(meaning, q, env)
    BY <1>1, <2>1, LowerForms, KindForms, DenoteForms
  <2>3. lower[q] \in S /\ q.e \notin {"nested", "func"}
    BY <2>0 DEF LoweredBy
  <2> HIDE DEF P
  <2>4. CASE q.e = "column"
    <3>1. q.name \in DOMAIN schema /\ kind[q] = schema[q.name]
      BY <2>0, <2>4 DEF TypedBy
    <3>2. lower[q] = q
      BY <2>0, <2>4 DEF LoweredBy
    <3>3. ColumnIndex(env.columns, q.name) # 0 /\ HasKind(env.row[ColumnIndex(env.columns, q.name)], kind[q])
      BY <3>1 DEF Suits
    <3>4. value[q] = env.row[ColumnIndex(env.columns, q.name)]
      BY <2>3, <2>4, <3>2, <3>3, EvalForms
    <3>5. meaning[q] = env.row[ColumnIndex(env.columns, q.name)]
      BY <2>0, <2>4 DEF Of, MeansBy
    <3> QED BY <3>2, <3>3, <3>4, <3>5
  <2>5. CASE q.e = "literal"
    <3>1. kind[q] = IF q.value = Null THEN "any" ELSE q.value.kind
      BY <2>0, <2>5 DEF TypedBy
    <3>2. lower[q] = q
      BY <2>0, <2>5 DEF LoweredBy
    <3>3. value[q] = q.value /\ meaning[q] = q.value
      BY <2>0, <2>3, <2>5, <3>2, EvalForms DEF MeansBy
    <3>4. q.value \in Values
      BY <2>1, <2>5, SqlShapes
    <3> QED BY <3>1, <3>2, <3>3, <3>4 DEF HasKind
  <2>6. CASE q.e = "binary"
    <3> DEFINE l == q.left
               r == q.right
    <3>1. /\ l \in T /\ depth[l] < depth[q] /\ lowerable[l]
          /\ r \in T /\ depth[r] < depth[q] /\ lowerable[r]
      BY <2>0, <2>6, SqlPartsOf DEF LoweredBy
    <3>2. q.op \in Operators
      BY <2>1, <2>6, SqlShapes
    <3>3. value[lower[q]] = EvalBinaryOp(value[lower[l]], q.op, value[lower[r]])
      <4>1. lower[q] = Binary(lower[l], q.op, lower[r])
        BY <2>0, <2>6 DEF LoweredBy
      <4> QED BY <2>3, <4>1, EvalForms, Forms
    <3>4. CASE q.op \in {"AND", "OR"}
      <4>1. /\ kind[q] = "bool" /\ kind[l] \in {"bool", "any"} /\ kind[r] \in {"bool", "any"}
        BY <2>0, <2>6, <3>4 DEF TypedBy
      <4>2. Right(l) /\ Right(r)
        BY <2>2, <3>1, <4>1
      <4>3. meaning[l] \in Truths /\ meaning[r] \in Truths
        BY <4>1, <4>2, TruthKinds
      <4>4. AsTruth(meaning[l]) \in 0..2 /\ AsTruth(meaning[r]) \in 0..2
        BY <4>3, TruthFacts
      <4>5. value[lower[q]] = EvalBinaryOp(meaning[l], q.op, meaning[r])
        BY <3>3, <4>2
      <4>6. value[lower[q]] = meaning[q]
        BY <2>0, <2>6, <3>4, <4>3, <4>5, JunctionMeans DEF MeansBy
      <4>7. HasKind(meaning[q], "bool")
        BY <2>0, <2>6, <3>4, <4>4, TruthKinds DEF MeansBy
      <4> QED BY <4>1, <4>6, <4>7
    <3>5. CASE q.op = "+"
      <4>1. kind[q] = kind[l] /\ kind[r] = kind[l] /\ kind[l] \in Numeric
        BY <2>0, <2>6, <3>5 DEF TypedBy
      <4>2. Right(l) /\ Right(r)
        BY <1>1, <2>2, <3>1, <4>1
      <4>3. meaning[q] = IF Null \in {meaning[l], meaning[r]} THEN Null
                         ELSE Val(meaning[l].kind, <<meaning[l].v[1] + meaning[r].v[1]>>)
        BY <2>0, <2>6, <3>5 DEF MeansBy
      <4>4. meaning[q].kind = "int" => meaning[q].v[1] \in -(MaxInt + 1)..MaxInt
        BY <2>6, <3>5 DEF SumsFit
      <4>5. HasKind(meaning[l], kind[l]) /\ HasKind(meaning[r], kind[l])
        BY <4>1, <4>2
      <4>6. EvalBinaryOp(meaning[l], "+", meaning[r]) = meaning[q] /\ HasKind(meaning[q], kind[l])
        BY <4>1, <4>3, <4>4, <4>5, SumMeans
      <4> QED BY <3>3, <3>5, <4>1, <4>2, <4>6
    <3>6. CASE q.op \in Comparisons
      <4>1. /\ kind[q] = "bool" /\ Alike({kind[l], kind[r]})
            /\ q.op \notin {"=", "<>"} => kind[l] # "bool" /\ kind[r] # "bool"
        BY <2>0, <2>6, <3>6 DEF TypedBy
      <4>2. kind[l] # "bad" /\ kind[r] # "bad"
        BY <4>1 DEF Alike
      <4>3. Right(l) /\ Right(r)
        BY <2>2, <3>1, <4>2
      <4>4. kind[l] = "any" \/ kind[r] = "any" \/ kind[l] = kind[r]
        <5>1. IsFiniteSet({kind[l]} \cup {kind[r]})
          BY FS_Singleton, FS_AddElement
        <5>2. {kind[l]} \cup {kind[r]} = {kind[l], kind[r]}
          OBVIOUS
        <5> QED BY <4>1, <5>1, <5>2, AlikeAreOne
      <4>5. meaning[q] = AsValue(Compared(meaning[l], q.op, meaning[r]))
        BY <2>0, <2>6, <3>6 DEF MeansBy
      <4>6. /\ EvalBinaryOp(meaning[l], q.op, meaning[r]) = AsValue(Compared(meaning[l], q.op, meaning[r]))
            /\ Compared(meaning[l], q.op, meaning[r]) \in 0..2
        BY <3>6, <4>1, <4>3, <4>4, ComparisonMeans
      <4> QED BY <3>3, <4>1, <4>3, <4>5, <4>6, TruthKinds
    <3> QED BY <3>2, <3>4, <3>5, <3>6 DEF Operators
  <2>7. CASE q.e = "isnull"
    <3>1. q.arg \in T /\ depth[q.arg] < depth[q] /\ lowerable[q.arg] /\ kind[q.arg] # "bad" /\ kind[q] = "bool"
      BY <2>0, <2>7, SqlPartsOf DEF LoweredBy, TypedBy
    <3>2. Right(q.arg)
      BY <2>2, <3>1
    <3>3. q.negated \in BOOLEAN
      BY <2>1, <2>7, SqlShapes
    <3>4. value[lower[q]] = EvalIsNull(value[lower[q.arg]], q.negated)
      <4>1. lower[q] = IsNull(lower[q.arg], q.negated)
        BY <2>0, <2>7 DEF LoweredBy
      <4> QED BY <2>3, <4>1, EvalForms, Forms
    <3>5. ~Fails(meaning[q.arg])
      BY <3>2, ValueFacts DEF HasKind, Truths
    <3>6. EvalIsNull(meaning[q.arg], q.negated) = BoolVal((meaning[q.arg] = Null) # q.negated)
      BY <3>5 DEF EvalIsNull
    <3>7. meaning[q] = BoolVal((meaning[q.arg] = Null) # q.negated)
      BY <2>0, <2>7 DEF MeansBy
    <3>8. ((meaning[q.arg] = Null) # q.negated) \in BOOLEAN
      OBVIOUS
    <3>9. HasKind(meaning[q], "bool")
      BY <3>7, <3>8, TruthKinds
    <3> QED BY <3>1, <3>2, <3>4, <3>6, <3>7, <3>9
  <2>8. CASE q.e = "like"
    <3> DEFINE l == q.arg
               r == q.pattern
    <3>1. /\ l \in T /\ depth[l] < depth[q] /\ lowerable[l]
          /\ r \in T /\ depth[r] < depth[q] /\ lowerable[r]
      BY <2>0, <2>8, SqlPartsOf DEF LoweredBy
    <3>2. kind[q] = "bool" /\ kind[l] \in {"text", "any"} /\ kind[r] \in {"text", "any"}
      BY <2>0, <2>8 DEF TypedBy
    <3>3. Right(l) /\ Right(r)
      BY <2>2, <3>1, <3>2
    <3>4. q.negated \in BOOLEAN
      BY <2>1, <2>8, SqlShapes
    <3>5. value[lower[q]] = EvalLike(value[lower[l]], value[lower[r]], q.negated)
      <4>1. lower[q] = Like(lower[l], lower[r], q.negated)
        BY <2>0, <2>8 DEF LoweredBy
      <4> QED BY <2>3, <4>1, EvalForms, Forms
    <3>6. meaning[q] = IF Null \in {meaning[l], meaning[r]} THEN Null
                       ELSE BoolVal(Matches(meaning[l].v, meaning[r].v) # q.negated)
      BY <2>0, <2>8 DEF MeansBy
    <3>7. EvalLike(meaning[l], meaning[r], q.negated) = meaning[q]
      BY <3>2, <3>3, <3>4, <3>6, LikeMeans
    <3>8. (Matches(meaning[l].v, meaning[r].v) # q.negated) \in BOOLEAN
      OBVIOUS
    <3>9. HasKind(meaning[q], "bool")
      BY <3>6, <3>8, TruthKinds DEF HasKind
    <3> QED BY <3>2, <3>3, <3>5, <3>7, <3>9
  <2>9. CASE q.e = "not"
    <3>1. /\ q.arg \in T /\ depth[q.arg] < depth[q] /\ lowerable[q.arg]
          /\ kind[q.arg] \in {"bool", "any"} /\ kind[q] = "bool"
      BY <2>0, <2>9, SqlPartsOf DEF LoweredBy, TypedBy
    <3>2. Right(q.arg)
      BY <2>2, <3>1
    <3>3. meaning[q.arg] \in Truths
      BY <3>1, <3>2, TruthKinds
    <3>4. value[lower[q]] = EvalBinaryOp(value[lower[q.arg]], "=", False)
      <4>1. lower[q] = Binary(lower[q.arg], "=", Literal(False))
        BY <2>0, <2>9 DEF IsFalse, LoweredBy
      <4>2. Literal(False) \in S
        BY <2>3, <4>1, PartsOf, Forms
      <4>3. value[Literal(False)] = False
        BY <4>2, EvalForms, Forms
      <4> QED BY <2>3, <4>1, <4>3, EvalForms, Forms
    <3>5. meaning[q] = AsValue(2 - AsTruth(meaning[q.arg]))
      BY <2>0, <2>9 DEF MeansBy
    <3>6. value[lower[q]] = meaning[q]
      BY <3>2, <3>3, <3>4, <3>5, JunctionMeans
    <3>7. 2 - AsTruth(meaning[q.arg]) \in 0..2
      <4>1. AsTruth(meaning[q.arg]) \in 0..2
        BY <3>3, TruthFacts
      <4> QED BY <4>1
    <3> QED BY <3>1, <3>5, <3>6, <3>7, TruthKinds
  <2>10. CASE q.e = "in"
    <3> DEFINE list == q.list
               items == [i \in DOMAIN list |-> lower[list[i]]]
               t == [i \in DOMAIN list |-> Compared(meaning[q.arg], "=", meaning[list[i]])]
    <3>1. list \in Seq(Range(list)) /\ list # <<>> /\ q.negated \in BOOLEAN
      BY <2>0, <2>1, <2>10, SqlShapes DEF LoweredBy
    <3>2. \A i \in DOMAIN list : list[i] \in Range(list)
      BY DEF Range
    <3>3. /\ q.arg \in T /\ depth[q.arg] < depth[q] /\ lowerable[q.arg]
          /\ \A i \in DOMAIN list : list[i] \in T /\ depth[list[i]] < depth[q] /\ lowerable[list[i]]
      BY <2>0, <2>10, <3>2, SqlPartsOf DEF LoweredBy
    <3> DEFINE K == {kind[q.arg]} \cup {kind[x] : x \in Range(list)}
    <3>4. kind[q] = "bool" /\ Alike(K)
      BY <2>0, <2>10 DEF TypedBy
    <3>5. kind[q.arg] \in K /\ \A i \in DOMAIN list : kind[list[i]] \in K
      BY <3>2
    <3>6. Right(q.arg) /\ \A i \in DOMAIN list : Right(list[i])
      <4>1. \A k \in K : k # "bad"
        BY <3>4 DEF Alike
      <4> HIDE DEF K
      <4> QED BY <2>2, <3>3, <3>5, <4>1
    <3>7. IsFiniteSet(K)
      <4>1. IsFiniteSet(1..Len(list)) /\ DOMAIN list = 1..Len(list) /\ Len(list) \in Nat
        BY <3>1, FS_Interval
      <4>2. Range(list) = {list[i] : i \in DOMAIN list}
        BY DEF Range
      <4> DEFINE kinds == {kind[list[i]] : i \in 1..Len(list)}
                 f == [i \in 1..Len(list) |-> kind[list[i]]]
      <4>3. f \in Surjection(1..Len(list), kinds)
        BY DEF Surjection
      <4>4. IsFiniteSet(kinds)
        BY <4>1, <4>3, FS_Surjection
      <4>5. IsFiniteSet(kinds \cup {kind[q.arg]})
        BY <4>4, FS_AddElement
      <4>6. K = kinds \cup {kind[q.arg]}
        BY <4>1, <4>2
      <4> QED BY <4>5, <4>6
    <3>8. \A i \in DOMAIN list : kind[q.arg] = "any" \/ kind[list[i]] = "any" \/ kind[q.arg] = kind[list[i]]
      <4> HIDE DEF K
      <4> QED BY <3>4, <3>5, <3>7, AlikeAreOne
    <3>9. ASSUME NEW i \in DOMAIN list
          PROVE  /\ EvalBinaryOp(value[lower[q.arg]], "=", value[lower[list[i]]])
                      = AsValue(Compared(meaning[q.arg], "=", meaning[list[i]]))
                 /\ Compared(meaning[q.arg], "=", meaning[list[i]]) \in 0..2
      <4>1. "=" \in Comparisons
        BY DEF Comparisons
      <4>2. HasKind(meaning[q.arg], kind[q.arg]) /\ HasKind(meaning[list[i]], kind[list[i]])
        BY <3>6
      <4>3. /\ EvalBinaryOp(meaning[q.arg], "=", meaning[list[i]])
                  = AsValue(Compared(meaning[q.arg], "=", meaning[list[i]]))
            /\ Compared(meaning[q.arg], "=", meaning[list[i]]) \in 0..2
        BY <3>8, <4>1, <4>2, ComparisonMeans
      <4> QED BY <3>6, <4>3
    <3>10. t \in [DOMAIN list -> 0..2] /\ \A i \in DOMAIN list : t[i] = Compared(meaning[q.arg], "=", meaning[list[i]])
      BY <3>9
    <3>11. items \in Seq(Range(items)) /\ items # <<>> /\ DOMAIN items = DOMAIN list
      <4>1. DOMAIN list = 1..Len(list) /\ Len(list) \in Nat \ {0}
        BY <3>1
      <4>2. items \in [1..Len(list) -> Range(items)]
        BY <4>1 DEF Range
      <4>3. items \in Seq(Range(items)) /\ Len(items) = Len(list)
        BY <4>1, <4>2
      <4> QED BY <4>1, <4>3
    <3>12. \A i \in DOMAIN list : items[i] = lower[list[i]]
      OBVIOUS
    <3>13. lower[q] = IsFalseIf(q.negated, AnyOf(lower[q.arg], items))
      BY <2>0, <2>10 DEF LoweredBy
    <3> DEFINE most == LargestInt({t[i] : i \in DOMAIN list})
    <3>14. {t[i] : i \in DOMAIN list} = {Compared(meaning[q.arg], "=", meaning[list[i]]) : i \in DOMAIN list}
      BY <3>10
    <3>15. meaning[q] = AsValue(IF q.negated THEN 2 - most ELSE most)
      <4>1. meaning[q] = AsValue(IF q.negated
              THEN 2 - LargestInt({Compared(meaning[q.arg], "=", meaning[list[i]]) : i \in DOMAIN list})
              ELSE LargestInt({Compared(meaning[q.arg], "=", meaning[list[i]]) : i \in DOMAIN list}))
        BY <2>0, <2>10 DEF MeansBy
      <4> HIDE DEF t
      <4> QED BY <3>14, <4>1
    <3>16. most \in 0..2
      <4>1. 1 \in DOMAIN list
        BY <3>1
      <4> HIDE DEF t
      <4>2. {t[i] : i \in DOMAIN list} \in SUBSET (0..2) /\ {t[i] : i \in DOMAIN list} # {}
        BY <3>10, <4>1
      <4> QED BY <4>2, LargestTruth
    <3> HIDE DEF t, items
    <3>17. AnyOf(lower[q.arg], items) \in S => value[AnyOf(lower[q.arg], items)] = AsValue(most)
      <4>1. \A i \in DOMAIN items : EvalBinaryOp(value[lower[q.arg]], "=", value[items[i]]) = AsValue(t[i])
        BY <3>9, <3>10, <3>11, <3>12
      <4>2. t \in [DOMAIN items -> 0..2]
        BY <3>10, <3>11
      <4>3. most = LargestInt({t[i] : i \in DOMAIN items})
        BY <3>11
      <4> HIDE DEF most
      <4> QED BY <3>11, <4>1, <4>2, <4>3, AnyOfMeans
    <3> HIDE DEF most
    <3>18. value[lower[q]] = AsValue(IF q.negated THEN 2 - most ELSE most)
      BY <2>3, <3>1, <3>13, <3>16, <3>17, IsFalseMeans
    <3>19. (IF q.negated THEN 2 - most ELSE most) \in 0..2
      BY <3>16
    <3> QED BY <3>4, <3>15, <3>18, <3>19, TruthKinds
  <2>11. CASE q.e = "between"
    <3> DEFINE x == q.arg
               low == q.low
               high == q.high
               least == Compared(meaning[x], ">=", meaning[low])
               most == Compared(meaning[x], "<=", meaning[high])
               both == IF least < most THEN least ELSE most
               above == Binary(lower[x], ">=", lower[low])
               below == Binary(lower[x], "<=", lower[high])
    <3>1. /\ x \in T /\ depth[x] < depth[q] /\ lowerable[x]
          /\ low \in T /\ depth[low] < depth[q] /\ lowerable[low]
          /\ high \in T /\ depth[high] < depth[q] /\ lowerable[high]
      BY <2>0, <2>11, SqlPartsOf DEF LoweredBy
    <3> DEFINE K == {kind[x], kind[low], kind[high]}
    <3>2. kind[q] = "bool" /\ Alike(K) /\ "bool" \notin K
      BY <2>0, <2>11 DEF TypedBy
    <3>3. kind[x] # "bad" /\ kind[low] # "bad" /\ kind[high] # "bad"
      BY <3>2 DEF Alike
    <3>4. Right(x) /\ Right(low) /\ Right(high)
      BY <2>2, <3>1, <3>3
    <3>5. IsFiniteSet(K)
      <4>1. IsFiniteSet({kind[x]} \cup {kind[low]})
        BY FS_Singleton, FS_AddElement
      <4>2. IsFiniteSet(({kind[x]} \cup {kind[low]}) \cup {kind[high]})
        BY <4>1, FS_AddElement
      <4>3. ({kind[x]} \cup {kind[low]}) \cup {kind[high]} = K
        OBVIOUS
      <4> QED BY <4>2, <4>3
    <3>6. \A k, m \in K : k = "any" \/ m = "any" \/ k = m
      <4> HIDE DEF K
      <4> QED BY <3>2, <3>5, AlikeAreOne
    <3>7. /\ EvalBinaryOp(meaning[x], ">=", meaning[low]) = AsValue(least) /\ least \in 0..2
          /\ EvalBinaryOp(meaning[x], "<=", meaning[high]) = AsValue(most) /\ most \in 0..2
      <4>1. ">=" \in Comparisons /\ "<=" \in Comparisons
        BY DEF Comparisons
      <4>2. kind[x] # "bool" /\ kind[low] # "bool" /\ kind[high] # "bool"
        BY <3>2
      <4>3. HasKind(meaning[x], kind[x]) /\ HasKind(meaning[low], kind[low]) /\ HasKind(meaning[high], kind[high])
        BY <3>4
      <4>4. /\ kind[x] = "any" \/ kind[low] = "any" \/ kind[x] = kind[low]
            /\ kind[x] = "any" \/ kind[high] = "any" \/ kind[x] = kind[high]
        BY <3>6
      <4>5. EvalBinaryOp(meaning[x], ">=", meaning[low]) = AsValue(least) /\ least \in 0..2
        BY <4>1, <4>2, <4>3, <4>4, ComparisonMeans
      <4>6. EvalBinaryOp(meaning[x], "<=", meaning[high]) = AsValue(most) /\ most \in 0..2
        BY <4>1, <4>2, <4>3, <4>4, ComparisonMeans
      <4> QED BY <4>5, <4>6
    <3>8. lower[q] = IsFalseIf(q.negated, Binary(above, "AND", below))
      BY <2>0, <2>11 DEF LoweredBy
    <3>9. meaning[q] = AsValue(IF q.negated THEN 2 - both ELSE both)
      BY <2>0, <2>11 DEF MeansBy
    <3> HIDE DEF least, most
    <3>10. both \in 0..2
      BY <3>7
    <3>11. Binary(above, "AND", below) \in S => value[Binary(above, "AND", below)] = AsValue(both)
      <4> SUFFICES ASSUME Binary(above, "AND", below) \in S
                   PROVE  value[Binary(above, "AND", below)] = AsValue(both)
        OBVIOUS
      <4>1. above \in S /\ below \in S
        <5> HIDE DEF above, below
        <5> QED BY PartsOf, Forms
      <4>2. value[above] = EvalBinaryOp(value[lower[x]], ">=", value[lower[low]])
        BY <4>1, EvalForms, Forms
      <4>3. value[below] = EvalBinaryOp(value[lower[x]], "<=", value[lower[high]])
        BY <4>1, EvalForms, Forms
      <4>4. value[above] = AsValue(least) /\ value[below] = AsValue(most)
        BY <3>4, <3>7, <4>2, <4>3
      <4> HIDE DEF above, below
      <4>5. value[Binary(above, "AND", below)] = EvalBinaryOp(AsValue(least), "AND", AsValue(most))
        BY <4>4, EvalForms, Forms
      <4> QED BY <3>7, <4>5, JunctionMeans, TruthFacts
    <3> HIDE DEF both
    <3>12. q.negated \in BOOLEAN
      BY <2>1, <2>11, SqlShapes
    <3>13. value[lower[q]] = AsValue(IF q.negated THEN 2 - both ELSE both)
      <4> DEFINE e == Binary(above, "AND", below)
      <4>1. IsFalseIf(q.negated, e) \in S /\ (e \in S => value[e] = AsValue(both))
        BY <2>3, <3>8, <3>11
      <4> HIDE DEF e
      <4>2. value[IsFalseIf(q.negated, e)] = AsValue(IF q.negated THEN 2 - both ELSE both)
        BY <3>10, <3>12, <4>1, IsFalseMeans
      <4> QED BY <3>8, <4>2 DEF e
    <3>14. (IF q.negated THEN 2 - both ELSE both) \in 0..2
      BY <3>10
    <3> QED BY <3>2, <3>9, <3>13, <3>14, TruthKinds
  <2> QED BY <2>1, <2>3, <2>4, <2>5, <2>6, <2>7, <2>8, <2>9, <2>10, <2>11, SqlShapes
<1>2. \A q \in T : (\A x \in T : depth[x] < depth[q] => x \in P) => q \in P
  BY <1>1
<1>3. depth \in [T -> Nat]
  BY DEF Sentences
<1> HIDE DEF P
<1>4. T \subseteq P
  BY <1>2, <1>3, RankInduction
<1> QED BY <1>4 DEF P

\* WHERE keeps exactly the rows for which its predicate is true by the rules of
\* SQL: what it is lowered to and folded to evaluates to what it means, and if
\* there is machine code for that, the code answers TriTrue for those rows
\* (lower/expr.rs:33, constant_fold.rs:105, filter.rs:36, jit lib.rs:152).
THEOREM WhereIsExact ==
  ASSUME NEW S, NEW rank, Expressions(S, rank), NEW T, NEW depth, Sentences(T, depth),
         NEW lowerable, NEW lower, Lowers(lowerable, lower, T, S), NEW fold, Folds(fold, S),
         NEW columns, NEW rows, TypedRows(columns, rows), NEW k \in DOMAIN rows,
         NEW env, env.columns = columns, env.row = rows[k],
         NEW schema, Suits(env, schema), NEW kind, Types(kind, T, schema),
         NEW meaning, Means(meaning, T, env), SumsFit(meaning, T),
         NEW value, Evaluates(value, S, columns, rows[k]),
         NEW compiles, Accepts(compiles, S, Tracked(columns, rows)),
         NEW code, Runs(code, S, Tracked(columns, rows), rows[k]),
         NEW q \in T, lowerable[q], kind[q] \in {"bool", "any"}
  PROVE  /\ meaning[q] \in Truths
         /\ value[fold[lower[q]]] = meaning[q]
         /\ compiles[fold[lower[q]]] => (code[fold[lower[q]]] = TriTrue <=> meaning[q] = True)
<1>1. Evaluates(value, S, env.columns, env.row)
  OBVIOUS
<1>2. value[lower[q]] = meaning[q] /\ HasKind(meaning[q], kind[q])
  BY <1>1, LoweringKeepsMeaning
<1>3. meaning[q] \in Truths
  BY <1>2, TruthKinds
<1>4. lower[q] \in S /\ fold[lower[q]] \in S
  BY DEF Lowers, Folds
<1>5. value[fold[lower[q]]] = value[lower[q]]
  BY <1>4, FoldingKeepsValues
<1>6. ~Fails(value[fold[lower[q]]])
  BY <1>2, <1>3, <1>5, ValueFacts
<1>7. compiles[fold[lower[q]]] => (code[fold[lower[q]]] = TriTrue <=> value[fold[lower[q]]] = True)
  BY <1>4, <1>6, CompiledCodeAgrees
<1> QED BY <1>2, <1>3, <1>5, <1>7

(***************************************************************************)
(* The recursions over expressions are there.                              *)
(***************************************************************************)

\* The four recursions at a node, as one.
Node(e, columns, row, tracked, value, fold, compiles, code) ==
    [value    |-> EvalOf(e, columns, row, value),
     fold     |-> FoldOf(e, fold),
     compiles |-> CompilesOf(e, tracked, compiles),
     code     |-> CompiledOf(e, tracked, row, code)]
NodeOf(e, columns, row, tracked, all, S) ==
    Node(e, columns, row, tracked, [x \in S |-> all[x].value], [x \in S |-> all[x].fold],
         [x \in S |-> all[x].compiles], [x \in S |-> all[x].code])

\* A node looks at nothing but its parts.
LEMMA NodeReadsParts ==
  ASSUME NEW S, NEW rank, Expressions(S, rank), NEW e \in S, NEW columns, NEW row, NEW tracked,
         NEW f, NEW g, \A x \in S : rank[x] < rank[e] => f[x] = g[x]
  PROVE  NodeOf(e, columns, row, tracked, f, S) = NodeOf(e, columns, row, tracked, g, S)
<1> DEFINE v(h) == [x \in S |-> h[x].value]
           w(h) == [x \in S |-> h[x].fold]
           y(h) == [x \in S |-> h[x].compiles]
           z(h) == [x \in S |-> h[x].code]
<1>1. IsExpr(e)
  BY DEF Expressions
<1>2. \A x \in S : rank[x] < rank[e] =>
         v(f)[x] = v(g)[x] /\ w(f)[x] = w(g)[x] /\ y(f)[x] = y(g)[x] /\ z(f)[x] = z(g)[x]
  OBVIOUS
<1>3. \A h : NodeOf(e, columns, row, tracked, h, S) = Node(e, columns, row, tracked, v(h), w(h), y(h), z(h))
  BY DEF NodeOf
<1> HIDE DEF v, w, y, z
<1>4. Node(e, columns, row, tracked, v(f), w(f), y(f), z(f)) = Node(e, columns, row, tracked, v(g), w(g), y(g), z(g))
  <2>1. CASE e.e \in {"column", "literal"}
    BY <2>1 DEF Node, EvalOf, EvalNode, FoldOf, FoldNode, CompilesOf, CompilesNode, CompiledOf, CompiledNode
  <2>2. CASE e.e = "binary"
    <3>1. e.left \in S /\ rank[e.left] < rank[e] /\ e.right \in S /\ rank[e.right] < rank[e]
      BY <2>2, PartsOf
    <3> QED BY <1>2, <2>2, <3>1 DEF Node, EvalOf, EvalNode, FoldOf, FoldNode, CompilesOf, CompilesNode, CompiledOf, CompiledNode
  <2>3. CASE e.e = "isnull"
    <3>1. e.arg \in S /\ rank[e.arg] < rank[e]
      BY <2>3, PartsOf
    <3> QED BY <1>2, <2>3, <3>1 DEF Node, EvalOf, EvalNode, FoldOf, FoldNode, CompilesOf, CompilesNode, CompiledOf, CompiledNode
  <2>4. CASE e.e = "like"
    <3>1. e.arg \in S /\ rank[e.arg] < rank[e] /\ e.pattern \in S /\ rank[e.pattern] < rank[e]
      BY <2>4, PartsOf
    <3> QED BY <1>2, <2>4, <3>1 DEF Node, EvalOf, EvalNode, FoldOf, FoldNode, CompilesOf, CompilesNode, CompiledOf, CompiledNode
  <2> QED BY <1>1, <2>1, <2>2, <2>3, <2>4, Shapes
<1> QED BY <1>3, <1>4

\* Over any set of expressions, eval_expr, fold_expr and codegen_predicate have
\* results: the functions that the theorems above are about exist.
THEOREM RecursionsExist ==
  ASSUME NEW S, NEW rank, Expressions(S, rank), NEW columns, NEW row, NEW tracked
  PROVE  /\ \E value : Evaluates(value, S, columns, row)
         /\ \E fold : Returns(fold, S)
         /\ \E compiles : Accepts(compiles, S, tracked)
         /\ \E code : Runs(code, S, tracked, row)
<1> DEFINE N(e, f) == NodeOf(e, columns, row, tracked, f, S)
           Solves(f, n) == \A e \in S : rank[e] < n => f[e] = N(e, f)
<1>1. rank \in [S -> Nat]
  BY DEF Expressions
<1>2. ASSUME NEW e \in S, NEW f, NEW g, \A x \in S : rank[x] < rank[e] => f[x] = g[x]
      PROVE  N(e, f) = N(e, g)
  BY <1>2, NodeReadsParts
<1> HIDE DEF N
<1>3. ASSUME NEW n \in Nat PROVE \E f : Solves(f, n)
  <2> DEFINE P == {m \in 0..n : \E f : Solves(f, m)}
  <2>1. 0 \in P
    <3>1. \A e \in S : ~(rank[e] < 0)
      BY <1>1
    <3> QED BY <3>1
  <2>2. ASSUME NEW m \in 1..n, m - 1 \in P PROVE m \in P
    <3>1. PICK f : Solves(f, m - 1)
      BY <2>2
    <3> DEFINE g == [e \in S |-> IF rank[e] < m - 1 THEN f[e] ELSE N(e, f)]
    <3>2. \A e \in S : g[e] = IF rank[e] < m - 1 THEN f[e] ELSE N(e, f)
      OBVIOUS
    <3> HIDE DEF g
    <3>3. ASSUME NEW e \in S, rank[e] < m PROVE g[e] = N(e, g)
      <4>1. \A x \in S : rank[x] < rank[e] => rank[x] < m - 1
        BY <1>1, <3>3
      <4>2. N(e, f) = N(e, g)
        BY <1>2, <3>2, <4>1
      <4>3. g[e] = N(e, f)
        BY <3>1, <3>2
      <4> QED BY <4>2, <4>3
    <3>4. Solves(g, m)
      BY <3>3
    <3> HIDE DEF Solves
    <3> QED BY <3>4
  <2> HIDE DEF P
  <2>3. 0..n \subseteq P
    BY <2>1, <2>2, UpTo
  <2> QED BY <2>3 DEF P
<1>4. ASSUME NEW f, NEW n \in Nat, Solves(f, n), NEW g, NEW m \in Nat, Solves(g, m)
      PROVE  \A e \in S : rank[e] < n /\ rank[e] < m => f[e] = g[e]
  <2> DEFINE P == {e \in S : rank[e] < n /\ rank[e] < m => f[e] = g[e]}
  <2>1. ASSUME NEW e \in S, \A x \in S : rank[x] < rank[e] => x \in P PROVE e \in P
    <3> SUFFICES ASSUME rank[e] < n, rank[e] < m PROVE f[e] = g[e]
      OBVIOUS
    <3>1. \A x \in S : rank[x] < rank[e] => f[x] = g[x]
      BY <1>1, <2>1
    <3>2. N(e, f) = N(e, g)
      BY <1>2, <3>1
    <3> QED BY <1>4, <3>2
  <2> HIDE DEF P
  <2>2. S \subseteq P
    BY <1>1, <2>1, RankInduction
  <2> QED BY <2>2 DEF P
<1> DEFINE upTo(n) == CHOOSE f : Solves(f, n)
           all == [e \in S |-> upTo(rank[e] + 1)[e]]
<1>5. \A n \in Nat : Solves(upTo(n), n)
  <2> HIDE DEF Solves
  <2> QED BY <1>3
<1>6. \A e \in S : all[e] = upTo(rank[e] + 1)[e]
  OBVIOUS
<1> HIDE DEF upTo, all
<1>7. ASSUME NEW e \in S PROVE all[e] = N(e, all)
  <2> DEFINE f == upTo(rank[e] + 1)
  <2>1. rank[e] \in Nat /\ rank[e] + 1 \in Nat /\ rank[e] < rank[e] + 1
    BY <1>1
  <2>2. Solves(f, rank[e] + 1)
    BY <1>5, <2>1
  <2>3. f[e] = N(e, f)
    BY <2>1, <2>2
  <2>4. ASSUME NEW x \in S, rank[x] < rank[e] PROVE f[x] = all[x]
    <3>1. rank[x] \in Nat /\ rank[x] + 1 \in Nat /\ rank[x] < rank[x] + 1 /\ rank[x] < rank[e] + 1
      BY <1>1, <2>1, <2>4
    <3>2. Solves(upTo(rank[x] + 1), rank[x] + 1)
      BY <1>5, <3>1
    <3> HIDE DEF Solves
    <3>3. f[x] = upTo(rank[x] + 1)[x]
      BY <1>4, <2>1, <2>2, <3>1, <3>2
    <3> QED BY <1>6, <3>3
  <2> HIDE DEF f
  <2>5. N(e, f) = N(e, all)
    BY <1>2, <2>4
  <2> QED BY <1>6, <2>3, <2>5 DEF f
<1> DEFINE value == [e \in S |-> all[e].value]
           fold == [e \in S |-> all[e].fold]
           compiles == [e \in S |-> all[e].compiles]
           code == [e \in S |-> all[e].code]
<1>8. \A e \in S : /\ value[e] = all[e].value /\ fold[e] = all[e].fold
                    /\ compiles[e] = all[e].compiles /\ code[e] = all[e].code
  OBVIOUS
<1>9. ASSUME NEW e \in S
      PROVE  /\ value[e] = EvalOf(e, columns, row, value) /\ fold[e] = FoldOf(e, fold)
             /\ compiles[e] = CompilesOf(e, tracked, compiles) /\ code[e] = CompiledOf(e, tracked, row, code)
  <2>1. all[e] = Node(e, columns, row, tracked, value, fold, compiles, code)
    BY <1>7 DEF N, NodeOf
  <2> HIDE DEF value, fold, compiles, code
  <2>2. /\ all[e].value = EvalOf(e, columns, row, value) /\ all[e].fold = FoldOf(e, fold)
        /\ all[e].compiles = CompilesOf(e, tracked, compiles) /\ all[e].code = CompiledOf(e, tracked, row, code)
    BY <2>1 DEF Node
  <2> QED BY <1>8, <2>2
<1> HIDE DEF value, fold, compiles, code
<1>10. Evaluates(value, S, columns, row)
  BY <1>9 DEF Evaluates
<1>11. Returns(fold, S)
  BY <1>9 DEF Returns
<1>12. Accepts(compiles, S, tracked)
  BY <1>9 DEF Accepts
<1>13. Runs(code, S, tracked, row)
  BY <1>9 DEF Runs
<1> QED BY <1>10, <1>11, <1>12, <1>13

(***************************************************************************)
(* The order of rows.                                                      *)
(***************************************************************************)

\* The content of a value is a sequence of integers.
LEMMA Contents ==
  ASSUME NEW v \in Values
  PROVE  v.v \in Seq(Int)
<1>1. CASE v = Null
  BY <1>1 DEF Null, Val
<1>2. CASE \E n \in Int : v = IntVal(n) \/ v = FloatVal(n)
  <2>1. PICK n \in Int : v = IntVal(n) \/ v = FloatVal(n)
    BY <1>2
  <2>2. v.v = <<n>>
    BY <2>1 DEF IntVal, FloatVal, Val
  <2> QED BY <2>2
<1>3. CASE \E s \in Seq(Nat) : v = TextVal(s)
  <2>1. PICK s \in Seq(Nat) : v = TextVal(s)
    BY <1>3
  <2>2. v.v = s
    BY <2>1 DEF TextVal, Val
  <2>3. s \in Seq(Int)
    OBVIOUS
  <2> QED BY <2>2, <2>3
<1>4. CASE v \in {True, False}
  <2>1. v.v = <<1>> \/ v.v = <<0>>
    BY <1>4 DEF True, False, BoolVal, Val
  <2>2. <<1>> \in Seq(Int) /\ <<0>> \in Seq(Int)
    OBVIOUS
  <2> QED BY <2>1, <2>2
<1> QED BY <1>1, <1>2, <1>3, <1>4 DEF Values

\* The order of contents is strict.
LEMMA PrecedesIrreflexive ==
  ASSUME NEW s \in Seq(Int)
  PROVE  ~Precedes(s, s)
<1> SUFFICES ASSUME NEW i \in 1..Len(s), i = Len(s) + 1 \/ s[i] < s[i] PROVE FALSE
  BY DEF Precedes
<1>1. s[i] \in Int
  OBVIOUS
<1>2. i # Len(s) + 1
  OBVIOUS
<1> QED BY <1>1, <1>2

\* The order of contents is transitive.
LEMMA PrecedesTransitive ==
  ASSUME NEW s \in Seq(Int), NEW t \in Seq(Int), NEW u \in Seq(Int), Precedes(s, t), Precedes(t, u)
  PROVE  Precedes(s, u)
<1>1. PICK i \in 1..Len(t) : /\ i <= Len(s) + 1 /\ \A j \in 1..i - 1 : s[j] = t[j]
                             /\ i = Len(s) + 1 \/ s[i] < t[i]
  BY DEF Precedes
<1>2. PICK m \in 1..Len(u) : /\ m <= Len(t) + 1 /\ \A j \in 1..m - 1 : t[j] = u[j]
                             /\ m = Len(t) + 1 \/ t[m] < u[m]
  BY DEF Precedes
<1>3. Len(s) \in Nat /\ Len(t) \in Nat /\ Len(u) \in Nat
  OBVIOUS
<1>4. CASE i < m
  <2>1. i \in 1..Len(u) /\ i \in 1..m - 1 /\ \A j \in 1..i - 1 : j \in 1..m - 1
    BY <1>3, <1>4
  <2>2. t[i] = u[i] /\ \A j \in 1..i - 1 : s[j] = u[j]
    BY <1>1, <1>2, <2>1
  <2> QED BY <1>1, <2>1, <2>2 DEF Precedes
<1>5. CASE i = m
  <2>1. i \in 1..Len(u) /\ m # Len(t) + 1 /\ \A j \in 1..i - 1 : s[j] = u[j]
    BY <1>1, <1>2, <1>3, <1>5
  <2>2. i = Len(s) + 1 \/ s[i] < u[i]
    <3>1. CASE i = Len(s) + 1
      BY <3>1
    <3>2. CASE i # Len(s) + 1
      <4>1. i \in 1..Len(s)
        BY <1>1, <1>3, <3>2
      <4>2. s[i] \in Int /\ t[i] \in Int /\ u[i] \in Int
        BY <2>1, <4>1
      <4>3. s[i] < t[i] /\ t[i] < u[i]
        BY <1>1, <1>2, <1>5, <2>1, <3>2
      <4> QED BY <4>2, <4>3
    <3> QED BY <3>1, <3>2
  <2> QED BY <1>1, <2>1, <2>2 DEF Precedes
<1>6. CASE m < i
  <2>1. m \in 1..Len(s) /\ m \in 1..i - 1 /\ m # Len(t) + 1 /\ \A j \in 1..m - 1 : j \in 1..i - 1
    BY <1>1, <1>3, <1>6
  <2>2. s[m] = t[m] /\ t[m] < u[m] /\ \A j \in 1..m - 1 : s[j] = u[j]
    BY <1>1, <1>2, <2>1
  <2>3. m <= Len(s) + 1
    BY <1>3, <2>1
  <2> QED BY <2>2, <2>3 DEF Precedes
<1> QED BY <1>4, <1>5, <1>6

\* The order of contents is total.
LEMMA PrecedesTotal ==
  ASSUME NEW s \in Seq(Int), NEW t \in Seq(Int)
  PROVE  Precedes(s, t) \/ s = t \/ Precedes(t, s)
<1> DEFINE N == {i \in 1..Len(s) + 1 : i <= Len(t) + 1 /\ (i = Len(s) + 1 \/ i = Len(t) + 1 \/ s[i] # t[i])}
<1>1. Len(s) \in Nat /\ Len(t) \in Nat
  OBVIOUS
<1>2. N \in SUBSET Nat /\ N # {}
  <2>1. CASE Len(s) <= Len(t)
    <3>1. Len(s) + 1 \in N
      BY <1>1, <2>1
    <3> QED BY <3>1
  <2>2. CASE Len(t) <= Len(s)
    <3>1. Len(t) + 1 \in N
      BY <1>1, <2>2
    <3> QED BY <3>1
  <2> QED BY <1>1, <2>1, <2>2
<1>3. PICK i \in N : \A m \in N : i <= m
  BY <1>2, LeastNumber
<1>4. i \in 1..Len(s) + 1 /\ i <= Len(t) + 1 /\ (i = Len(s) + 1 \/ i = Len(t) + 1 \/ s[i] # t[i])
  OBVIOUS
<1>5. ASSUME NEW j \in 1..i - 1 PROVE s[j] = t[j]
  <2>1. i \in Nat /\ i <= Len(s) + 1 /\ i <= Len(t) + 1
    BY <1>1, <1>4
  <2>2. j \in Nat /\ 1 <= j /\ j < i
    BY <2>1
  <2>3. j \in 1..Len(s) + 1 /\ j <= Len(t) + 1 /\ j # Len(s) + 1 /\ j # Len(t) + 1 /\ ~(i <= j)
    BY <1>1, <2>1, <2>2
  <2>4. j \notin N
    BY <1>3, <2>3
  <2> QED BY <2>3, <2>4
<1> HIDE DEF N
<1>6. CASE i = Len(s) + 1 /\ i = Len(t) + 1
  <2>1. Len(s) = Len(t) /\ \A j \in 1..Len(s) : s[j] = t[j]
    BY <1>1, <1>5, <1>6
  <2>2. s = [j \in 1..Len(s) |-> s[j]] /\ t = [j \in 1..Len(t) |-> t[j]]
    OBVIOUS
  <2> QED BY <2>1, <2>2
<1>7. CASE i = Len(s) + 1 /\ i # Len(t) + 1
  <2>1. i \in 1..Len(t)
    BY <1>1, <1>4, <1>7
  <2> QED BY <1>4, <1>5, <1>7, <2>1 DEF Precedes
<1>8. CASE i # Len(s) + 1 /\ i = Len(t) + 1
  <2>1. i \in 1..Len(s)
    BY <1>1, <1>4, <1>8
  <2> QED BY <1>4, <1>5, <1>8, <2>1 DEF Precedes
<1>9. CASE i # Len(s) + 1 /\ i # Len(t) + 1
  <2>1. i \in 1..Len(s) /\ i \in 1..Len(t)
    BY <1>1, <1>4, <1>9
  <2>2. s[i] \in Int /\ t[i] \in Int /\ s[i] # t[i]
    BY <1>4, <1>9, <2>1
  <2>3. s[i] < t[i] \/ t[i] < s[i]
    BY <2>2
  <2>4. i <= Len(s) + 1 /\ i <= Len(t) + 1
    BY <1>4
  <2> QED BY <1>5, <2>1, <2>3, <2>4 DEF Precedes
<1> QED BY <1>6, <1>7, <1>8, <1>9

\* The order of values of one kind, NULLs among them, in either direction.
LEMMA SortsBeforeOrders ==
  ASSUME NEW a \in Values, NEW b \in Values, NEW desc \in BOOLEAN, a = Null \/ b = Null \/ a.kind = b.kind
  PROVE  /\ ~SortsBefore(a, a, desc)
         /\ SortsBefore(a, b, desc) => ~SortsBefore(b, a, desc)
         /\ ~SortsBefore(a, b, desc) /\ ~SortsBefore(b, a, desc) => a = b
         /\ SortsBefore(a, b, desc) <=> /\ a # b /\ a # Null
                                        /\ b = Null \/ (IF desc THEN Precedes(b.v, a.v) ELSE Precedes(a.v, b.v))
<1>2. a.v \in Seq(Int) /\ b.v \in Seq(Int)
  BY Contents
<1>3. ~Precedes(a.v, a.v) /\ ~Precedes(b.v, b.v)
  BY <1>2, PrecedesIrreflexive
<1>4. Precedes(a.v, b.v) => ~Precedes(b.v, a.v)
  BY <1>2, <1>3, PrecedesTransitive
<1>5. Precedes(a.v, b.v) \/ a.v = b.v \/ Precedes(b.v, a.v)
  BY <1>2, PrecedesTotal
<1>6. a # Null /\ b # Null /\ a.v = b.v => a = b
  BY DEF Values, Null, IntVal, FloatVal, TextVal, True, False, BoolVal, Val
<1>7. CASE a = Null \/ b = Null
  BY <1>3, <1>7 DEF SortsBefore
<1>8. CASE a # Null /\ b # Null
  <2>1. /\ SortsBefore(a, b, desc) <=> IF desc THEN Precedes(b.v, a.v) ELSE Precedes(a.v, b.v)
        /\ SortsBefore(b, a, desc) <=> IF desc THEN Precedes(a.v, b.v) ELSE Precedes(b.v, a.v)
        /\ ~SortsBefore(a, a, desc)
    BY <1>3, <1>8 DEF SortsBefore
  <2>2. desc = TRUE \/ desc = FALSE
    OBVIOUS
  <2> QED BY <1>3, <1>4, <1>5, <1>6, <1>8, <2>1, <2>2
<1> QED BY <1>7, <1>8

\* The order of values of one kind is transitive.
LEMMA SortsBeforeTransitive ==
  ASSUME NEW a \in Values, NEW b \in Values, NEW c \in Values, NEW desc \in BOOLEAN,
         a = Null \/ b = Null \/ a.kind = b.kind, b = Null \/ c = Null \/ b.kind = c.kind,
         SortsBefore(a, b, desc), SortsBefore(b, c, desc)
  PROVE  SortsBefore(a, c, desc)
<1>2. a.v \in Seq(Int) /\ b.v \in Seq(Int) /\ c.v \in Seq(Int)
  BY Contents
<1>3. a # Null /\ b # Null
  BY DEF SortsBefore
<1>4. CASE c = Null
  BY <1>3, <1>4 DEF SortsBefore
<1>5. CASE c # Null
  <2>1. a.kind = b.kind /\ b.kind = c.kind
    BY <1>3, <1>5
  <2>2. CASE desc
    <3>1. Precedes(b.v, a.v) /\ Precedes(c.v, b.v)
      BY <1>3, <1>5, <2>2 DEF SortsBefore
    <3>2. Precedes(c.v, a.v)
      BY <1>2, <3>1, PrecedesTransitive
    <3> QED BY <1>3, <1>5, <2>1, <2>2, <3>2 DEF SortsBefore
  <2>3. CASE ~desc
    <3>1. Precedes(a.v, b.v) /\ Precedes(b.v, c.v)
      BY <1>3, <1>5, <2>3 DEF SortsBefore
    <3>2. Precedes(a.v, c.v)
      BY <1>2, <3>1, PrecedesTransitive
    <3> QED BY <1>3, <1>5, <2>1, <2>3, <3>2 DEF SortsBefore
  <2> QED BY <2>2, <2>3
<1> QED BY <1>4, <1>5

\* Rows that ORDER BY can compare: it names columns that they have, and the
\* values of each are of one kind, or NULL.
Sortable(R, columns, order) ==
    /\ order \in Seq(Range(order))
    /\ \A k \in DOMAIN order :
          /\ order[k].desc \in BOOLEAN
          /\ ColumnIndex(columns, order[k].column) # 0
          /\ \A r, s \in R : LET x == r[ColumnIndex(columns, order[k].column)]
                                 y == s[ColumnIndex(columns, order[k].column)]
                             IN  x \in Values /\ (x = Null \/ y = Null \/ x.kind = y.kind)

\* The value of a row that the k-th key of ORDER BY looks at.
KeyOf(row, columns, order, k) == row[ColumnIndex(columns, order[k].column)]

\* What the comparator looks at.
LEMMA SortKeyFacts ==
  ASSUME NEW R, NEW columns, NEW order, Sortable(R, columns, order), NEW r \in R, NEW s \in R,
         NEW k \in DOMAIN order
  PROVE  /\ DOMAIN SortKeys(columns, order) = DOMAIN order
         /\ r[SortKeys(columns, order)[k].at] = KeyOf(r, columns, order, k)
         /\ SortKeys(columns, order)[k].desc = order[k].desc
         /\ order[k].desc \in BOOLEAN
         /\ KeyOf(r, columns, order, k) \in Values
         /\ \/ KeyOf(r, columns, order, k) = Null \/ KeyOf(s, columns, order, k) = Null
            \/ KeyOf(r, columns, order, k).kind = KeyOf(s, columns, order, k).kind
BY DEF Sortable, SortKeys, KeyOf

\* A row sorts before another by the first key in which they differ.
LEMMA RowSortsByFirst ==
  ASSUME NEW R, NEW columns, NEW order, Sortable(R, columns, order), NEW r \in R, NEW s \in R
  PROVE  RowSortsBefore(r, s, SortKeys(columns, order)) <=>
            \E k \in DOMAIN order :
                /\ SortsBefore(KeyOf(r, columns, order, k), KeyOf(s, columns, order, k), order[k].desc)
                /\ \A i \in 1..k - 1 : KeyOf(r, columns, order, i) = KeyOf(s, columns, order, i)
<1> DEFINE x(k) == KeyOf(r, columns, order, k)
           y(k) == KeyOf(s, columns, order, k)
           keys == SortKeys(columns, order)
<1>1. DOMAIN order = 1..Len(order) /\ Len(order) \in Nat
  BY DEF Sortable
<1>2. ASSUME NEW k \in DOMAIN order
      PROVE  /\ DOMAIN keys = DOMAIN order
             /\ r[keys[k].at] = x(k) /\ s[keys[k].at] = y(k) /\ keys[k].desc = order[k].desc
             /\ ~SortsBefore(x(k), y(k), order[k].desc) /\ ~SortsBefore(y(k), x(k), order[k].desc)
                <=> x(k) = y(k)
  <2>1. /\ DOMAIN keys = DOMAIN order
        /\ r[keys[k].at] = x(k) /\ s[keys[k].at] = y(k) /\ keys[k].desc = order[k].desc
        /\ x(k) \in Values /\ y(k) \in Values /\ order[k].desc \in BOOLEAN
        /\ x(k) = Null \/ y(k) = Null \/ x(k).kind = y(k).kind
    BY SortKeyFacts
  <2> HIDE DEF x, y
  <2>2. ~SortsBefore(x(k), x(k), order[k].desc)
    BY <2>1, SortsBeforeOrders
  <2>3. ~SortsBefore(x(k), y(k), order[k].desc) /\ ~SortsBefore(y(k), x(k), order[k].desc) => x(k) = y(k)
    BY <2>1, SortsBeforeOrders
  <2> QED BY <2>1, <2>2, <2>3
<1>3. \A k \in DOMAIN order : \A i \in 1..k - 1 : i \in DOMAIN order
  BY <1>1
<1>4. DOMAIN keys = DOMAIN order
  BY DEF SortKeys
<1> HIDE DEF x, y, keys
<1>5. ASSUME NEW k \in DOMAIN order
      PROVE  /\ SortsBefore(r[keys[k].at], s[keys[k].at], keys[k].desc)
             /\ \A i \in 1..k - 1 : /\ ~SortsBefore(r[keys[i].at], s[keys[i].at], keys[i].desc)
                                    /\ ~SortsBefore(s[keys[i].at], r[keys[i].at], keys[i].desc)
             <=> /\ SortsBefore(x(k), y(k), order[k].desc)
                 /\ \A i \in 1..k - 1 : x(i) = y(i)
  BY <1>2, <1>3
<1>6. RowSortsBefore(r, s, keys) <=>
        \E k \in DOMAIN order : /\ SortsBefore(x(k), y(k), order[k].desc)
                                /\ \A i \in 1..k - 1 : x(i) = y(i)
  BY <1>4, <1>5 DEF RowSortsBefore
<1> QED BY <1>6 DEF x, y, keys

\* The comparator of sort is the order that ORDER BY asks for, NULLs last in
\* both directions, and what sort_by needs to sort at all: a strict order in
\* which only rows that agree on every key are tied (sort.rs:26, :45).
THEOREM SortComparatorIsAnOrder ==
  ASSUME NEW R, NEW columns, NEW order, Sortable(R, columns, order),
         NEW r \in R, NEW s \in R, NEW t \in R
  PROVE  LET before(x, y) == RowSortsBefore(x, y, SortKeys(columns, order))
         IN  /\ before(r, s) <=> Earlier(r, s, order, columns)
             /\ ~before(r, r)
             /\ before(r, s) /\ before(s, t) => before(r, t)
             /\ ~before(r, s) /\ ~before(s, r) <=>
                   \A k \in DOMAIN order : KeyOf(r, columns, order, k) = KeyOf(s, columns, order, k)
<1> DEFINE key(row, k) == KeyOf(row, columns, order, k)
           sorts(x, y, k) == SortsBefore(key(x, k), key(y, k), order[k].desc)
           tied(x, y, k) == \A i \in 1..k - 1 : key(x, i) = key(y, i)
           before(x, y) == RowSortsBefore(x, y, SortKeys(columns, order))
<1>1. DOMAIN order = 1..Len(order) /\ Len(order) \in Nat
  BY DEF Sortable
<1>2. ASSUME NEW x \in R, NEW y \in R
      PROVE  before(x, y) <=> \E k \in DOMAIN order : sorts(x, y, k) /\ tied(x, y, k)
  BY RowSortsByFirst
<1>3. ASSUME NEW x \in R, NEW y \in R, NEW k \in DOMAIN order
      PROVE  /\ key(x, k) \in Values /\ order[k].desc \in BOOLEAN
             /\ key(x, k) = Null \/ key(y, k) = Null \/ key(x, k).kind = key(y, k).kind
  BY SortKeyFacts
<1>4. ASSUME NEW x \in R, NEW y \in R, NEW k \in DOMAIN order
      PROVE  /\ sorts(x, y, k) => ~sorts(y, x, k)
             /\ ~sorts(x, y, k) /\ ~sorts(y, x, k) => key(x, k) = key(y, k)
             /\ key(x, k) = key(y, k) => ~sorts(x, y, k)
             /\ sorts(x, y, k) <=> /\ key(x, k) # key(y, k) /\ key(x, k) # Null
                                   /\ \/ key(y, k) = Null
                                      \/ IF order[k].desc THEN Precedes(key(y, k).v, key(x, k).v)
                                         ELSE Precedes(key(x, k).v, key(y, k).v)
  <2>1. /\ key(x, k) \in Values /\ key(y, k) \in Values /\ order[k].desc \in BOOLEAN
        /\ key(x, k) = Null \/ key(y, k) = Null \/ key(x, k).kind = key(y, k).kind
    BY <1>3
  <2> HIDE DEF key
  <2>2. ~SortsBefore(key(x, k), key(x, k), order[k].desc)
    BY <2>1, SortsBeforeOrders
  <2> QED BY <2>1, <2>2, SortsBeforeOrders
<1>5. ASSUME NEW x \in R, NEW y \in R, NEW z \in R, NEW k \in DOMAIN order, sorts(x, y, k), sorts(y, z, k)
      PROVE  sorts(x, z, k)
  <2>1. /\ key(x, k) \in Values /\ key(y, k) \in Values /\ key(z, k) \in Values /\ order[k].desc \in BOOLEAN
        /\ key(x, k) = Null \/ key(y, k) = Null \/ key(x, k).kind = key(y, k).kind
        /\ key(y, k) = Null \/ key(z, k) = Null \/ key(y, k).kind = key(z, k).kind
    BY <1>3
  <2> HIDE DEF key
  <2> QED BY <1>5, <2>1, SortsBeforeTransitive
<1>6. before(r, s) <=> Earlier(r, s, order, columns)
  <2>1. Earlier(r, s, order, columns) <=>
          \E k \in DOMAIN order :
              /\ tied(r, s, k)
              /\ key(r, k) # key(s, k) /\ key(r, k) # Null
              /\ \/ key(s, k) = Null
                 \/ IF order[k].desc THEN Precedes(key(s, k).v, key(r, k).v)
                    ELSE Precedes(key(r, k).v, key(s, k).v)
    BY DEF Earlier, KeyOf
  <2> HIDE DEF key, sorts, tied, before
  <2> QED BY <1>2, <1>4, <2>1
<1>7. ~before(r, r)
  <2>1. \A k \in DOMAIN order : ~sorts(r, r, k)
    BY <1>4
  <2> HIDE DEF sorts, tied, before
  <2> QED BY <1>2, <2>1
<1>8. ASSUME before(r, s), before(s, t) PROVE before(r, t)
  <2> HIDE DEF sorts, before
  <2>1. PICK k \in DOMAIN order : sorts(r, s, k) /\ tied(r, s, k)
    BY <1>2, <1>8
  <2>2. PICK m \in DOMAIN order : sorts(s, t, m) /\ tied(s, t, m)
    BY <1>2, <1>8
  <2> HIDE DEF key
  <2>3. CASE k = m
    <3>1. sorts(r, t, k)
      BY <1>5, <2>1, <2>2, <2>3
    <3>2. tied(r, t, k)
      BY <2>1, <2>2, <2>3
    <3> QED BY <1>2, <3>1, <3>2
  <2>4. CASE k < m
    <3>1. k \in 1..m - 1 /\ \A i \in 1..k - 1 : i \in 1..m - 1
      BY <1>1, <2>4
    <3>2. key(s, k) = key(t, k) /\ tied(r, t, k)
      BY <2>1, <2>2, <3>1
    <3>3. sorts(r, t, k)
      BY <2>1, <3>2 DEF sorts
    <3> QED BY <1>2, <3>2, <3>3
  <2>5. CASE m < k
    <3>1. m \in 1..k - 1 /\ \A i \in 1..m - 1 : i \in 1..k - 1
      BY <1>1, <2>5
    <3>2. key(r, m) = key(s, m) /\ tied(r, t, m)
      BY <2>1, <2>2, <3>1
    <3>3. sorts(r, t, m)
      BY <2>2, <3>2 DEF sorts
    <3> QED BY <1>2, <3>2, <3>3
  <2> QED BY <1>1, <2>3, <2>4, <2>5
<1>9. ASSUME \E k \in DOMAIN order : key(r, k) # key(s, k) PROVE before(r, s) \/ before(s, r)
  <2> DEFINE N == {k \in DOMAIN order : key(r, k) # key(s, k)}
  <2>1. N \in SUBSET Nat /\ N # {}
    BY <1>1, <1>9
  <2>2. PICK k \in N : \A m \in N : k <= m
    BY <2>1, LeastNumber
  <2>3. \A i \in 1..k - 1 : key(r, i) = key(s, i)
    <3> SUFFICES ASSUME NEW i \in 1..k - 1 PROVE key(r, i) = key(s, i)
      OBVIOUS
    <3>1. i \in DOMAIN order /\ ~(k <= i)
      BY <1>1
    <3> QED BY <2>2, <3>1
  <2>4. k \in DOMAIN order /\ key(r, k) # key(s, k)
    OBVIOUS
  <2> HIDE DEF N, key
  <2>5. tied(r, s, k) /\ tied(s, r, k)
    BY <2>3
  <2> HIDE DEF sorts, before, tied
  <2>6. sorts(r, s, k) \/ sorts(s, r, k)
    BY <1>4, <2>4
  <2> QED BY <1>2, <2>4, <2>5, <2>6
<1>10. ASSUME \A k \in DOMAIN order : key(r, k) = key(s, k) PROVE ~before(r, s) /\ ~before(s, r)
  <2>1. \A k \in DOMAIN order : ~sorts(r, s, k) /\ ~sorts(s, r, k)
    <3> HIDE DEF key, sorts
    <3> QED BY <1>4, <1>10
  <2> HIDE DEF sorts, before, tied, key
  <2> QED BY <1>2, <2>1
<1> HIDE DEF before
<1>11. ~before(r, s) /\ ~before(s, r) <=> \A k \in DOMAIN order : key(r, k) = key(s, k)
  BY <1>9, <1>10
<1> QED BY <1>6, <1>7, <1>8, <1>11 DEF before

(***************************************************************************)
(* Index scans.                                                            *)
(***************************************************************************)

\* Whether an index scan returns the rows with a key (indexscan.rs:10, :33).
Answers(scan, key) ==
    IF scan.op = "indexScan" THEN key = scan.key ELSE InRange(scan.lower, scan.upper, key)

\* The bounds of a scan are keys: what is no key fails with a TypeMismatch.
Searchable(scan) ==
    IF scan.op = "indexScan" THEN IsKey(scan.key)
    ELSE (scan.lower # <<>> => IsKey(scan.lower[1].key)) /\ (scan.upper # <<>> => IsKey(scan.upper[1].key))

\* The order of keys, for two of one kind and for a NULL.
LEMMA KeyOrder ==
  ASSUME NEW k \in Values, NEW l \in Values, IsKey(k), IsKey(l)
  PROVE  /\ k # Null /\ l # Null /\ k.kind = l.kind =>
               /\ KeyBefore(k, l) <=> Holds(k.v, "<", l.v)
               /\ KeyBefore(k, l) \/ k = l <=> Holds(k.v, "<=", l.v)
               /\ KeyBefore(l, k) <=> Holds(k.v, ">", l.v)
               /\ KeyBefore(l, k) \/ k = l <=> Holds(k.v, ">=", l.v)
               /\ k = l <=> Holds(k.v, "=", l.v)
         /\ k # Null /\ l = Null => KeyBefore(k, l) /\ ~KeyBefore(l, k)
         /\ k = Null /\ l # Null => ~KeyBefore(k, l) /\ KeyBefore(l, k)
         /\ ~KeyBefore(k, k)
<1>1. k.v \in Seq(Int) /\ l.v \in Seq(Int)
  BY Contents
<1>2. ~Precedes(k.v, k.v) /\ ~Precedes(l.v, l.v)
  BY <1>1, PrecedesIrreflexive
<1>3. Precedes(k.v, l.v) => ~Precedes(l.v, k.v)
  BY <1>1, <1>2, PrecedesTransitive
<1>4. Precedes(k.v, l.v) \/ k.v = l.v \/ Precedes(l.v, k.v)
  BY <1>1, PrecedesTotal
<1>5. Rank(k) \in {1, 2, 3} /\ Rank(l) \in {1, 2, 3}
  BY DEF IsKey, Rank
<1>6. (k = Null <=> k.kind = "null") /\ (l = Null <=> l.kind = "null")
  BY ValueFacts
<1>7. ~KeyBefore(k, k)
  BY <1>2, <1>5 DEF KeyBefore
<1>8. ASSUME k # Null, l # Null, k.kind = l.kind
      PROVE  /\ KeyBefore(k, l) <=> Holds(k.v, "<", l.v)
             /\ KeyBefore(k, l) \/ k = l <=> Holds(k.v, "<=", l.v)
             /\ KeyBefore(l, k) <=> Holds(k.v, ">", l.v)
             /\ KeyBefore(l, k) \/ k = l <=> Holds(k.v, ">=", l.v)
             /\ k = l <=> Holds(k.v, "=", l.v)
  <2>1. Rank(k) = Rank(l)
    BY <1>8 DEF Rank
  <2>2. KeyBefore(k, l) <=> Precedes(k.v, l.v)
    BY <1>5, <2>1 DEF KeyBefore
  <2>3. KeyBefore(l, k) <=> Precedes(l.v, k.v)
    BY <1>5, <2>1 DEF KeyBefore
  <2>4. k = l <=> k.v = l.v
    BY <1>8 DEF Values, Null, IntVal, FloatVal, TextVal, True, False, BoolVal, Val
  <2> QED BY <1>2, <1>3, <1>4, <2>2, <2>3, <2>4 DEF Holds
<1>9. ASSUME k # Null, l = Null PROVE KeyBefore(k, l) /\ ~KeyBefore(l, k)
  <2>1. Rank(l) = 3 /\ Rank(k) \in {1, 2}
    BY <1>6, <1>9 DEF IsKey, Rank
  <2> QED BY <2>1 DEF KeyBefore
<1>10. ASSUME k = Null, l # Null PROVE ~KeyBefore(k, l) /\ KeyBefore(l, k)
  <2>1. Rank(k) = 3 /\ Rank(l) \in {1, 2}
    BY <1>6, <1>10 DEF IsKey, Rank
  <2> QED BY <2>1 DEF KeyBefore
<1> QED BY <1>7, <1>8, <1>9, <1>10

\* What a comparison of two values of a statement that does not fail is.
LEMMA ComparisonValue ==
  ASSUME NEW l \in Values, NEW op \in Comparisons, NEW r \in Values, ~Fails(EvalBinaryOp(l, op, r))
  PROVE  /\ l = Null \/ r = Null => EvalBinaryOp(l, op, r) = Null
         /\ l # Null /\ r # Null => /\ l.kind = r.kind
                                    /\ EvalBinaryOp(l, op, r) = BoolVal(Holds(l.v, op, r.v))
<1>1. ~Fails(l) /\ ~Fails(r)
  BY ValueFacts
<1>2. ASSUME l = Null \/ r = Null PROVE EvalBinaryOp(l, op, r) = Null
  BY <1>1, <1>2 DEF EvalBinaryOp, WithNull, Comparisons
<1>3. ASSUME l # Null, r # Null
      PROVE  l.kind = r.kind /\ EvalBinaryOp(l, op, r) = BoolVal(Holds(l.v, op, r.v))
  <2>1. l.kind = r.kind
    BY <1>1, <1>3 DEF EvalBinaryOp, Fails, Errors, Val
  <2>2. EvalBinaryOp(l, op, r) = SameKind(l, op, r)
    BY <1>1, <1>3, <2>1 DEF EvalBinaryOp
  <2> QED BY <2>1, <2>2 DEF SameKind, Comparisons, Fails, Errors, Val
<1> QED BY <1>2, <1>3

\* A comparison of a column with a literal, whichever side it is on, is true of
\* the rows whose value is not NULL and compares so with the literal.
LEMMA OnLiteralMeans ==
  ASSUME NEW S, NEW rank, Expressions(S, rank), NEW columns, NEW row, NEW value,
         Evaluates(value, S, columns, row), NEW e \in S, e.e = "binary",
         NEW c, OnLiteral(e) = <<c>>, c.op \in Comparisons, ~Fails(value[e]),
         ColumnIndex(columns, c.column) # 0, NEW key \in Values, key = row[ColumnIndex(columns, c.column)]
  PROVE  /\ c.key \in Values
         /\ key # Null /\ c.key # Null => key.kind = c.key.kind
         /\ value[e] = True <=> key # Null /\ c.key # Null /\ Holds(key.v, c.op, c.key.v)
<1> DEFINE l == value[e.left]
           r == value[e.right]
<1>1. value[e] = EvalBinaryOp(l, e.op, r)
  BY EvalForms
<1>2. e.left \in S /\ e.right \in S
  BY PartsOf
<1>3. \A x \in S : IsExpr(x)
  BY DEF Expressions
<1>4. /\ e.left.e = "column" => l = IF ColumnIndex(columns, e.left.name) = 0 THEN Val("ColumnNotFound", <<>>)
                                    ELSE row[ColumnIndex(columns, e.left.name)]
      /\ e.left.e = "literal" => l = e.left.value /\ e.left.value \in Values
  BY <1>2, <1>3, EvalForms, Shapes
<1>5. /\ e.right.e = "column" => r = IF ColumnIndex(columns, e.right.name) = 0 THEN Val("ColumnNotFound", <<>>)
                                     ELSE row[ColumnIndex(columns, e.right.name)]
      /\ e.right.e = "literal" => r = e.right.value /\ e.right.value \in Values
  BY <1>2, <1>3, EvalForms, Shapes
<1> HIDE DEF l, r
<1>6. BoolVal(TRUE) = True /\ BoolVal(FALSE) = False
  BY DEF True, False
<1>7. True # False /\ Null # True
  BY ValueFacts
<1>8. CASE e.left.e = "column" /\ e.right.e = "literal"
  <2>1. c.column = e.left.name /\ c.op = e.op /\ c.key = e.right.value
    BY <1>8 DEF OnLiteral, IsColumn, IsLiteral
  <2>2. l = key /\ r = c.key /\ c.key \in Values
    BY <1>4, <1>5, <1>8, <2>1
  <2>3. value[e] = EvalBinaryOp(key, c.op, c.key)
    BY <1>1, <2>1, <2>2
  <2>4. CASE key = Null \/ c.key = Null
    <3>1. value[e] = Null
      BY <2>2, <2>3, <2>4, ComparisonValue
    <3> QED BY <1>7, <2>2, <2>4, <3>1
  <2>5. CASE key # Null /\ c.key # Null
    <3>1. key.kind = c.key.kind /\ value[e] = BoolVal(Holds(key.v, c.op, c.key.v))
      BY <2>2, <2>3, <2>5, ComparisonValue
    <3>2. value[e] = True <=> Holds(key.v, c.op, c.key.v)
      <4>1. CASE Holds(key.v, c.op, c.key.v)
        BY <1>6, <3>1, <4>1 DEF BoolVal
      <4>2. CASE ~Holds(key.v, c.op, c.key.v)
        BY <1>6, <1>7, <3>1, <4>2 DEF BoolVal
      <4> QED BY <4>1, <4>2
    <3> QED BY <2>2, <2>5, <3>1, <3>2
  <2> QED BY <2>4, <2>5
<1>9. CASE e.left.e = "literal" /\ e.right.e = "column"
  <2>1. c.column = e.right.name /\ c.op = Turned(e.op) /\ c.key = e.left.value
    BY <1>9 DEF OnLiteral, IsColumn, IsLiteral
  <2>2. l = c.key /\ r = key /\ c.key \in Values
    BY <1>4, <1>5, <1>9, <2>1
  <2>3. value[e] = EvalBinaryOp(c.key, e.op, key)
    BY <1>1, <2>2
  <2>4. e.op \in Comparisons
    BY <2>1 DEF Turned, Comparisons
  <2>5. CASE key = Null \/ c.key = Null
    <3>1. value[e] = Null
      BY <2>2, <2>3, <2>4, <2>5, ComparisonValue
    <3> QED BY <1>7, <2>2, <2>5, <3>1
  <2>6. CASE key # Null /\ c.key # Null
    <3>1. key.kind = c.key.kind /\ value[e] = BoolVal(Holds(c.key.v, e.op, key.v))
      BY <2>2, <2>3, <2>4, <2>6, ComparisonValue
    <3>2. Holds(c.key.v, e.op, key.v) <=> Holds(key.v, c.op, c.key.v)
      BY <2>1, <2>4 DEF Holds, Turned, Comparisons
    <3>3. value[e] = True <=> Holds(c.key.v, e.op, key.v)
      <4>1. CASE Holds(c.key.v, e.op, key.v)
        BY <1>6, <3>1, <4>1 DEF BoolVal
      <4>2. CASE ~Holds(c.key.v, e.op, key.v)
        BY <1>6, <1>7, <3>1, <4>2 DEF BoolVal
      <4> QED BY <4>1, <4>2
    <3> QED BY <2>2, <2>6, <3>1, <3>2, <3>3
  <2> QED BY <2>5, <2>6
<1>10. \/ e.left.e = "column" /\ e.right.e = "literal"
       \/ e.left.e = "literal" /\ e.right.e = "column"
  BY DEF OnLiteral, IsColumn, IsLiteral
<1> QED BY <1>8, <1>9, <1>10

\* IS NULL becomes a search for NULL, and IS NOT NULL a range that ends before it.
LEMMA NullRewrite ==
  ASSUME NEW table, NEW indexed, NEW e, e.e = "isnull", NEW scan, TryRewrite(table, indexed, e) = <<scan>>
  PROVE  /\ e.arg.e = "column" /\ scan.index = e.arg.name
         /\ ~e.negated => scan.op = "indexScan" /\ scan.key = Null
         /\ e.negated => /\ scan.op = "rangeIndexScan" /\ scan.lower = <<>> /\ scan.upper # <<>>
                         /\ scan.upper[1].key = Null /\ ~scan.upper[1].inclusive
BY DEF TryRewrite, IndexScan, RangeIndexScan, IsColumn

\* A search for a literal, or a range that it begins or ends.
SearchesFor(scan, c) ==
    /\ c.key # Null /\ scan.index = c.column
    /\ \/ c.op = "=" /\ scan.op = "indexScan" /\ scan.key = c.key
       \/ /\ c.op \in {">", ">="} /\ scan.op = "rangeIndexScan"
          /\ scan.upper = <<>> /\ scan.lower # <<>>
          /\ scan.lower[1] = [key |-> c.key, inclusive |-> c.op \in {"<=", ">="}]
       \/ /\ c.op \in {"<", "<="} /\ scan.op = "rangeIndexScan"
          /\ scan.lower = <<>> /\ scan.upper # <<>>
          /\ scan.upper[1] = [key |-> c.key, inclusive |-> c.op \in {"<=", ">="}]

\* What a comparison becomes.
LEMMA LiteralRewrite ==
  ASSUME NEW table, NEW indexed, NEW e, e.e # "isnull", NEW scan, TryRewrite(table, indexed, e) = <<scan>>
  PROVE  e.e = "binary" /\ \E c : OnLiteral(e) = <<c>> /\ SearchesFor(scan, c)
<1>1. OnLiteral(e) # <<>>
  BY DEF TryRewrite
<1>2. e.e = "binary"
  BY <1>1 DEF OnLiteral
<1>3. PICK c : OnLiteral(e) = <<c>>
  BY <1>1, <1>2 DEF OnLiteral
<1>4. OnLiteral(e)[1] = c
  BY <1>3
<1>5. c.key # Null /\ c.op \in {"=", ">", ">=", "<", "<="}
  BY <1>1, <1>4 DEF TryRewrite
<1>6. CASE c.op = "="
  <2>1. <<scan>> = <<IndexScan(table, c.column, c.key)>>
    BY <1>1, <1>4, <1>6 DEF TryRewrite
  <2>2. scan = IndexScan(table, c.column, c.key)
    BY <2>1
  <2>3. scan.index = c.column /\ scan.op = "indexScan" /\ scan.key = c.key
    BY <2>2 DEF IndexScan
  <2>4. SearchesFor(scan, c)
    BY <1>5, <1>6, <2>3 DEF SearchesFor
  <2> QED BY <1>2, <1>3, <2>4
<1>7. CASE c.op \in {">", ">="}
  <2> DEFINE b == [key |-> c.key, inclusive |-> c.op \in {"<=", ">="}]
  <2>1. <<scan>> = <<RangeIndexScan(table, c.column, <<b>>, <<>>)>>
    BY <1>1, <1>4, <1>7 DEF TryRewrite
  <2> HIDE DEF b
  <2>2. scan = RangeIndexScan(table, c.column, <<b>>, <<>>)
    BY <2>1
  <2>3. scan.index = c.column /\ scan.op = "rangeIndexScan" /\ scan.lower = <<b>> /\ scan.upper = <<>>
    BY <2>2 DEF RangeIndexScan
  <2>4. scan.lower # <<>> /\ scan.lower[1] = b
    BY <2>3
  <2>5. SearchesFor(scan, c)
    BY <1>5, <1>7, <2>3, <2>4, Zenon DEF SearchesFor, b
  <2> QED BY <1>2, <1>3, <2>5
<1>8. CASE c.op \in {"<", "<="}
  <2> DEFINE b == [key |-> c.key, inclusive |-> c.op \in {"<=", ">="}]
  <2>1. <<scan>> = <<RangeIndexScan(table, c.column, <<>>, <<b>>)>>
    BY <1>1, <1>4, <1>8 DEF TryRewrite
  <2> HIDE DEF b
  <2>2. scan = RangeIndexScan(table, c.column, <<>>, <<b>>)
    BY <2>1
  <2>3. scan.index = c.column /\ scan.op = "rangeIndexScan" /\ scan.lower = <<>> /\ scan.upper = <<b>>
    BY <2>2 DEF RangeIndexScan
  <2>4. scan.upper # <<>> /\ scan.upper[1] = b
    BY <2>3
  <2>5. SearchesFor(scan, c)
    BY <1>5, <1>8, <2>3, <2>4, Zenon DEF SearchesFor, b
  <2> QED BY <1>2, <1>3, <2>5
<1> QED BY <1>5, <1>6, <1>7, <1>8

\* An index scan returns of the rows that the index has exactly those for which
\* the filter it replaces is true, but that a range with no upper end returns
\* those of NULL too, the last keys (index_scan.rs:21, btree.rs:97).
THEOREM IndexScansAnswer ==
  ASSUME NEW S, NEW rank, Expressions(S, rank), NEW columns, NEW row, NEW value,
         Evaluates(value, S, columns, row), NEW e \in S, ~Fails(value[e]),
         NEW table, NEW indexed, NEW scan, TryRewrite(table, indexed, e) = <<scan>>, Searchable(scan),
         ColumnIndex(columns, scan.index) # 0,
         NEW key \in Values, key = row[ColumnIndex(columns, scan.index)], IsKey(key)
  PROVE  Answers(scan, key) <=> \/ value[e] = True
                                \/ scan.op = "rangeIndexScan" /\ scan.upper = <<>> /\ key = Null
<1>1. Null \in Values /\ IsKey(Null) /\ Null # True /\ True # False
  BY ValueFacts DEF Truths, IsKey, Null, Val
<1>2. CASE e.e = "isnull"
  <2>1. /\ e.arg.e = "column" /\ scan.index = e.arg.name
        /\ ~e.negated => scan.op = "indexScan" /\ scan.key = Null
        /\ e.negated => /\ scan.op = "rangeIndexScan" /\ scan.lower = <<>> /\ scan.upper # <<>>
                        /\ scan.upper[1].key = Null /\ ~scan.upper[1].inclusive
    BY <1>2, NullRewrite
  <2>2. e.arg \in S /\ e.negated \in BOOLEAN
    BY <1>2, PartsOf, Shapes DEF Expressions
  <2>3. value[e.arg] = key
    BY <2>1, <2>2, EvalForms
  <2>4. value[e] = EvalIsNull(key, e.negated)
    BY <1>2, <2>3, EvalForms
  <2>5. value[e] = BoolVal((key = Null) # e.negated)
    BY <2>4, ValueFacts DEF EvalIsNull
  <2>6. BoolVal(TRUE) = True /\ BoolVal(FALSE) = False
    BY DEF True, False
  <2>7. CASE e.negated = TRUE
    <3>1. Answers(scan, key) <=> KeyBefore(key, Null)
      BY <2>1, <2>7 DEF Answers, InRange
    <3>2. KeyBefore(key, Null) <=> key # Null
      BY <1>1, KeyOrder
    <3>3. value[e] = True <=> key # Null
      <4>1. CASE key = Null
        <5>1. value[e] = BoolVal(FALSE)
          BY <2>5, <2>7, <4>1
        <5> QED BY <1>1, <2>6, <4>1, <5>1
      <4>2. CASE key # Null
        <5>1. value[e] = BoolVal(TRUE)
          BY <2>5, <2>7, <4>2 DEF BoolVal
        <5> QED BY <2>6, <4>2, <5>1
      <4> QED BY <4>1, <4>2
    <3> QED BY <2>1, <2>7, <3>1, <3>2, <3>3
  <2>8. CASE e.negated = FALSE
    <3>1. scan.op = "indexScan" /\ scan.key = Null
      BY <2>1, <2>8
    <3>2. value[e] = True <=> key = Null
      <4>1. CASE key # Null
        <5>1. value[e] = BoolVal(FALSE)
          BY <2>5, <2>8, <4>1 DEF BoolVal
        <5> QED BY <1>1, <2>6, <4>1, <5>1
      <4>2. CASE key = Null
        <5>1. value[e] = BoolVal(TRUE)
          BY <2>5, <2>8, <4>2 DEF BoolVal
        <5> QED BY <2>6, <4>2, <5>1
      <4> QED BY <4>1, <4>2
    <3> QED BY <3>1, <3>2 DEF Answers
  <2> QED BY <2>2, <2>7, <2>8
<1>3. CASE e.e # "isnull"
  <2>1. e.e = "binary"
    BY <1>3, LiteralRewrite
  <2>2. PICK c : OnLiteral(e) = <<c>> /\ SearchesFor(scan, c)
    BY <1>3, LiteralRewrite
  <2>3. c.key # Null /\ scan.index = c.column /\ c.op \in {"=", ">", ">=", "<", "<="}
    BY <2>2 DEF SearchesFor
  <2>4. c.op \in Comparisons
    BY <2>3 DEF Comparisons
  <2>5. /\ c.key \in Values
        /\ key # Null => key.kind = c.key.kind
        /\ value[e] = True <=> key # Null /\ Holds(key.v, c.op, c.key.v)
    BY <2>1, <2>2, <2>4, <2>3, OnLiteralMeans
  <2>6. CASE c.op = "="
    <3>1. scan.op = "indexScan" /\ scan.key = c.key
      BY <2>2, <2>6 DEF SearchesFor
    <3>2. IsKey(c.key)
      BY <3>1 DEF Searchable
    <3>3. key # Null => (key = c.key <=> Holds(key.v, "=", c.key.v))
      BY <2>3, <2>5, <3>2, KeyOrder
    <3> QED BY <2>3, <2>5, <2>6, <3>1, <3>3 DEF Answers
  <2>7. CASE c.op \in {">", ">="}
    <3>1. scan.op = "rangeIndexScan" /\ scan.upper = <<>> /\ scan.lower # <<>> /\ scan.lower[1].key = c.key
      BY <2>2, <2>7 DEF SearchesFor
    <3>2. IsKey(c.key)
      BY <3>1 DEF Searchable
    <3>3. scan.lower[1].inclusive <=> c.op = ">="
      <4>1. scan.lower[1].inclusive = (c.op \in {"<=", ">="})
        BY <2>2, <2>7 DEF SearchesFor
      <4>2. CASE c.op = ">="
        BY <4>1, <4>2
      <4>3. CASE c.op = ">"
        BY <4>1, <4>3
      <4> QED BY <2>7, <4>2, <4>3
    <3>4. Answers(scan, key) <=> KeyBefore(c.key, key) \/ (c.op = ">=" /\ key = c.key)
      BY <3>1, <3>3 DEF Answers, InRange
    <3>5. key = Null => KeyBefore(c.key, key)
      BY <1>1, <2>3, <2>5, <3>2, KeyOrder
    <3>6. key # Null => /\ KeyBefore(c.key, key) <=> Holds(key.v, ">", c.key.v)
                        /\ KeyBefore(c.key, key) \/ key = c.key <=> Holds(key.v, ">=", c.key.v)
      BY <2>3, <2>5, <3>2, KeyOrder
    <3> QED BY <1>1, <2>5, <2>7, <3>1, <3>4, <3>5, <3>6
  <2>8. CASE c.op \in {"<", "<="}
    <3>1. scan.op = "rangeIndexScan" /\ scan.lower = <<>> /\ scan.upper # <<>> /\ scan.upper[1].key = c.key
      BY <2>2, <2>8 DEF SearchesFor
    <3>2. IsKey(c.key)
      BY <3>1 DEF Searchable
    <3>3. scan.upper[1].inclusive <=> c.op = "<="
      <4>1. scan.upper[1].inclusive = (c.op \in {"<=", ">="})
        BY <2>2, <2>8 DEF SearchesFor
      <4>2. CASE c.op = "<="
        BY <4>1, <4>2
      <4>3. CASE c.op = "<"
        BY <4>1, <4>3
      <4> QED BY <2>8, <4>2, <4>3
    <3>4. Answers(scan, key) <=> KeyBefore(key, c.key) \/ (c.op = "<=" /\ key = c.key)
      BY <3>1, <3>3 DEF Answers, InRange
    <3>5. key = Null => ~KeyBefore(key, c.key) /\ key # c.key
      BY <1>1, <2>3, <2>5, <3>2, KeyOrder
    <3>6. key # Null => /\ KeyBefore(key, c.key) <=> Holds(key.v, "<", c.key.v)
                        /\ KeyBefore(key, c.key) \/ key = c.key <=> Holds(key.v, "<=", c.key.v)
      BY <2>3, <2>5, <3>2, KeyOrder
    <3> QED BY <1>1, <2>5, <2>8, <3>1, <3>4, <3>5, <3>6
  <2> QED BY <2>3, <2>6, <2>7, <2>8
<1> QED BY <1>2, <1>3

=============================================================================
