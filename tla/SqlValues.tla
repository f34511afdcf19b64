----------------------------- MODULE SqlValues -----------------------------
(***************************************************************************)
(* The values of a row and the literals of a statement                     *)
(* (crumble-storage/src/value.rs, crumble-ir/src/expr.rs).                  *)
(*                                                                         *)
(* A value is its kind and its content, a sequence of numbers, so that one *)
(* lexicographic order serves every kind: an integer is <<n>>, a boolean   *)
(* <<0>> or <<1>>, a text its characters, and a float <<n>> for n sixths   *)
(* (the averages of up to three integers are exact; no NaN can be          *)
(* written).  What fails to evaluate is a value whose kind is the error.   *)
(*                                                                         *)
(* A name is a sequence of parts: <<"a">>, <<"t", "a">> for t.a, and       *)
(* <<"SUM", "a">> for the column of SUM(a).                                *)
(***************************************************************************)
EXTENDS Integers, Sequences, SequencesExt

Val(kind, v) == [kind |-> kind, v |-> v]
Null == Val("null", <<>>)
IntVal(n) == Val("int", <<n>>)
FloatVal(sixths) == Val("float", <<sixths>>)
TextVal(chars) == Val("text", chars)
BoolVal(b) == Val("bool", <<IF b THEN 1 ELSE 0>>)
True == BoolVal(TRUE)
False == BoolVal(FALSE)

Kinds == {"int", "float", "text", "bool"}
Numeric == {"int", "float"}

\* ExecError, and a panic: an addition that overflows when overflow is checked.
Errors == {"TypeMismatch", "ColumnNotFound", "Panic"}
Fails(value) == value.kind \in Errors

\* The order of two contents: number by number, a prefix before what it begins.
Precedes(s, t) ==
    \E i \in 1..Len(t) :
        /\ i <= Len(s) + 1
        /\ \A j \in 1..i-1 : s[j] = t[j]
        /\ i = Len(s) + 1 \/ s[i] < t[i]

Comparisons == {"=", "<>", "<", "<=", ">", ">="}

\* `l op r` of Rust on two contents of one kind.
Holds(l, op, r) ==
    CASE op = "="  -> l = r
      [] op = "<>" -> l # r
      [] op = "<"  -> Precedes(l, r)
      [] op = ">"  -> Precedes(r, l)
      [] op = "<=" -> ~Precedes(r, l)
      [] op = ">=" -> ~Precedes(l, r)

\* position(|c| c == name): where a row set has a column, 0 if it has none.
ColumnIndex(columns, name) == SelectInSeq(columns, LAMBDA c : c = name)

\* The two wildcards of LIKE, among the characters.
Percent == 37
Underscore == 95
=============================================================================
