---------------------------- MODULE Expressions ----------------------------
(***************************************************************************)
(* The recursions over expressions, from what ExpressionNodes has of one   *)
(* node.                                                                   *)
(***************************************************************************)
EXTENDS ExpressionNodes

\* lower_expr: whether it accepts an expression, and what it makes of it.
RECURSIVE Lowerable(_)
Lowerable(sql) == LowerableNode(sql, LAMBDA s : Lowerable(s))

RECURSIVE LowerExpr(_)
LowerExpr(sql) == LowerNode(sql, LAMBDA s : LowerExpr(s))

\* eval_expr.
RECURSIVE EvalExpr(_, _, _)
EvalExpr(expr, columns, row) == EvalNode(expr, columns, row, LAMBDA e : EvalExpr(e, columns, row))

\* fold_expr, and whether it panics.
RECURSIVE FoldExpr(_)
FoldExpr(expr) == FoldNode(expr, LAMBDA e : FoldExpr(e))

RECURSIVE Panics(_)
Panics(expr) ==
    CASE expr.e = "literal" -> expr.value.kind = "Panic"
      [] expr.e = "binary"  -> Panics(expr.left) \/ Panics(expr.right)
      [] expr.e = "isnull"  -> Panics(expr.arg)
      [] expr.e = "like"    -> Panics(expr.arg) \/ Panics(expr.pattern)
      [] OTHER -> FALSE

\* codegen_predicate: whether it has code for an expression, and what the code
\* returns for a row.
RECURSIVE Compiles(_, _)
Compiles(expr, tracked) == CompilesNode(expr, tracked, LAMBDA e : Compiles(e, tracked))

RECURSIVE Compiled(_, _, _)
Compiled(expr, tracked, row) == CompiledNode(expr, tracked, row, LAMBDA e : Compiled(e, tracked, row))
=============================================================================
