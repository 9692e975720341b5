----------------------------- MODULE Assertions -----------------------------
(***************************************************************************)
(* The assertion language of packages/core (assert.ts): three-valued       *)
(* evaluation of a parsed expression over the symbols bound so far.        *)
(*                                                                         *)
(* An expression is the sequence of its syntax nodes, operands before      *)
(* operators and the root last; <<>> is one that does not parse.  A value  *)
(* has a JavaScript type and a rank in that type's order.  No string here  *)
(* is a numeral: one turns into NaN when it is compared with a number.     *)
(***************************************************************************)
EXTENDS Integers, Sequences

CONSTANTS
  Names,     \* symbols
  Inherited  \* symbols every JavaScript object answers to: "constructor"

ASSUME NamesAssumption == Inherited \subseteq Names

TriState == {"PASS", "FAIL", "INDETERMINATE"}
Ops      == {"==", "!=", "<", "<=", ">", ">="}
LitTypes == {"number", "string", "boolean"}
Values   == [type : LitTypes \cup {"object", "undefined"}, v : Int]

Unbound   == [type |-> "unbound", v |-> 0]
Undefined == [type |-> "undefined", v |-> 0]

\* The syntax nodes.
Cmp(s, op, lit) == [k |-> "cmp", sym |-> s, op |-> op, val |-> lit]
In(s, lits)     == [k |-> "in", sym |-> s, vals |-> lits]
SymRef(s)       == [k |-> "symref", sym |-> s]
And(l, r)       == [k |-> "and", l |-> l, r |-> r]
Or(l, r)        == [k |-> "or", l |-> l, r |-> r]
Not(e)          == [k |-> "not", e |-> e]

\* What the parser makes: every operand is there before its operator.
Expression(ast) ==
  /\ Len(ast) \in Nat /\ DOMAIN ast = 1..Len(ast)
  /\ \A n \in DOMAIN ast :
       LET node == ast[n] IN
       \/ node.k \in {"cmp", "in", "symref"} /\ node.sym \in Names
       \/ node.k \in {"and", "or"} /\ node.l \in 1..(n - 1) /\ node.r \in 1..(n - 1)
       \/ node.k = "not" /\ node.e \in 1..(n - 1)

-----------------------------------------------------------------------------
(* Kleene logic *)

And3(a, b) == CASE a = "FAIL" \/ b = "FAIL" -> "FAIL"
                [] a = "PASS" /\ b = "PASS" -> "PASS"
                [] OTHER                    -> "INDETERMINATE"
Or3(a, b)  == CASE a = "PASS" \/ b = "PASS" -> "PASS"
                [] a = "FAIL" /\ b = "FAIL" -> "FAIL"
                [] OTHER                    -> "INDETERMINATE"
\* Mutant: the negation of what is not PASS is PASS.
Not3Binary(a) == IF a = "PASS" THEN "FAIL" ELSE "PASS"
Not3(a)    == CASE a = "PASS" -> "FAIL"
                [] a = "FAIL" -> "PASS"
                [] OTHER      -> "INDETERMINATE"
Bool(b)    == IF b THEN "PASS" ELSE "FAIL"

-----------------------------------------------------------------------------
(* Evaluation *)

\* A symbol's value.  The symbols are the properties of an object, which has
\* the properties of its prototype too; none of those has a value.
Lookup(symbols, s) ==
  IF symbols[s] = Unbound /\ s \in Inherited THEN Undefined ELSE symbols[s]

\* JavaScript orders two strings, and whatever turns into two numbers.
Ordered(a, b) == \/ a.type = "string" /\ b.type = "string"
                 \/ {a.type, b.type} \subseteq {"number", "boolean"}

Compare(a, op, b) ==
  CASE op = "==" -> a = b
    [] op = "!=" -> a # b
    [] op = "<"  -> Ordered(a, b) /\ a.v < b.v
    [] op = "<=" -> Ordered(a, b) /\ a.v <= b.v
    [] op = ">"  -> Ordered(a, b) /\ a.v > b.v
    [] op = ">=" -> Ordered(a, b) /\ a.v >= b.v

\* The pairs of types the evaluator refuses to compare.
Mismatch(val, op, lit) ==
  \/ val.type = "number" /\ lit.type # "number"
  \/ val.type = "string" /\ lit.type # "string" /\ op \notin {"==", "!="}

EvalCmp(node, val) ==
  CASE val = Unbound                     -> "INDETERMINATE"
    [] val # Unbound /\ Mismatch(val, node.op, node.val) -> "INDETERMINATE"
    [] OTHER -> Bool(Compare(val, node.op, node.val))

EvalIn(node, val) ==
  IF val = Unbound THEN "INDETERMINATE" ELSE Bool(val \in node.vals)

EvalSymRef(val) ==
  IF val.type = "boolean" THEN Bool(val.v = 1) ELSE "INDETERMINATE"

\* The value of node n, from the values of the nodes before it.
EvalNode(ast, symbols, eval, n) ==
  LET node == ast[n] IN
  CASE node.k = "and"    -> And3(eval[node.l], eval[node.r])
    [] node.k = "or"     -> Or3(eval[node.l], eval[node.r])
    [] node.k = "not"    -> Not3(eval[node.e])
    [] node.k = "symref" -> EvalSymRef(Lookup(symbols, node.sym))
    [] node.k = "in"     -> EvalIn(node, Lookup(symbols, node.sym))
    [] node.k = "cmp"    -> EvalCmp(node, Lookup(symbols, node.sym))

EvalNodes(ast, symbols) ==
  LET eval[n \in DOMAIN ast] == EvalNode(ast, symbols, eval, n) IN eval

EvalAst(ast, symbols) == EvalNodes(ast, symbols)[Len(ast)]

\* evaluateAssertion: what does not parse cannot be evaluated.
EvaluateAssertion(ast, symbols) ==
  IF ast = <<>> THEN "INDETERMINATE" ELSE EvalAst(ast, symbols)
=============================================================================
