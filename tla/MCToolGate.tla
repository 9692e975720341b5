----------------------------- MODULE MCToolGate -----------------------------
(***************************************************************************)
(* Sessions under policies of one or two rules over a tool that moves      *)
(* money and any other tool, with calls of up to two arguments.            *)
(***************************************************************************)
EXTENDS ToolGate

Num(x)  == [type |-> "number", v |-> x]
Str(x)  == [type |-> "string", v |-> x]
Flag(x) == [type |-> "boolean", v |-> x]
Object  == [type |-> "object", v |-> 0]

\* Ranks of the tools' names; Odd has a quote in it.
PayTool == 2
ReadTool == 3
Odd == 4

Key(sym, ast) == [sym |-> sym, assert |-> ast]
Small  == Key("amount", <<Cmp("amount", "<=", Num(5))>>)
Known2 == Key("to", <<In("to", {Str(7), Str(8)})>>)
\* to == "7" || amount <= 1
Either == Key("to", <<Cmp("to", "==", Str(7)), Cmp("amount", "<=", Num(1)), Or(1, 2)>>)
\* !(amount > 5)
NotBig == Key("to", <<Cmp("amount", ">", Num(5)), Not(1)>>)
Shadow == Key("tool", <<Cmp("tool", "!=", Str(7))>>)
Wheres == {<<>>, <<Small>>, <<Small, Known2>>, <<Either, Small>>, <<Small, NotBig>>,
           <<NotBig>>, <<Small, Shadow>>}

Rule(tool, where) == [tool |-> tool, where |-> where]
MCPolicies ==
  {<<Rule(t, w)>> : t \in {PayTool, Star, Odd}, w \in Wheres}
  \cup {<<Rule(PayTool, w), Rule(Star, v)>> : w \in Wheres, v \in {<<>>, <<Small>>}}
  \cup {<<Rule(Star, v), Rule(PayTool, w)>> : w \in Wheres, v \in {<<>>, <<Small>>}}
  \cup {<<>>, <<Rule(PayTool, <<>>), Rule(PayTool, <<Small>>)>>}

Arg(sym, spelling, value) == [name |-> [sym |-> sym, spelling |-> spelling], value |-> value]
Args == {Arg("amount", 1, Num(1)), Arg("amount", 1, Num(5)), Arg("amount", 2, Num(6)),
         Arg("amount", 1, Object), Arg("to", 1, Str(7)), Arg("to", 2, Flag(1)),
         Arg("tool", 2, Str(7))}
\* An object has one value for a name.
ArgLists == {s \in SeqOf(Args, 2) :
               \A a, b \in DOMAIN s : s[a].name = s[b].name => a = b}
MCCalls == [tool : {Empty, PayTool, ReadTool}, args : ArgLists]

MCNames == {"tool", "amount", "to"}
MCInherited == {}
MCTimes == {[text |-> 1, ms |-> 1]}
MCVerbs == {"control"}
MCCommitments == {CompileRule(r) : r \in UNION {ToSet(p) : p \in MCPolicies}}
MCEvidence == {BuildEvidence(c, t) : c \in MCCalls, t \in MCTimes}
=============================================================================
