------------------------------ MODULE MCKernel ------------------------------
(***************************************************************************)
(* The Kernel on commitments of up to two measures (three for the ones     *)
(* that bind a symbol twice) over two symbols, and on up to three receipts *)
(* drawn from five.                                                        *)
(***************************************************************************)
EXTENDS KernelMeaning

Num(x)  == [type |-> "number", v |-> x]
Str(x)  == [type |-> "string", v |-> x]
Flag(x) == [type |-> "boolean", v |-> x]

\* a >= 5
Enough == <<Cmp("a", ">=", Num(5))>>
\* !b
NotB == <<SymRef("b"), Not(1)>>
\* a < 5 || b
LittleOrB == <<Cmp("a", "<", Num(5)), SymRef("b"), Or(1, 2)>>
\* !(b in [1, "x"] && a == 5)
NeitherNor == <<In("b", {Num(1), Str(1)}), Cmp("a", "==", Num(5)), And(1, 2), Not(3)>>
\* b != 1
BNotOne == <<Cmp("b", "!=", Num(1))>>
\* constructor != "x"
Native == <<Cmp("constructor", "!=", Str(1))>>
Unparsed == <<>>

Open      == [start |-> None, end |-> None, maxAge |-> None]
AtTime(x) == [text |-> x, ms |-> x]
\* Written with an offset: later as a string, earlier as an instant.
Offset    == [text |-> 3, ms |-> 1]
Garbled   == [text |-> 9, ms |-> NaN]
Spec(name, ast) ==
  [name |-> name, assert |-> ast, minWitnesses |-> 0, devices |-> {}, codes |-> {},
   window |-> Open]

Specs == {
  Spec("a", Enough), Spec("a", LittleOrB), Spec("b", NotB), Spec("b", NeitherNor),
  Spec("a", NotB), Spec("b", Native), Spec("b", Unparsed),
  [Spec("a", LittleOrB) EXCEPT !.codes = {"ca"}, !.window.end = AtTime(2)],
  [Spec("a", NeitherNor) EXCEPT !.minWitnesses = 1, !.window.start = AtTime(2)],
  [Spec("b", LittleOrB) EXCEPT !.devices = {"d1"}, !.window.maxAge = 1],
  [Spec("b", BNotOne) EXCEPT !.codes = {"cb"}, !.window.end = Garbled]}

Pay     == "pay"
Unknown == "unknown"
Then(if, verbs) == [if |-> if, hasThen |-> TRUE, then |-> verbs]
Consequences == {
  <<Then("FAIL", <<"signal">>), Then("PASS", <<Pay>>), Then("PASS", <<"signal">>)>>,
  <<>>, <<Then("PASS", <<>>), Then("PASS", <<Pay>>)>>,
  <<Then("PASS", <<Pay>>), Then("FAIL", <<Pay, Unknown>>)>>,
  <<[Then("PASS", <<>>) EXCEPT !.hasThen = FALSE], Then("FAIL", <<Unknown>>)>>}
Usual == <<Then("FAIL", <<"signal">>), Then("PASS", <<Pay>>)>>

Commit(m, c) == [arrays |-> TRUE, measure |-> m, consequence |-> c]
MCCommitments ==
  {Commit(<<p, q>>, Usual) : p \in Specs, q \in Specs}
  \cup {Commit(<<p>>, c) : p \in Specs, c \in Consequences}
  \cup {Commit(<<Spec("a", Enough), q, [Spec("a", Enough) EXCEPT !.codes = {"ca"}]>>, Usual)
          : q \in Specs}
  \cup {Commit(<<>>, Usual), [Commit(<<>>, Usual) EXCEPT !.arrays = FALSE]}

Tim(ts, lamport, id, cid, witnesses, device, code, value) ==
  [ts |-> ts, lamport |-> lamport, id |-> id, cid |-> cid, witnesses |-> witnesses,
   device |-> device, code |-> code, value |-> value]
Pool == {
  Tim(AtTime(1), 1, 1, 1, 0, "d1", "ca", Num(5)),
  Tim(AtTime(1), 1, 1, 2, 1, "d1", "cb", Num(1)),
  Tim(AtTime(2), 0, 1, 3, 1, "d2", "ca", Flag(1)),
  Tim(Offset, 0, 2, 0, 0, "d1", "cb", Flag(0)),
  Tim(Garbled, 0, 1, 4, 2, "d1", "ca", Str(1))}
MCEvidence == SeqOf(Pool, 2) \cup {s \in SeqOf(Pool, 3) : IsInjective(s)}
MCTimes == {AtTime(3)}
MCNames == {"a", "b", "constructor"}
MCInherited == {"constructor"}
MCVerbs == {Pay, "signal", Unknown}
MCRegistered == {Pay, "signal"}
=============================================================================
