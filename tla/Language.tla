------------------------------ MODULE Language ------------------------------
(***************************************************************************)
(* What the manual promises of a source: unsigned words, the operators and *)
(* statements of C, conditions that stop at the first operand that decides.*)
(* A program leaves the numbers it prints, each with the node it is on     *)
(* then, and its result; it stops where the machine cannot go on.          *)
(***************************************************************************)
EXTENDS Integers, SequencesExt

CONSTANTS WordMod, Packet, Natives

\* value is that of the expression evaluated last.
Begin == [values |-> <<>>, value |-> 0, node |-> "A", seen |-> <<>>, outcome |-> "runs", ret |-> 0]

Operation(op, a, b) ==
    CASE op = "+" -> (a + b) % WordMod
      [] op = "-" -> (a - b) % WordMod
      [] op = "*" -> (a * b) % WordMod
      [] op = "/" -> a \div b
      [] op = "%" -> a % b

Holds(op, a, b) ==
    CASE op = "<" -> a < b [] op = "<=" -> a <= b [] op = ">" -> a > b
      [] op = ">=" -> a >= b [] op = "==" -> a = b [] op = "!=" -> a # b

Bit(b) == IF b THEN 1 ELSE 0
Stop(m) == [m EXCEPT !.outcome = "stopped"]
Element(e) == <<e.name, IF e.kind = "access" THEN e.index ELSE 0>>

Call(native, m) ==
    CASE native = "print" -> [m EXCEPT !.value = 0, !.seen = Append(@, <<m.node, m.value>>)]
      [] native = "migrate" -> [m EXCEPT !.value = 0, !.node = "B"]
      [] OTHER -> [m EXCEPT !.value = 0]

RECURSIVE Eval(_, _)
Eval(e, m) ==
    IF m.outcome # "runs" THEN m ELSE
    CASE e.kind = "const" -> [m EXCEPT !.value = e.value]
      [] e.kind \in {"id", "access"} ->
            [m EXCEPT !.value = IF Element(e) \in DOMAIN m.values THEN m.values[Element(e)] ELSE 0]
      [] e.kind = "ctx" ->
            IF e.offset < Len(Packet) THEN [m EXCEPT !.value = Packet[e.offset + 1]] ELSE Stop(m)
      [] e.kind \in {"arith", "rel"} ->
            LET l == Eval(e.e1, m)
                r == Eval(e.e2, l) IN
            IF r.outcome # "runs" THEN r
            ELSE IF e.kind = "rel" THEN [r EXCEPT !.value = Bit(Holds(e.op, l.value, r.value))]
            ELSE IF e.op \in {"/", "%"} /\ r.value = 0 THEN Stop(r)
            ELSE [r EXCEPT !.value = Operation(e.op, l.value, r.value)]
      [] e.kind \in {"and", "or"} ->
            LET l == Eval(e.e1, m)
                decided == (l.value = 0) <=> (e.kind = "and")
                r == IF decided THEN l ELSE Eval(e.e2, l)
            IN  [r EXCEPT !.value = Bit(r.value # 0)]
      [] e.kind = "not" -> LET r == Eval(e.e1, m) IN [r EXCEPT !.value = Bit(r.value = 0)]
      [] e.kind = "call" ->
            LET r == FoldLeft(LAMBDA a, x : Eval(x, a), m, e.args)
            IN  IF r.outcome = "runs" THEN Call(e.native, r) ELSE r

RECURSIVE Do(_, _)
Do(st, m) ==
    IF m.outcome # "runs" THEN m ELSE
    LET r == Eval(IF st.kind = "call" THEN st ELSE st.expr, m) IN
    IF r.outcome # "runs" THEN r ELSE
    CASE st.kind = "call" -> r
      [] st.kind = "set" -> [r EXCEPT !.values = (Element(st.target) :> r.value) @@ @]
      [] st.kind = "return" -> [r EXCEPT !.ret = r.value, !.outcome = "finished"]
      [] st.kind = "if" ->
            FoldLeft(LAMBDA a, x : Do(x, a), r, IF r.value # 0 THEN st.s1 ELSE st.s2)

Meaning(source) == FoldLeft(LAMBDA a, st : Do(st, a), Begin, source.body)
=============================================================================
