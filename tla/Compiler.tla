------------------------------ MODULE Compiler ------------------------------
(***************************************************************************)
(* The ccBPF compiler: from the syntax tree of a source to the list of     *)
(* intermediate instructions and from there to an image.  The parser       *)
(* generates code for every statement as soon as it has read it; here the  *)
(* trees of all statements are there at the start.                         *)
(***************************************************************************)
EXTENDS Integers, SequencesExt

\* Trees.  A declaration has an element width and a number of elements.
declare(name, width, count) == [name |-> name, width |-> width, count |-> count]
constant_int(value) == [kind |-> "const", value |-> value]
id_new(name) == [kind |-> "id", name |-> name]
access_new(name, index) == [kind |-> "access", name |-> name, index |-> index]
ctx_load(offset) == [kind |-> "ctx", offset |-> offset]
arith_new(op, e1, e2) == [kind |-> "arith", op |-> op, e1 |-> e1, e2 |-> e2]
rel_new(op, e1, e2) == [kind |-> "rel", op |-> op, e1 |-> e1, e2 |-> e2]
and_new(e1, e2) == [kind |-> "and", e1 |-> e1, e2 |-> e2]
or_new(e1, e2) == [kind |-> "or", e1 |-> e1, e2 |-> e2]
not_new(e) == [kind |-> "not", e1 |-> e]
builtin_call_new(native, args) == [kind |-> "call", native |-> native, args |-> args]
set_new(target, expr) == [kind |-> "set", target |-> target, expr |-> expr]
return_new(expr) == [kind |-> "return", expr |-> expr]
else_new(expr, s1, s2) == [kind |-> "if", expr |-> expr, s1 |-> s1, s2 |-> s2]
if_new(expr, s1) == else_new(expr, s1, <<>>)

-----------------------------------------------------------------------------
(***************************************************************************)
(* The state of the compiler: ir, temps and labels are static and outlive  *)
(* a compilation; offset, width and temp_no belong to the variables of the *)
(* program, left is what the memory of the nodes held before.  at is the   *)
(* temporary of the expression generated last.                             *)
(***************************************************************************)
InitialFront == [ir |-> <<>>, temps |-> 1, labels |-> 0]

\* The parameter ctx takes the first four bytes of the memory.
offset_of(decls) ==
    [name \in {decls[i].name : i \in DOMAIN decls} |->
        LET i == CHOOSE j \in DOMAIN decls : decls[j].name = name
        IN  FoldLeft(LAMBDA used, d : used + d.width * d.count, 4, SubSeq(decls, 1, i - 1))]

start(front, decls, left) ==
    LET offset == offset_of(decls) IN
    [ir |-> front.ir, temps |-> front.temps, labels |-> front.labels,
     offset |-> offset, left |-> left, at |-> 0,
     width |-> [name \in DOMAIN offset |->
                   decls[CHOOSE i \in DOMAIN decls : decls[i].name = name].width],
     temp_no |-> [name \in DOMAIN offset |-> left]]

ir_emit(s, ir) == [s EXCEPT !.ir = Append(@, ir)]
emitlabel(s, label) == ir_emit(s, [op |-> "label", label |-> label])
newlabels(s, n) == [s EXCEPT !.labels = @ + n]
new_temp(s) == [s EXCEPT !.temps = @ + 1, !.at = s.temps]

\* A node takes a temporary unless its field holds one: that of a variable is
\* one node, that of most others is not set when they are made.
own_temp(e, s) ==
    LET held == CASE e.kind = "id" -> s.temp_no[e.name]
                  [] e.kind \in {"ctx", "call"} -> 0
                  [] OTHER -> s.left
        n == IF held = 0 THEN new_temp(s) ELSE [s EXCEPT !.at = held]
    IN  IF e.kind = "id" THEN [n EXCEPT !.temp_no[e.name] = n.at] ELSE n

element(e, s) ==
    s.offset[e.name] + (IF e.kind = "access" THEN e.index * s.width[e.name] ELSE 0)

\* Relations and logic are no values: they emit nothing here.
RECURSIVE expr_gen(_, _)
expr_gen(e, s) ==
    LET n == own_temp(e, s)
        emit(r, ir) == [ir_emit(r, [dst |-> n.at] @@ ir) EXCEPT !.at = n.at] IN
    CASE e.kind = "const" -> emit(n, [op |-> "move", src1 |-> e.value])
      [] e.kind \in {"id", "access"} -> emit(n, [op |-> "load", base |-> element(e, n)])
      [] e.kind = "ctx" -> emit(n, [op |-> "load_ctx", src1 |-> e.offset])
      [] e.kind = "arith" ->
            LET l == expr_gen(e.e1, n)
                r == expr_gen(e.e2, l)
            IN  emit(r, [op |-> e.op, src1 |-> l.at, src2 |-> r.at])
      [] e.kind = "call" ->
            LET done == FoldLeft(LAMBDA a, x : LET g == expr_gen(x, a.s)
                                               IN  [s |-> g, temps |-> Append(a.temps, g.at)],
                                 [s |-> n, temps |-> <<>>], e.args)
            IN  emit(done.s, [op |-> "native_call", native |-> e.native, args |-> done.temps])
      [] OTHER -> n

\* Mutant of if_false: the operands keep their places.
if_false_unswapped(op, l, r, f) ==
    IF f = 0 THEN r ELSE
    ir_emit(r, [op |-> "if_false", label |-> f, src1 |-> l.at, src2 |-> r.at,
                relop |-> CASE op = "<" -> ">" [] op = "<=" -> ">=" [] OTHER -> op])

\* A jump to f when the relation of l and r is false, if there is an f.  Only
\* "greater" exists below: the other way round the operands change places.
if_false(op, l, r, f) ==
    IF f = 0 THEN r ELSE
    LET swapped == op \in {"<", "<="} IN
    ir_emit(r, [op |-> "if_false", label |-> f,
                relop |-> CASE op = "<" -> ">" [] op = "<=" -> ">=" [] OTHER -> op,
                src1 |-> IF swapped THEN r.at ELSE l.at,
                src2 |-> IF swapped THEN l.at ELSE r.at])

\* Code that goes on at t when the condition holds and at f when not; 0 is
\* the code that follows.  Only a relation that has an f emits a jump.
RECURSIVE jumping(_, _, _, _)
rel_jumping(e, f, s) ==
    LET l == expr_gen(e.e1, s) IN if_false(e.op, l, expr_gen(e.e2, l), f)
and_jumping(e, t, f, label, s) == jumping(e.e2, t, f, jumping(e.e1, 0, label, s))
or_jumping(e, t, f, label, s) == jumping(e.e2, t, f, jumping(e.e1, label, 0, s))
jumping(e, t, f, s) ==
    LET n == newlabels(s, 1) IN
    CASE e.kind = "rel" -> rel_jumping(e, f, s)
      [] e.kind = "and" /\ f # 0 -> and_jumping(e, t, f, f, s)
      [] e.kind = "and" /\ f = 0 -> emitlabel(and_jumping(e, t, f, n.labels, n), n.labels)
      [] e.kind = "or" /\ t # 0 -> or_jumping(e, t, f, t, s)
      [] e.kind = "or" /\ t = 0 -> emitlabel(or_jumping(e, t, f, n.labels, n), n.labels)
      [] e.kind = "not" -> jumping(e.e1, f, t, s)
      [] OTHER -> s

\* Statements; those of a block are chained from the left.  There is nothing
\* behind the "else" of a statement without one.
RECURSIVE stmt_gen(_, _), seq_gen(_, _)
seq_gen(block, s) ==
    IF block = <<>> THEN s
    ELSE IF Len(block) = 1 THEN stmt_gen(block[1], s)
    ELSE LET n == newlabels(s, 1)
         IN  stmt_gen(Last(block), emitlabel(seq_gen(Front(block), n), n.labels))

set_gen(target, expr, s) ==
    LET v == expr_gen(expr, s)
    IN  ir_emit(v, [op |-> "store", base |-> element(target, v), src1 |-> v.at])

return_gen(expr, s) ==
    LET v == expr_gen(expr, s) IN ir_emit(v, [op |-> "ret", src1 |-> v.at])

else_gen(st, s) ==
    LET Lthen == s.labels + 1
        Lelse == s.labels + 2
        Lend == s.labels + 3
        test == emitlabel(jumping(st.expr, 0, Lelse, newlabels(s, 3)), Lthen)
        then == ir_emit(seq_gen(st.s1, test), [op |-> "goto", label |-> Lend])
    IN  emitlabel(seq_gen(st.s2, emitlabel(then, Lelse)), Lend)

stmt_gen(st, s) ==
    CASE st.kind = "set" -> set_gen(st.target, st.expr, s)
      [] st.kind = "return" -> return_gen(st.expr, s)
      [] st.kind = "if" -> else_gen(st, s)
      [] st.kind = "call" -> expr_gen(st, s)

parser_program(source, front, left) ==
    LET s == newlabels(start(front, source.decls, left), 2)
        body == FoldLeft(LAMBDA r, st : stmt_gen(st, r), emitlabel(s, s.labels - 1), source.body)
        all == emitlabel(body, s.labels)
    IN  [ir |-> all.ir, temps |-> all.temps, labels |-> all.labels]
-----------------------------------------------------------------------------
(***************************************************************************)
(* Lowering.  A jump carries its label in k until all labels are known.    *)
(***************************************************************************)
JumpMod == 256      \* the branches of a conditional jump are bytes

temp_slot(t) == 64 + 4 * t
insn(op, k) == [op |-> op, k |-> k, jt |-> 0, jf |-> 0]
arg_code(i, slot) ==
    CASE i = 1 -> <<insn("ld_mem", slot)>>
      [] i = 2 -> <<insn("ldx_mem", slot)>>
      [] i = 3 -> <<insn("ld_mem", slot), insn("st", 0)>>
      [] i = 4 -> <<insn("ld_mem", slot), insn("st", 4)>>

lower(ir) ==
    CASE ir.op = "move" -> <<insn("ld_imm", ir.src1), insn("st", temp_slot(ir.dst))>>
      [] ir.op \in {"+", "-", "*", "/", "%"} ->
            <<insn("ld_mem", temp_slot(ir.src1)), insn("ldx_mem", temp_slot(ir.src2)),
              insn(ir.op, 0), insn("st", temp_slot(ir.dst))>>
      [] ir.op = "ret" -> <<insn("ld_mem", temp_slot(ir.src1)), insn("ret", 0)>>
      [] ir.op = "load_ctx" -> <<insn("ld_abs", ir.src1), insn("st", temp_slot(ir.dst))>>
      [] ir.op = "load" -> <<insn("ld_mem", ir.base), insn("st", temp_slot(ir.dst))>>
      [] ir.op = "store" -> <<insn("ld_mem", temp_slot(ir.src1)), insn("st", ir.base)>>
      [] ir.op = "native_call" ->
            FlattenSeq([i \in DOMAIN ir.args |-> arg_code(i, temp_slot(ir.args[i]))])
            \o (IF ir.args = <<>> THEN <<>> ELSE arg_code(1, temp_slot(ir.args[1])))
            \o <<insn("cop", ir.native), insn("st", temp_slot(ir.dst))>>
      [] ir.op = "if_false" ->
            <<insn("ld_mem", temp_slot(ir.src1)), insn("ldx_mem", temp_slot(ir.src2)),
              insn(ir.relop, ir.label)>>
      [] ir.op = "goto" -> <<insn("ja", ir.label)>>
      [] ir.op = "label" -> <<>>

\* How many instructions stand before each label, and the jumps to them: one
\* that compares for "not equal" branches when the values are equal.
ir_lower_program(ir) ==
    LET parts == [i \in DOMAIN ir |-> lower(ir[i])]
        code == FlattenSeq(parts)
        label_pc(label) ==
            LET at == CHOOSE i \in DOMAIN ir : ir[i].op = "label" /\ ir[i].label = label
            IN  Len(FlattenSeq(SubSeq(parts, 1, at)))
        patch(i) ==
            LET rel == label_pc(code[i].k) - i IN
            CASE code[i].op = "ja" -> [code[i] EXCEPT !.k = rel]
              [] code[i].op \in {">", ">=", "=="} -> [code[i] EXCEPT !.k = 0, !.jf = rel % JumpMod]
              [] code[i].op = "!=" -> [code[i] EXCEPT !.k = 0, !.op = "==", !.jt = rel % JumpMod]
              [] OTHER -> code[i]
    IN  [i \in DOMAIN code |-> patch(i)]
=============================================================================
