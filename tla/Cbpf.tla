-------------------------------- MODULE Cbpf --------------------------------
(***************************************************************************)
(* The ccBPF virtual machine, with the instructions the compiler emits.    *)
(* The memory is one of bytes: a function of those that were written, the  *)
(* others are 0.                                                           *)
(***************************************************************************)
EXTENDS Integers, Sequences, TLC

CONSTANTS ByteMod,      \* values of a byte: a word has four of them
          MaxInsn,      \* instructions of a slice
          Packet,       \* the bytes a program reads as ctx
          Natives       \* the registered functions

WordMod == ByteMod * ByteMod * ByteMod * ByteMod
CCBPF_STACK_SIZE == 512

Fresh == [A |-> 0, X |-> 0, pc |-> 0, ret |-> 0, mem |-> <<>>,
          status |-> "ok", printed |-> <<>>]

byte(mem, a) == IF a \in DOMAIN mem THEN mem[a] ELSE 0
word(mem, k) ==
    byte(mem, k) + ByteMod * (byte(mem, k + 1)
        + ByteMod * (byte(mem, k + 2) + ByteMod * byte(mem, k + 3)))
put_word(mem, k, w) ==
    (k :> w % ByteMod
     @@ k + 1 :> (w \div ByteMod) % ByteMod
     @@ k + 2 :> (w \div (ByteMod * ByteMod)) % ByteMod
     @@ k + 3 :> w \div (ByteMod * ByteMod * ByteMod)) @@ mem
outside(k) == k + 4 > CCBPF_STACK_SIZE

result(op, a, x) ==
    CASE op = "+" -> (a + x) % WordMod
      [] op = "-" -> (a - x) % WordMod
      [] op = "*" -> (a * x) % WordMod
      [] op = "/" -> a \div x
      [] op = "%" -> a % x

taken(op, a, x) == CASE op = ">" -> a > x [] op = ">=" -> a >= x [] op = "==" -> a = x

\* A call: a function that is not registered gives 0, and so do print and migrate.
native(k, next) ==
    CASE k \notin Natives -> [next EXCEPT !.A = 0]
      [] k = "print" -> [next EXCEPT !.A = 0, !.printed = Append(@, next.A)]
      [] k = "migrate" -> [next EXCEPT !.A = 0, !.status = "migrate"]

\* One instruction.
execute(c, code) ==
    LET ins == code[c.pc + 1]
        next == [c EXCEPT !.pc = @ + 1]
        err == [c EXCEPT !.ret = 0, !.status = "error"] IN
    CASE ins.op = "ret" -> [c EXCEPT !.ret = c.A, !.status = "finished"]
      [] ins.op = "ld_imm" -> [next EXCEPT !.A = ins.k]
      [] ins.op = "ld_abs" ->
            IF ins.k >= Len(Packet) THEN err ELSE [next EXCEPT !.A = Packet[ins.k + 1]]
      [] ins.op = "ld_mem" -> IF outside(ins.k) THEN err ELSE [next EXCEPT !.A = word(c.mem, ins.k)]
      [] ins.op = "ldx_mem" -> IF outside(ins.k) THEN err ELSE [next EXCEPT !.X = word(c.mem, ins.k)]
      [] ins.op = "st" ->
            IF outside(ins.k) THEN err ELSE [next EXCEPT !.mem = put_word(c.mem, ins.k, c.A)]
      [] ins.op = "ja" -> [c EXCEPT !.pc = @ + ins.k + 1]
      [] ins.op \in {">", ">=", "=="} ->
            [c EXCEPT !.pc = @ + 1 + (IF taken(ins.op, c.A, c.X) THEN ins.jt ELSE ins.jf)]
      [] ins.op \in {"+", "-", "*", "/", "%"} ->
            IF ins.op \in {"/", "%"} /\ c.X = 0 THEN err
            ELSE [next EXCEPT !.A = result(ins.op, c.A, c.X)]
      [] ins.op = "cop" -> native(ins.k, next)

\* One slice: up to MaxInsn instructions, fewer when the program stops.
RECURSIVE instructions(_, _, _)
instructions(c, code, n) ==
    IF n = 0 \/ c.status # "ok" THEN c ELSE instructions(execute(c, code), code, n - 1)
ccbpf_vm_step(c, code) == instructions([c EXCEPT !.status = "ok", !.printed = <<>>], code, MaxInsn)

\* What is checked of an image when it is loaded.
bpf_validate(code) ==
    /\ \A i \in DOMAIN code :
          LET ins == code[i] IN
          /\ ins.op = "ja" => i + ins.k < Len(code)
          /\ ins.op \in {">", ">=", "=="} => i + ins.jt < Len(code) /\ i + ins.jf < Len(code)
          /\ ins.op \in {"st", "ld_mem"} => ~outside(ins.k)
    /\ code[Len(code)].op = "ret"
=============================================================================
