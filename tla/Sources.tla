------------------------------ MODULE Sources -------------------------------
(***************************************************************************)
(* Families of small programs, as the parser reads them: every relation,   *)
(* conjunctions that stop early, arithmetic with a move in the middle, and *)
(* bytes of the packet, one of them behind its end.                        *)
(***************************************************************************)
EXTENDS Compiler

Num(n) == constant_int(n)
Says(e) == builtin_call_new("print", <<e>>)
Migrate == builtin_call_new("migrate", <<>>)
Integer(name) == declare(name, 4, 1)
Array(name, count) == declare(name, 4, count)
a == id_new("a")
b == id_new("b")
arr(i) == access_new("arr", i)

Relations == {"<", "<=", ">", ">=", "==", "!="}
Source(body) ==
    [decls |-> <<Integer("a"), Integer("b"), Array("arr", 2)>>, body |-> body]

Relating ==
    {Source(<<set_new(a, Num(x)), set_new(b, Num(1)),
              else_new(rel_new(op, a, b), <<Says(Num(5))>>, <<Says(Num(6)), Migrate>>),
              return_new(a)>>)
        : op \in Relations, x \in 0..2}

Both ==
    {Source(<<set_new(a, Num(x)), set_new(b, Num(1)),
              if_new(and_new(rel_new(op, a, b),
                             rel_new("!=", builtin_call_new("print", <<b>>), Num(y))),
                     <<set_new(arr(1), Num(7)), Migrate, set_new(a, arr(1))>>),
              Says(a), return_new(b)>>)
        : op \in Relations, x \in 0..2, y \in 0..1}

Reckoning ==
    {Source(<<set_new(a, Num(x)), set_new(arr(0), Num(3)),
              set_new(b, arith_new(op, arith_new("+", a, Migrate),
                                       arith_new("-", arr(0), Num(y)))),
              Says(b), return_new(arith_new("*", b, b))>>)
        : op \in {"+", "-", "*", "/", "%"}, x \in {0, 2, 20}, y \in {2, 3}}

Reading ==
    {Source(<<Says(ctx_load(i)), Migrate, Says(ctx_load(1 - i)), return_new(ctx_load(0))>>)
        : i \in 0..1}

\* The first example of the manual, with what its variable c is at the end.
c == id_new("c")
Sums == [decls |-> <<Integer("a"), Integer("b"), Integer("c"), Array("arr", 4)>>,
         body |-> <<
    set_new(a, Num(3)),
    set_new(b, Num(4)),
    set_new(c, arith_new("+", a, arith_new("*", b, Num(2)))),
    set_new(arr(1), c),
    set_new(a, arr(1)),
    if_new(and_new(rel_new("<", a, b), rel_new("==", c, Num(10))),
           <<set_new(c, arith_new("-", c, Num(1)))>>),
    if_new(or_new(rel_new(">", a, b), not_new(rel_new("==", c, Num(10)))),
           <<set_new(c, arith_new("+", c, Num(1)))>>),
    if_new(and_new(not_new(rel_new("<", a, b)), not_new(rel_new("!=", c, Num(10)))),
           <<set_new(c, arith_new("+", c, Num(2)))>>),
    Says(c),
    return_new(Num(0))>>]
=============================================================================
