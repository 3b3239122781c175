----------------------------- MODULE Migration ------------------------------
(***************************************************************************)
(* Programs that move: the commands compile and runbpf of the shell of     *)
(* node A, the task that sends a program that asked to migrate, and node   *)
(* B, which runs it on.                                                    *)
(***************************************************************************)
EXTENDS Integers, Sequences, SequencesExt

CONSTANTS
    Programs,       \* source files: records [decls, body]
    Leftovers,      \* what the memory of a new node may hold: 0 when it was never used
    MaxCompiles, MaxRuns,
    ByteMod, MaxInsn, Packet, Natives,
    None

C == INSTANCE Compiler
V == INSTANCE Cbpf
L == INSTANCE Language WITH WordMod <- V!WordMod

VARIABLES
    front,      \* what the compiler keeps between two compilations
    compiles,   \* how often it ran
    file,       \* the image in the file system, with the source it was made of
    g,          \* the program of runbpf: g_img and g_ctx, with the number of the run
    to_send,    \* sem_migrate counts one
    link,       \* the programs on their way to B
    guest,      \* the program vm_migrate_write of B is running
    runs        \* history: the source of every run, what it printed, how it ended

vars == <<front, compiles, file, g, to_send, link, guest, runs>>

Assumption ==
    /\ ByteMod \in Nat \ {0, 1} /\ MaxInsn \in Nat \ {0}
    /\ MaxCompiles \in Nat /\ MaxRuns \in Nat /\ Leftovers \subseteq Nat
    /\ \A b \in Range(Packet) : b \in 0 .. ByteMod - 1

Init ==
    /\ front = C!InitialFront
    /\ compiles = 0 /\ file = None
    /\ g = None /\ to_send = FALSE /\ link = <<>> /\ guest = None
    /\ runs = <<>>

\* The shell is at its prompt: no program runs, the sender took the last one
\* that asked to migrate (reading a line takes longer), nothing has crashed.
ShellReads ==
    /\ g # None => g.ctx.status # "ok"
    /\ ~to_send
    /\ \A r \in DOMAIN runs : runs[r].outcome # "crashed"

cmd_compile ==
    /\ ShellReads /\ compiles < MaxCompiles
    /\ compiles' = compiles + 1
    /\ \E source \in Programs, left \in Leftovers :
          /\ front' = C!parser_program(source, front, left)
          /\ file' = [source |-> source, code |-> C!ir_lower_program(front'.ir)]
    /\ UNCHANGED <<g, to_send, link, guest, runs>>

\* An image that is refused leaves a null pointer behind, which is run.
cmd_runbpf ==
    /\ ShellReads /\ file # None /\ Len(runs) < MaxRuns
    /\ LET valid == V!bpf_validate(file.code) IN
       /\ runs' = Append(runs, [source |-> file.source, seen |-> <<>>, ret |-> 0,
                                outcome |-> IF valid THEN "runs" ELSE "crashed"])
       /\ g' = IF valid THEN [run |-> Len(runs) + 1, code |-> file.code, ctx |-> V!Fresh] ELSE None
    /\ UNCHANGED <<front, compiles, file, to_send, link, guest>>

\* What the run has printed and how it ended, after a slice on a node.
record(node, vm, c) ==
    runs' = [runs EXCEPT
                ![vm.run].seen = @ \o [i \in DOMAIN c.printed |-> <<node, c.printed[i]>>],
                ![vm.run].ret = c.ret,
                ![vm.run].outcome = CASE c.status = "finished" -> "finished"
                                      [] c.status = "error" -> "stopped"
                                      [] OTHER -> @]

runbpf_step ==
    /\ g # None /\ g.ctx.status = "ok"
    /\ LET c == V!ccbpf_vm_step(g.ctx, g.code) IN
       /\ g' = [g EXCEPT !.ctx = c]
       /\ to_send' = (c.status = "migrate")
       /\ record("A", g, c)
    /\ UNCHANGED <<front, compiles, file, link, guest>>

task_migrate_sender ==
    /\ to_send
    /\ to_send' = FALSE
    /\ link' = Append(link, g)
    /\ UNCHANGED <<front, compiles, file, g, guest, runs>>

\* The call fails, or B has no memory for the program: nobody tries again.
lose ==
    /\ link # <<>>
    /\ link' = Tail(link)
    /\ runs' = [runs EXCEPT ![link[1].run].outcome = "lost"]
    /\ UNCHANGED <<front, compiles, file, g, to_send, guest>>

vm_migrate_write ==
    /\ link # <<>> /\ guest = None
    /\ link' = Tail(link)
    /\ guest' = link[1]
    /\ UNCHANGED <<front, compiles, file, g, to_send, runs>>

\* B goes on when the program asks to migrate once more.
guest_step ==
    /\ guest # None
    /\ LET c == V!ccbpf_vm_step(guest.ctx, guest.code) IN
       /\ guest' = IF c.status \in {"finished", "error"} THEN None ELSE [guest EXCEPT !.ctx = c]
       /\ record("B", guest, c)
    /\ UNCHANGED <<front, compiles, file, g, to_send, link>>

Next ==
    \/ cmd_compile \/ cmd_runbpf \/ runbpf_step
    \/ task_migrate_sender \/ lose
    \/ vm_migrate_write \/ guest_step

Spec == Init /\ [][Next]_vars
-----------------------------------------------------------------------------
\* A run prints what the source says, on the node it says, up to where it is;
\* it ends as the source says, wherever it was moved, or on the way.
DoesWhatSourceSays ==
    \A r \in DOMAIN runs :
        LET run == runs[r]
            says == L!Meaning(run.source) IN
        /\ IsPrefix(run.seen, says.seen)
        /\ run.outcome \in {"runs", "lost", says.outcome}
        /\ run.outcome \in {"finished", "stopped"} => run.seen = says.seen
        /\ run.outcome = "finished" => run.ret = says.ret
=============================================================================
