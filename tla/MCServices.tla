----------------------------- MODULE MCServices -----------------------------
(***************************************************************************)
(* Small instances of the parts that share no state with each other, one   *)
(* per behaviour: what is chosen first decides which part moves.  The      *)
(* read-write lock is the one that is extended.                            *)
(***************************************************************************)
EXTENDS RwLock, Services, Resources

CONSTANTS
    na, nb, a1, a2, b1,             \* nodes and tasks that call
    ea, eb, ec, d1, d2,             \* names and contents of blocks
    ta, tb, tc, td, m1, m2          \* tasks and messages

Off == "off"

VARIABLES
    root,
    tree, line, registered, learnt,
    front, compiles, image, g, to_send, moving, guest, executions

-----------------------------------------------------------------------------
(***************************************************************************)
(* The file system: two files and two directories, with room for two       *)
(* entries in a directory and too few inodes for all; and a nested         *)
(* directory where only one entry fits.  Both run out of blocks.           *)
(***************************************************************************)
MCBuffers == {<<d1>>, <<d2, d1>>}
MCShape == [wide |-> [inodes |-> 3, bits |-> 4, slots |-> 2, dirs |-> {<<ea>>, <<eb>>},
                      files |-> {<<ec>>, <<ea, eb>>}],
            narrow |-> [inodes |-> 4, bits |-> 5, slots |-> 1, dirs |-> {<<ea>>, <<eb>>, <<ea, ea>>},
                        files |-> {<<ec>>, <<ea, eb>>}]]
FsOff == /\ mem = Off /\ mounted = Off /\ disk = Off /\ file = Off /\ dirty = Off
         /\ overrun = Off

(***************************************************************************)
(* Calls: one node calling with answers and requests lost in every way,    *)
(* numbers used again, both nodes calling.                                 *)
(***************************************************************************)
MCHome == [t \in {a1, a2, b1} |-> IF t = b1 THEN nb ELSE na]
MCSizes == {[callers |-> {a1, a2}, calls |-> 3, space |-> 16, fates |-> {"done", "lost"}],
            [callers |-> {a1, a2}, calls |-> 2, space |-> 16,
             fates |-> {"done", "failed", "refused", "lost", "dropped"}],
            [callers |-> {a1, a2}, calls |-> 3, space |-> 3, fates |-> {"done"}],
            [callers |-> {a1, b1}, calls |-> 3, space |-> 16, fates |-> {"done"}]}
RpcOff == /\ next = Off /\ pending = Off /\ call = Off /\ chan = Off
          /\ reasm = Off /\ executed = Off /\ ended = Off /\ size = Off

(***************************************************************************)
(* Routes: all graphs of four nodes whose links cost 1 or 3, nodes 0 and 1 *)
(* linked.                                                                 *)
(***************************************************************************)
Pairs == {e \in (0..3) \X (0..3) : e[1] < e[2]}
Graph(c) == [u \in 0..3 |-> [v \in 0..3 |->
                IF u = v THEN 0 ELSE IF u < v THEN c[<<u, v>>] ELSE c[<<v, u>>]]]
MCGraphs == {Graph(c) : c \in {f \in [Pairs -> {1, 3, INF}] : f[<<0, 1>>] = 1}}
CcnetOff == /\ cost = Off /\ next_hop = Off /\ packets = Off /\ sent = Off
            /\ arrived = Off /\ discarded = Off

(***************************************************************************)
(* The heap and the tree under the kernel's queues.                        *)
(***************************************************************************)
HeapOff == /\ covers = Off /\ list = Off /\ used = Off /\ all_size = Off /\ lost = Off

Tree == INSTANCE RedBlackTree
            WITH NodeIds <- 2..8, Value <- [n \in 2..8 |-> n \div 2], NULL <- 0

(***************************************************************************)
(* Timers: three of them, on both kinds of port.                           *)
(***************************************************************************)
TimersOff == /\ counts_first = Off /\ now = Off /\ clock_tree = Off /\ obj = Off
             /\ serving = Off /\ created = Off /\ fired = Off

(***************************************************************************)
(* Names that differ in every bit of a byte, and one that begins with      *)
(* another.  All those of na are one too many for the buffer.              *)
(***************************************************************************)
World == INSTANCE World
             WITH Nodes <- {na, nb}, Width <- 3, Root <- <<1>>, BufferSize <- 15,
                  Prefix <- [n \in {na, nb} |-> IF n = na THEN <<1, 2>> ELSE <<1, 3>>],
                  Drivers <- [n \in {na, nb} |->
                                 IF n = na THEN {<<1, 2, 1>>, <<1, 2, 2>>, <<1, 2, 6>>, <<1, 2, 7>>}
                                 ELSE {<<1, 3>>, <<1, 3, 5>>, <<1, 3, 5, 1>>}]
ASSUME WorldAssumption == World!Assumption
WorldOff == /\ tree = Off /\ line = Off /\ registered = Off /\ learnt = Off

(***************************************************************************)
(* The bounded buffer; the read-write lock is that of RwLock itself.       *)
(***************************************************************************)
PcQueueOff == /\ buf = Off /\ in = Off /\ out = Off /\ item = Off /\ space = Off
              /\ at = Off /\ value = Off /\ received = Off

(***************************************************************************)
(* Programs: one is compiled after a start and run twice, and may move.    *)
(***************************************************************************)
S == INSTANCE Sources
Migration == INSTANCE Migration
                 WITH file <- image, link <- moving, runs <- executions, None <- NoMessage,
                      Programs <- S!Relating \cup S!Both \cup S!Reckoning \cup S!Reading,
                      Leftovers <- {0}, MaxCompiles <- 1, MaxRuns <- 2,
                      ByteMod <- 4, MaxInsn <- 16, Packet <- <<2>>,
                      Natives <- {"print", "migrate"}
ASSUME MigrationAssumption == Migration!Assumption
MigrationOff == /\ front = Off /\ compiles = Off /\ image = Off /\ g = Off
                /\ to_send = Off /\ moving = Off /\ guest = Off /\ executions = Off
-----------------------------------------------------------------------------
\* The lock rests with no task at it.
ServicesInit ==
    /\ part \in DOMAIN FsShape \cup {"rpc", "ccnet", "heap", "tree", "timers", "world",
                "pcqueue", "migration", "rwlock"}
    /\ IF part \in DOMAIN FsShape THEN \E s \in {part} : Fs(s)!Init ELSE FsOff
    /\ IF part = "rpc" THEN Rpc!Init ELSE RpcOff
    /\ IF part = "ccnet" THEN Ccnet!Init ELSE CcnetOff
    /\ IF part = "heap" THEN Heap!Init ELSE HeapOff
    /\ IF part = "tree" THEN Tree!Init ELSE root = Off
    /\ IF part = "timers" THEN Timers!Init ELSE TimersOff
    /\ IF part = "world" THEN World!Init ELSE WorldOff
    /\ IF part = "pcqueue" THEN PcQueue!Init ELSE PcQueueOff
    /\ IF part = "migration" THEN Migration!Init ELSE MigrationOff
    /\ Init

FsRests == UNCHANGED <<mem, mounted, disk, file, dirty, overrun>>
RpcRests == UNCHANGED <<next, pending, call, chan, reasm, executed, ended, size>>
CcnetRests == UNCHANGED <<cost, next_hop, packets, sent, arrived, discarded>>
HeapRests == UNCHANGED <<covers, list, used, all_size, lost>>
TimersRest == UNCHANGED <<counts_first, now, clock_tree, obj, serving, created, fired>>
WorldRests == UNCHANGED <<tree, line, registered, learnt>>
PcQueueRests == UNCHANGED <<buf, in, out, item, space, at, value, received>>
MigrationRests ==
    UNCHANGED <<front, compiles, image, g, to_send, moving, guest, executions>>
RwLockRests == UNCHANGED vars

ServicesNext ==
    /\ UNCHANGED part
    /\ IF part \in DOMAIN FsShape THEN \E s \in {part} : Fs(s)!Next ELSE FsRests
    /\ IF part = "rpc" THEN Rpc!Next ELSE RpcRests
    /\ IF part = "ccnet" THEN Ccnet!Next ELSE CcnetRests
    /\ IF part = "heap" THEN Heap!Next ELSE HeapRests
    /\ IF part = "tree" THEN Tree!Next ELSE UNCHANGED root
    /\ IF part = "timers" THEN Timers!Next ELSE TimersRest
    /\ IF part = "world" THEN World!Next ELSE WorldRests
    /\ IF part = "pcqueue" THEN PcQueue!Next ELSE PcQueueRests
    /\ IF part = "migration" THEN Migration!Next ELSE MigrationRests
    /\ IF part = "rwlock" THEN Next ELSE RwLockRests

ServicesSpec ==
    ServicesInit /\ [][ServicesNext]_<<part, mem, mounted, disk, file, dirty, overrun,
                           next, pending, call, chan, reasm, executed, ended, size,
                           cost, next_hop, packets, sent, arrived, discarded,
                           covers, list, used, all_size, lost, root,
                           counts_first, now, clock_tree, obj, serving, created, fired,
                           tree, line, registered, learnt,
                           buf, in, out, item, space, at, value, received,
                           front, compiles, image, g, to_send, moving, guest,
                           executions, vars>>
-----------------------------------------------------------------------------
(***************************************************************************)
(* Properties: those of the parts, each while its part moves.  Those of    *)
(* the read-write lock are in RwLock, those of calls, routes, timers, the   *)
(* heap and the bounded buffer in Services.                                *)
(***************************************************************************)
\* The tree is a red-black tree with its links and ends in order.
TreeIsBalanced == part = "tree" => Tree!TreeIsBalanced

\* The tree is the ordered sequence the kernel is modelled with.
ImplementsRbTree == [][part = "tree" => Tree!InsertsOrRemoves]_root

\* A node finds the names it was given, and its own drivers behind them.
NamesResolve == part = "world" => World!NamesResolve

\* What a program prints, and where, is what its source says.
DoesWhatSourceSays == part = "migration" => Migration!DoesWhatSourceSays
=============================================================================
