------------------------------ MODULE Services ------------------------------
(***************************************************************************)
(* File systems, calls between nodes, routes between them and the bounded  *)
(* buffer, which share no state: one of them moves, the others rest.       *)
(***************************************************************************)
EXTENDS Parts, Integers, Sequences, FiniteSets

CONSTANTS
    FsShape, Blocks, NDIRECT, Buffers, Offsets, Blank,
    QueueTasks, Messages, NoMessage, BufferSize,
    CallNodes, Callers, CallHome, NoCall, CallPieces, CallSizes,
    NodeCount, CostMatrices, INF, TTL_DEFAULT, Senders, Ttls, MaxSent

VARIABLES
    mem, mounted, disk, file, dirty, overrun,
    buf, in, out, item, space, at, value, received,
    next, pending, call, chan, reasm, executed, ended, size,
    cost, next_hop, packets, sent, arrived, discarded

\* One for each entry of FsShape: how many inodes, bits for them and entries of
\* a directory there are, and the paths of directories and of files.
Fs(s) == INSTANCE Fs
             WITH InodeCount <- FsShape[s].inodes, InodeBits <- FsShape[s].bits,
                  DirSlots <- FsShape[s].slots, DirPaths <- FsShape[s].dirs,
                  FilePaths <- FsShape[s].files

\* And what each of them promises: every operation does to the tree what its
\* name says and leaves all other paths alone, whatever blocks are given back
\* and used again; a reset after fs_sync, and mounting, change nothing.
Promise(s) == INSTANCE Files
                  WITH Paths <- Fs(s)!Paths, Hole <- Blank,
                       files <- [p \in Fs(s)!Paths |-> Fs(s)!Seen(p)]

PcQueue == INSTANCE PcQueue WITH Tasks <- QueueTasks, pc <- at

Rpc == INSTANCE Rpc
           WITH Nodes <- CallNodes, Tasks <- Callers, Home <- CallHome,
                Pieces <- CallPieces, Sizes <- CallSizes

Ccnet == INSTANCE Ccnet

ASSUME FsAssumption == \A s \in DOMAIN FsShape : Fs(s)!Assumption
ASSUME QueueAssumption == IsFiniteSet(QueueTasks) /\ BufferSize \in Nat \ {0}
ASSUME CallAssumption == Rpc!Assumption
ASSUME RouteAssumption == Ccnet!Assumption
-----------------------------------------------------------------------------
\* Bitmaps, inode table and directories agree.
TreeIsSound == \A s \in DOMAIN FsShape : part = s => Fs(s)!TreeIsSound

\* The file system implements a map from paths to files and directories.
FilesInit == \A s \in DOMAIN FsShape : part = s => Promise(s)!Init
FilesStep == \A s \in DOMAIN FsShape : part = s => Promise(s)!Step
ImplementsFiles == FilesInit /\ [][FilesStep]_<<mem, mounted, disk>>

\* The bounded buffer is a first-in first-out queue.
ImplementsFifo ==
    /\ part = "pcqueue" => PcQueue!Fifo!Init
    /\ [][part = "pcqueue" => PcQueue!Fifo!Step]_<<buf, out, item, at, received>>

\* The pending calls are those in progress.
PendingAreWaiting == part = "rpc" => Rpc!PendingAreWaiting

\* A call that returns OK was executed once and took its own answer.
OkMeansExecuted == part = "rpc" => Rpc!OkMeansExecuted

\* The tables of all nodes together lead packets by shortest ways.
RoutesReach == part = "ccnet" => Ccnet!RoutesReach
=============================================================================
