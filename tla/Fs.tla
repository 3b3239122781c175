--------------------------------- MODULE Fs ---------------------------------
(***************************************************************************)
(* The file system of lttit/fs/source/fs.c on the block device of          *)
(* src/arch/stm32f103c8t6/fs_port/fs_port.c, with resets.                  *)
(*                                                                         *)
(* The bitmaps and the inode table live in memory; fs_sync writes them to  *)
(* the disk, nothing else does.  Directories and file data are written at  *)
(* once.  An operation is a value [mem, disk]: what it has left in memory  *)
(* and on the disk as far as it is.                                        *)
(*                                                                         *)
(* A path is a sequence of names, the block of a directory the function    *)
(* from its names to [ino, type]; offsets and lengths count blocks.        *)
(***************************************************************************)
EXTENDS Integers, Sequences, FiniteSets

CONSTANTS
    Blocks,     \* blocks after the four of the superblock and the metadata
    InodeCount, \* INODE_COUNT, the entries of DInodeArray
    InodeBits,  \* the bits of InodeBitmap, whole words of them
    NDIRECT,    \* blocks of a file
    DirSlots,   \* entries of a directory beside . and ..
    Buffers,    \* what may be written at once: sequences of block contents
    Offsets,    \* and where
    Blank,      \* what an erased block reads as (0xFF), also an unset pointer
    DirPaths,   \* the paths that are used for directories
    FilePaths   \* and those for files; no path leads through a file

Members(q) == {q[i] : i \in DOMAIN q}
Names == UNION {Members(p) : p \in DirPaths \cup FilePaths}

Assumption ==
    /\ Blocks \subseteq Nat \ (0..3) /\ Blocks # {}
    /\ InodeCount \in Nat \ {0} /\ InodeBits \in Nat /\ InodeCount <= InodeBits
    /\ NDIRECT \in Nat \ {0} /\ DirSlots \in Nat
    /\ Offsets \subseteq 0..(NDIRECT - 1) /\ Blank \notin Blocks /\ Blank # {}
    /\ \A buf \in Buffers : buf \in Seq(Members(buf)) /\ buf # <<>>
    /\ DirPaths \cap FilePaths = {}
    /\ \A p \in DirPaths \cup FilePaths :
          /\ p \in Seq(Names) /\ p # <<>>
          /\ \A i \in 1..(Len(p) - 1) : SubSeq(p, 1, i) \in DirPaths

VARIABLES
    mem,        \* the bitmaps, as the sets of used numbers, and DInodeArray
    mounted,    \* FALSE after a reset: mem is lost
    disk,       \* the blocks
    file,       \* the open file, [path, ino, din] with a copy of its inode,
                \* or none; the shell and the editor open one at a time
    dirty,      \* mem changed since it was last written
    overrun     \* an operation wrote behind DInodeArray: what the memory there
                \* held is gone, and nothing is defined any more

vars == <<mem, mounted, disk, file, dirty, overrun>>

Paths == DirPaths \cup FilePaths
Inodes == 0..(InodeCount - 1)
Root == 0
None == -1

\* Where fs_format puts the metadata.
Super == 0
InodeMap == 1
BlockMap == 2
InodeTable == 3

Unset == [i \in 1..NDIRECT |-> Blank]
FreeInode == [mode |-> "none", size |-> 0, direct |-> Unset]
FileInode == [mode |-> "file", size |-> 0, direct |-> Unset]
DirInode(b) == [mode |-> "dir", size |-> 1, direct |-> [Unset EXCEPT ![1] = b]]
EmptyDir == [n \in {} |-> None]
NoMemory == [inodes |-> {}, blocks |-> {}, table |-> [i \in Inodes |-> FreeInode]]

Init ==
    /\ mem = NoMemory
    /\ mounted = FALSE
    /\ disk = [b \in (0..3) \cup Blocks |-> Blank]
    /\ file = {}
    /\ dirty = FALSE
    /\ overrun = FALSE
-----------------------------------------------------------------------------
(***************************************************************************)
(* What the operations are made of.  x is the operation as far as it is.   *)
(***************************************************************************)
Begin == [mem |-> mem, disk |-> disk]
Write(x, b, content) == [x EXCEPT !.disk[b] = content]

BlockLeft(x) == Blocks \ x.mem.blocks # {}
First(S) == CHOOSE i \in S : \A j \in S : i <= j
block_alloc(x) == First(Blocks \ x.mem.blocks)
block_free(x, din) == [x EXCEPT !.mem.blocks = @ \ Members(din.direct)]

\* Every bit that is set is a free inode: none is compared with INODE_COUNT,
\* and the entry of the first one may lie behind the table.
Numbers == 0..(InodeBits - 1)
InodeLeft(x) == Numbers \ x.mem.inodes # {}
inode_alloc(x) == First(Numbers \ x.mem.inodes)
Overruns(x) == InodeLeft(x) /\ inode_alloc(x) \notin Inodes
inode_free(x, ino) == [x EXCEPT !.mem.inodes = @ \ {ino}, !.mem.table[ino] = FreeInode]

\* The directory of an inode, and the inode a path leads to.
Dir(x, ino) == x.disk[x.mem.table[ino].direct[1]]
fs_lookup_path(x, path) ==
    LET at[i \in 0..Len(path)] ==
            IF i = 0 THEN Root
            ELSE IF at[i - 1] # None /\ path[i] \in DOMAIN Dir(x, at[i - 1])
                 THEN Dir(x, at[i - 1])[path[i]].ino
                 ELSE None
    IN  at[Len(path)]

HasSlot(x, dir) == Cardinality(DOMAIN Dir(x, dir)) < DirSlots
dir_add_entry(x, dir, name, ino, type) ==
    LET D == Dir(x, dir)
    IN  Write(x, x.mem.table[dir].direct[1],
              [n \in DOMAIN D \cup {name} |->
                  IF n = name THEN [ino |-> ino, type |-> type] ELSE D[n]])
drop_entry(x, dir, name) ==
    LET D == Dir(x, dir)
    IN  Write(x, x.mem.table[dir].direct[1], [n \in DOMAIN D \ {name} |-> D[n]])

Above(path) == SubSeq(path, 1, Len(path) - 1)
Last(path) == path[Len(path)]
Parent(path) == fs_lookup_path(Begin, Above(path))
Exists(path) == Parent(path) # None /\ Last(path) \in DOMAIN Dir(Begin, Parent(path))
Entry(path) == Dir(Begin, Parent(path))[Last(path)]

\* The whole operation, with the open file it leaves.
Leave(x, f) ==
    /\ mounted
    /\ mem' = x.mem
    /\ disk' = x.disk
    /\ file' = f
    /\ dirty' = (dirty \/ x.mem # mem)
    /\ UNCHANGED mounted

\* One that wrote where it should.
Do(x, f) == Leave(x, f) /\ UNCHANGED overrun
-----------------------------------------------------------------------------
\* Mutant of make_dir: the inode stays in use when the directory is full.
make_dir_kept(x, dir, name) ==
    LET ino == inode_alloc(x)
        b == block_alloc(x)
        y == Write([x EXCEPT !.mem.inodes = @ \cup {ino}, !.mem.blocks = @ \cup {b},
                             !.mem.table[ino] = DirInode(b)], b, EmptyDir)
    IN  IF HasSlot(x, dir) THEN dir_add_entry(y, dir, name, ino, "dir") ELSE y

\* When the directory is full the inode is given back, the block is not.
make_dir(x, dir, name) ==
    LET ino == inode_alloc(x)
        b == block_alloc(x)
        y == Write([x EXCEPT !.mem.inodes = @ \cup {ino}, !.mem.blocks = @ \cup {b},
                             !.mem.table[ino] = DirInode(b)], b, EmptyDir)
    IN  IF HasSlot(x, dir) THEN dir_add_entry(y, dir, name, ino, "dir")
        ELSE inode_free(y, ino)

\* One component of a path: dir is where the way has come to, None when
\* inodes, blocks or slots did not go so far.
Missing(s, name) == s.dir # None /\ name \notin DOMAIN Dir(s.x, s.dir)
enter(s, name) ==
    IF s.dir = None THEN s
    ELSE IF name \in DOMAIN Dir(s.x, s.dir) THEN [s EXCEPT !.dir = Dir(s.x, s.dir)[name].ino]
    ELSE IF ~InodeLeft(s.x) \/ Overruns(s.x) \/ ~BlockLeft(s.x) THEN [s EXCEPT !.dir = None]
    ELSE [x |-> make_dir(s.x, s.dir, name),
          dir |-> IF HasSlot(s.x, s.dir) THEN inode_alloc(s.x) ELSE None]

\* The inode is taken before the block, and given back when there is none.
fs_mkdir(path) ==
    LET made[i \in 0..Len(path)] ==
            IF i = 0 THEN [x |-> Begin, dir |-> Root] ELSE enter(made[i - 1], path[i])
    IN  /\ Leave(made[Len(path)].x, file)
        /\ overrun' = \E i \in 1..Len(path) :
                         Missing(made[i - 1], path[i]) /\ Overruns(made[i - 1].x)

\* The entry of an empty directory goes first, then its block and its inode.
fs_rmdir(path) ==
    LET ino == Entry(path).ino
        x == drop_entry(Begin, Parent(path), Last(path))
    IN  /\ mounted /\ Exists(path)
        /\ Entry(path).type = "dir"
        /\ Dir(Begin, ino) = EmptyDir
        /\ Do(inode_free([x EXCEPT !.mem.blocks = @ \ {mem.table[ino].direct[1]}], ino), file)

\* The blocks and the inode of a file go first, then the entry.
fs_unlink(path) ==
    LET ino == Entry(path).ino
    IN  /\ mounted /\ Exists(path)
        /\ Entry(path).type = "file"
        /\ \A f \in file : f.ino # ino
        /\ Do(drop_entry(inode_free(block_free(Begin, mem.table[ino]), ino),
                         Parent(path), Last(path)), file)

Opened(path, ino, din) == {[path |-> path, ino |-> ino, din |-> din]}

\* With O_CREAT; a name that is there is opened, a full directory fails.
fs_open(path) ==
    LET ino == inode_alloc(Begin)
        x == [Begin EXCEPT !.mem.inodes = @ \cup {ino}, !.mem.table[ino] = FileInode]
    IN  /\ mounted /\ file = {} /\ Parent(path) # None
        /\ IF Exists(path)
           THEN /\ Entry(path).type = "file"
                /\ Do(Begin, Opened(path, Entry(path).ino, mem.table[Entry(path).ino]))
           ELSE /\ InodeLeft(Begin)
                /\ IF Overruns(Begin) THEN Leave(Begin, file) /\ overrun' = TRUE
                   ELSE IF HasSlot(Begin, Parent(path))
                   THEN Do(dir_add_entry(x, Parent(path), Last(path), ino, "file"),
                           Opened(path, ino, FileInode))
                   ELSE Do(inode_free(x, ino), file)

\* Mutant of grown: the file ends where the last write ended.
grown_or_cut(din, last) == [din EXCEPT !.size = last]

\* The file ends where the last write ended, or where it ended before.
grown(din, last) == [din EXCEPT !.size = IF @ < last THEN last ELSE @]

\* Block i of the file of s gets what is meant for it; when it is missing and
\* no block is left, nothing from there on does.
store(s, i, content) ==
    LET b == IF s.din.direct[i] = Blank THEN block_alloc(s.x) ELSE s.din.direct[i]
    IN  IF s.full \/ (s.din.direct[i] = Blank /\ ~BlockLeft(s.x)) THEN [s EXCEPT !.full = TRUE]
        ELSE [x |-> Write([s.x EXCEPT !.mem.blocks = @ \cup {b}], b, content),
              din |-> [s.din EXCEPT !.direct[i] = b], full |-> FALSE]

\* The first k blocks of buf, behind the first off of the file.
stored(f, off, buf, k) ==
    LET done[i \in 0..k] ==
            IF i = 0 THEN [x |-> Begin, din |-> f.din, full |-> FALSE]
            ELSE store(done[i - 1], off + i, buf[i])
    IN  done[k]

\* No more than NDIRECT.
Fits(off, buf) == IF Len(buf) < NDIRECT - off THEN Len(buf) ELSE NDIRECT - off

\* A write that fails does not store the inode: what it allocated is in the
\* copy of the open file only.
fs_write(f, off, buf) ==
    LET s == stored(f, off, buf, Fits(off, buf))
        din == grown(s.din, off + Fits(off, buf))
    IN  IF s.full THEN Do(s.x, {[f EXCEPT !.din = s.din]})
        ELSE Do([s.x EXCEPT !.mem.table[f.ino] = din], {[f EXCEPT !.din = din]})

fs_truncate(f) ==
    LET din == [f.din EXCEPT !.size = 0, !.direct = Unset]
    IN  Do([block_free(Begin, f.din) EXCEPT !.mem.table[f.ino] = din],
           {[f EXCEPT !.din = din]})

fs_close(f) == Do(Begin, file \ {f})

Metadata(x) ==
    Write(Write(Write(x, InodeMap, x.mem.inodes), BlockMap, x.mem.blocks),
          InodeTable, x.mem.table)

fs_sync ==
    /\ mounted
    /\ disk' = Metadata(Begin).disk
    /\ dirty' = FALSE
    /\ UNCHANGED <<mem, mounted, file, overrun>>

\* The superblock is written first and the root directory last.
fs_format ==
    LET b == First(Blocks)
        x == [Begin EXCEPT !.mem =
                 [inodes |-> {Root}, blocks |-> {b},
                  table |-> [NoMemory.table EXCEPT ![Root] = DirInode(b)]]]
    IN  Write(Metadata(Write(x, Super, {})), b, EmptyDir)

Saved(d) == [inodes |-> d[InodeMap], blocks |-> d[BlockMap], table |-> d[InodeTable]]

\* fs_mount, after fs_format when there is no superblock.
fs_port_mount ==
    LET d == IF disk[Super] = Blank THEN fs_format.disk ELSE disk
    IN  /\ ~mounted
        /\ disk' = d
        /\ mem' = Saved(d)
        /\ mounted' = TRUE
        /\ UNCHANGED <<file, dirty, overrun>>

\* A reset when nothing is unsaved: while nothing goes on, or within a write
\* of data to blocks the file has, which finds the block at hand erased.
\* There is no journal: a reset at any other time loses metadata, and is left
\* out.
Reset ==
    /\ mounted /\ ~dirty
    /\ \/ UNCHANGED disk
       \/ \E f \in file, off \in Offsets, buf \in Buffers :
             \E k \in 1..Fits(off, buf) :
                LET s == stored(f, off, buf, k)
                IN  /\ ~s.full /\ s.x.mem = mem
                    /\ disk' = Write(s.x, s.din.direct[off + k], Blank).disk
    /\ mem' = NoMemory
    /\ mounted' = FALSE
    /\ file' = {}
    /\ UNCHANGED <<dirty, overrun>>

Operate ==
    \/ \E p \in DirPaths : fs_mkdir(p) \/ fs_rmdir(p)
    \/ \E p \in FilePaths : fs_open(p) \/ fs_unlink(p)
    \/ \E f \in file, off \in Offsets, buf \in Buffers : fs_write(f, off, buf)
    \/ \E f \in file : fs_truncate(f) \/ fs_close(f)
    \/ fs_sync \/ fs_port_mount \/ Reset

Next == ~overrun /\ Operate

Spec == Init /\ [][Next]_vars
-----------------------------------------------------------------------------
(***************************************************************************)
(* Properties                                                              *)
(***************************************************************************)
\* The metadata that count: those in memory, after a reset those on the disk.
Current == [mem |-> IF mounted THEN mem ELSE Saved(disk), disk |-> disk]

\* The bitmaps, the inode table and the directories agree: the inodes in use
\* are the root and one for each name, of the type the name has; their blocks
\* are in use, and no block belongs to two of them.  Nothing is written behind
\* the table before each of its entries belongs to a name.
Owned(ino) == Members(mem.table[ino].direct) \ {Blank}
TreeIsSound ==
    mounted =>
        LET live == {p \in Paths : Exists(p)}
        IN  /\ mem.inodes = {Root} \cup {Entry(p).ino : p \in live}
            /\ \A p, q \in live : p # q => Entry(p).ino # Entry(q).ino
            /\ \A p \in live : Entry(p).type = mem.table[Entry(p).ino].mode
            /\ \A i \in mem.inodes : Owned(i) \subseteq mem.blocks
            /\ \A i, j \in mem.inodes : i # j => Owned(i) \cap Owned(j) = {}
            /\ overrun => mem.inodes = Inodes

\* Seen from outside: what each path leads to.
Seen(path) ==
    LET i == fs_lookup_path(Current, path)
        din == Current.mem.table[i]
        at(k) == din.direct[k]
    IN  IF disk[Super] = Blank \/ i = None THEN [kind |-> "none", data |-> <<>>]
        ELSE IF din.mode # "file" THEN [kind |-> "dir", data |-> <<>>]
        ELSE [kind |-> "file",
              data |-> [k \in 1..din.size |->
                           IF at(k) = Blank THEN Blank ELSE disk[at(k)]]]
=============================================================================
