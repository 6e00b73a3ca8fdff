------------------------------ MODULE XvBlocks ------------------------------
(***************************************************************************)
(* The blocks of files in ex5/bonus/fs.c: balloc and bfree on the bitmap,  *)
(* bmap with direct blocks and an indirect one, readi, writei and itrunc,  *)
(* iupdate, and the log's transactions around them.                        *)
(*                                                                         *)
(* ip->lock is held through a call, so a file has at most one call in      *)
(* progress and calls are indexed by files.  A step is the work on one     *)
(* block, which calls on other files cannot see half done: the bitmap is   *)
(* searched and marked under its buffer's lock, and a block that is not    *)
(* marked, or is another file's, is not touched.  The log, the buffer      *)
(* cache and the copies from and to user memory are external: a block that *)
(* was changed without log_write is not committed, and the change is lost  *)
(* when the cache takes its buffer for another block.                      *)
(***************************************************************************)
EXTENDS Integers, Sequences, FiniteSetsExt

CONSTANTS
    Files,        \* inodes, which exist already
    NBLOCKS,      \* data blocks of the disk, numbered from 1; 0 is no block
    NDIRECT,      \* direct blocks of an inode
    BSIZE,        \* bytes, or block numbers, in a block
    Bytes,        \* bytes that programs write
    Lens,         \* the n of read and write calls
    UINT,         \* number of values of an unsigned int
    MaxCalls      \* bound of the model: calls that programs make

ASSUME BlockAssumption ==
    /\ NBLOCKS \in Nat /\ NDIRECT \in Nat
    /\ BSIZE \in Nat \ {0}
    /\ Bytes \subseteq Nat \ {0}
    /\ Lens \subseteq 0..(UINT - 1)
    /\ UINT \in Nat \ {0}
    /\ MaxCalls \in Nat

Blocks == 1..NBLOCKS
NINDIRECT == BSIZE
MAXFILE == NDIRECT + NINDIRECT
Zeros == [k \in 0..(BSIZE - 1) |-> 0]
NoCall == [op |-> "none", off |-> 0, n |-> 0, tot |-> 0, byte |-> 0, old |-> <<>>, got |-> <<>>]

VARIABLES
    bitmap,   \* blocks marked in use
    data,     \* the blocks in the buffer cache
    ip,       \* the inodes in memory: addrs and size
    dinode,   \* the inodes in the buffer cache
    logged,   \* blocks that log_write has put in the log since the last commit
    disk,     \* what has been committed; content is history: the files at that time
    loose,    \* history: the bytes of a file that a failed copyin may have changed
    call,     \* the call in progress on every file
    calls     \* calls that programs may still make

cache == <<bitmap, data, dinode, logged>>
vars == <<cache, ip, disk, loose, call, calls>>

Unknown == -1   \* a byte that may have one value or another

NewInode == [addrs |-> [k \in 0..NDIRECT |-> 0], size |-> 0]

Init ==
    /\ bitmap = {}
    /\ data = [b \in Blocks |-> Zeros]
    /\ ip = [f \in Files |-> NewInode]
    /\ dinode = ip
    /\ logged = {}
    /\ loose = [f \in Files |-> {}]
    /\ disk = [bitmap |-> bitmap, data |-> data, dinode |-> dinode, content |-> [f \in Files |-> <<>>]]
    /\ call = [f \in Files |-> NoCall]
    /\ calls = MaxCalls

-----------------------------------------------------------------------------
(* bmap, as a lookup: the number of the bn'th block of an inode, or 0. *)
BlockAt(dat, inode, bn) ==
    IF bn < NDIRECT THEN inode.addrs[bn]
    ELSE IF inode.addrs[NDIRECT] = 0 THEN 0
    ELSE dat[inode.addrs[NDIRECT]][bn - NDIRECT]

Content(dat, inode, unknown) ==
    [k \in 1..inode.size |->
        LET b == BlockAt(dat, inode, (k - 1) \div BSIZE)
        IN  IF k \in unknown THEN Unknown
            ELSE IF b \in Blocks THEN dat[b][(k - 1) % BSIZE] ELSE 0]

Bn(f) == call[f].off \div BSIZE
Mapped(f) == BlockAt(data, ip[f], Bn(f))

(* The loops of readi and writei. *)
Looping(f) == call[f].op \in {"read", "write"} /\ call[f].tot < call[f].n

(* The first free block; dat are the blocks with what its number is        *)
(* written to.  Mutant: the block is not zeroed.                           *)
ballocDirty(b, dat) ==
    /\ b \in Blocks \ bitmap
    /\ \A c \in Blocks \ bitmap : b <= c
    /\ bitmap' = bitmap \union {b}
    /\ data' = dat
    /\ logged' = logged \union {b} \union {c \in Blocks : dat[c] # data[c]}

balloc(b, dat) ==
    /\ b \in Blocks \ bitmap
    /\ \A c \in Blocks \ bitmap : b <= c
    /\ bitmap' = bitmap \union {b}
    /\ data' = [dat EXCEPT ![b] = Zeros]
    /\ logged' = logged \union {b} \union {c \in Blocks : dat[c] # data[c]}

(* bmap allocates a block that the inode lists itself, the indirect one    *)
(* included, or a block that the indirect one lists.                       *)
BmapInode(f) ==
    /\ Looping(f)
    /\ LET k == Min({Bn(f), NDIRECT})
       IN  /\ ip[f].addrs[k] = 0
           /\ \E b \in Blocks :
                /\ balloc(b, data)
                /\ ip' = [ip EXCEPT ![f].addrs[k] = b]
    /\ UNCHANGED <<dinode, disk, loose, call, calls>>

BmapIndirect(f) ==
    /\ Looping(f)
    /\ Bn(f) >= NDIRECT
    /\ LET a == ip[f].addrs[NDIRECT]
           j == Bn(f) - NDIRECT
       IN  /\ a # 0
           /\ data[a][j] = 0
           /\ \E b \in Blocks : balloc(b, [data EXCEPT ![a][j] = b])
    /\ UNCHANGED <<ip, dinode, disk, loose, call, calls>>

(* balloc finds no block: break, with n no longer what was asked for. *)
BmapFull(f) ==
    /\ Looping(f)
    /\ Mapped(f) = 0
    /\ bitmap = Blocks
    /\ call' = [call EXCEPT ![f].n = call[f].tot]
    /\ UNCHANGED <<cache, ip, disk, loose, calls>>

Bmap(f) == BmapInode(f) \/ BmapIndirect(f) \/ BmapFull(f)

-----------------------------------------------------------------------------
(* off + n is computed in an unsigned int.  Mutant: the wrap is forgotten. *)
WrapsNever(off, n) == FALSE
Wraps(off, n) == (off + n) % UINT < off

Begin(f, op, off, n, byte) ==
    /\ call[f] = NoCall
    /\ calls > 0
    /\ calls' = calls - 1
    /\ call' = [call EXCEPT ![f] = [op |-> op, off |-> off, n |-> n, tot |-> 0, byte |-> byte,
                                    old |-> Content(data, ip[f], loose[f]), got |-> <<>>]]
    /\ UNCHANGED <<cache, ip, disk, loose>>

(* readi, on a call of read. *)
ReadCall(f, off, n) ==
    /\ off <= ip[f].size
    /\ ~ Wraps(off, n)
    /\ Begin(f, "read", off, IF (off + n) % UINT > ip[f].size THEN ip[f].size - off ELSE n, 0)

Chunk(f) == Min({call[f].n - call[f].tot, BSIZE - (call[f].off % BSIZE)})

ReadBlock(f) ==
    /\ Looping(f) /\ call[f].op = "read"
    /\ Mapped(f) # 0
    /\ LET at == call[f].off % BSIZE
           bytes == [k \in 1..Chunk(f) |-> data[Mapped(f)][at + k - 1]]
       IN  call' = [call EXCEPT ![f].got = @ \o bytes, ![f].tot = @ + Chunk(f), ![f].off = @ + Chunk(f)]
    /\ UNCHANGED <<cache, ip, disk, loose, calls>>

(* The last byte has been read, or copyout has failed. *)
ReadReturn(f) ==
    /\ call[f].op = "read"
    /\ call' = [call EXCEPT ![f] = NoCall]
    /\ UNCHANGED <<cache, ip, disk, loose, calls>>

-----------------------------------------------------------------------------
(* end_op: the log is committed when no other transaction is open. *)
InOp(f) == call[f].op \in {"write", "trunc"}

end_op(f) ==
    /\ call' = [call EXCEPT ![f] = NoCall]
    /\ IF \E g \in Files \ {f} : InOp(g) THEN UNCHANGED <<disk, logged>>
       ELSE /\ disk' = [bitmap |-> bitmap', dinode |-> dinode',
                        data |-> [b \in Blocks |-> IF b \in logged THEN data'[b] ELSE disk.data[b]],
                        content |-> [g \in Files |-> Content(data', ip'[g], loose'[g])]]
            /\ logged' = {}

(* iupdate *)
iupdate(f, inode) ==
    /\ ip' = [ip EXCEPT ![f] = inode]
    /\ dinode' = [dinode EXCEPT ![f] = inode]

(* writei, on a call of write, in a transaction. *)
WriteCall(f, off, n, byte) ==
    /\ off <= ip[f].size
    /\ ~ Wraps(off, n)
    /\ (off + n) % UINT <= MAXFILE * BSIZE
    /\ Begin(f, "write", off, n, byte)

Positions(f, k) == (call[f].off + 1)..(call[f].off + k)

(* copyin stores k bytes of the chunk.  Mutant: at the offset in the file. *)
StoreAbsolute(f, k) ==
    data' = [data EXCEPT ![Mapped(f)] =
               [j \in DOMAIN @ |-> IF j \in call[f].off..(call[f].off + k - 1) THEN call[f].byte ELSE @[j]]]

Store(f, k) ==
    LET at == call[f].off % BSIZE
    IN  data' = [data EXCEPT ![Mapped(f)] =
                   [j \in DOMAIN @ |-> IF j \in at..(at + k - 1) THEN call[f].byte ELSE @[j]]]

WriteBlock(f) ==
    /\ Looping(f) /\ call[f].op = "write"
    /\ Mapped(f) # 0
    /\ Store(f, Chunk(f))
    /\ logged' = logged \union {Mapped(f)}
    /\ loose' = [loose EXCEPT ![f] = @ \ Positions(f, Chunk(f))]
    /\ call' = [call EXCEPT ![f].tot = @ + Chunk(f), ![f].off = @ + Chunk(f)]
    /\ UNCHANGED <<bitmap, dinode, ip, disk, calls>>

(* copyin fails, after it has stored some of the bytes: break, without     *)
(* log_write.                                                              *)
WriteFails(f) ==
    /\ Looping(f) /\ call[f].op = "write"
    /\ Mapped(f) # 0
    /\ \E k \in 0..(Chunk(f) - 1) :
         /\ Store(f, k)
         /\ loose' = [loose EXCEPT ![f] = @ \union (Positions(f, k) \intersect 1..ip[f].size)]
    /\ call' = [call EXCEPT ![f].n = call[f].tot]
    /\ UNCHANGED <<bitmap, dinode, logged, ip, disk, calls>>

(* Mutant: the inode is written back only if the size has changed. *)
WriteReturnSize(f) ==
    /\ call[f].op = "write" /\ ~ Looping(f)
    /\ IF call[f].off > ip[f].size
       THEN iupdate(f, [ip[f] EXCEPT !.size = call[f].off])
       ELSE UNCHANGED <<ip, dinode>>
    /\ UNCHANGED <<bitmap, data, loose, calls>>
    /\ end_op(f)

WriteReturn(f) ==
    /\ call[f].op = "write" /\ ~ Looping(f)
    /\ iupdate(f, [ip[f] EXCEPT !.size = Max({@, call[f].off})])
    /\ UNCHANGED <<bitmap, data, loose, calls>>
    /\ end_op(f)

-----------------------------------------------------------------------------
(* itrunc, on a call of open with O_TRUNC or when the last reference is    *)
(* dropped.  tot counts the entries of the indirect block.                 *)
TruncCall(f) == Begin(f, "trunc", 0, NINDIRECT, 0)

bfree(b) == bitmap' = bitmap \ {b}

TruncDirect(f) ==
    /\ call[f].op = "trunc"
    /\ \E k \in 0..(NDIRECT - 1) :
         /\ ip[f].addrs[k] # 0
         /\ \A j \in 0..(k - 1) : ip[f].addrs[j] = 0
         /\ bfree(ip[f].addrs[k])
         /\ ip' = [ip EXCEPT ![f].addrs[k] = 0]
    /\ UNCHANGED <<data, dinode, logged, disk, loose, call, calls>>

DirectFreed(f) == \A k \in 0..(NDIRECT - 1) : ip[f].addrs[k] = 0

TruncEntry(f) ==
    /\ call[f].op = "trunc" /\ DirectFreed(f)
    /\ ip[f].addrs[NDIRECT] # 0
    /\ call[f].tot < NINDIRECT
    /\ bfree(data[ip[f].addrs[NDIRECT]][call[f].tot])
    /\ call' = [call EXCEPT ![f].tot = @ + 1]
    /\ UNCHANGED <<data, dinode, logged, ip, disk, loose, calls>>

TruncIndirect(f) ==
    /\ call[f].op = "trunc" /\ DirectFreed(f)
    /\ ip[f].addrs[NDIRECT] # 0
    /\ call[f].tot = NINDIRECT
    /\ bfree(ip[f].addrs[NDIRECT])
    /\ ip' = [ip EXCEPT ![f].addrs[NDIRECT] = 0]
    /\ UNCHANGED <<data, dinode, logged, disk, loose, call, calls>>

TruncReturn(f) ==
    /\ call[f].op = "trunc" /\ DirectFreed(f)
    /\ ip[f].addrs[NDIRECT] = 0
    /\ iupdate(f, [ip[f] EXCEPT !.size = 0])
    /\ loose' = [loose EXCEPT ![f] = {}]
    /\ UNCHANGED <<bitmap, data, calls>>
    /\ end_op(f)

Trunc(f) == TruncDirect(f) \/ TruncEntry(f) \/ TruncIndirect(f) \/ TruncReturn(f)

-----------------------------------------------------------------------------
(* The table entry of an inode that nobody uses is taken for another one,  *)
(* and ilock reads the inode again.                                        *)
Reload(f) ==
    /\ call[f] = NoCall
    /\ ip' = [ip EXCEPT ![f] = dinode[f]]
    /\ UNCHANGED <<cache, disk, loose, call, calls>>

(* The cache takes the buffer of a block that is not in the log. *)
Evict(b) ==
    /\ b \notin logged
    /\ data[b] # disk.data[b]
    /\ data' = [data EXCEPT ![b] = disk.data[b]]
    /\ UNCHANGED <<bitmap, dinode, logged, ip, disk, loose, call, calls>>

(* The machine stops, and initlog recovers what was committed. *)
Crash ==
    /\ bitmap' = disk.bitmap
    /\ data' = disk.data
    /\ dinode' = disk.dinode
    /\ ip' = disk.dinode
    /\ logged' = {}
    /\ loose' = [f \in Files |-> {k \in DOMAIN disk.content[f] : disk.content[f][k] = Unknown}]
    /\ call' = [f \in Files |-> NoCall]
    /\ UNCHANGED <<disk, calls>>

Program(f) ==
    \E off \in 0..(MAXFILE * BSIZE), n \in Lens :
      ReadCall(f, off, n) \/ \E b \in Bytes : WriteCall(f, off, n, b)

Step(f) ==
    \/ Program(f) \/ TruncCall(f) \/ Reload(f)
    \/ Bmap(f) \/ ReadBlock(f) \/ ReadReturn(f)
    \/ WriteBlock(f) \/ WriteFails(f) \/ WriteReturn(f) \/ Trunc(f)

Next == Crash \/ (\E b \in Blocks : Evict(b)) \/ \E f \in Files : Step(f)

Spec == Init /\ [][Next]_vars

-----------------------------------------------------------------------------
(* The block number an inode lists at position k: its direct blocks, the   *)
(* indirect one, and the entries of that.                                  *)
Listed(dat, inode, k) ==
    IF k <= NDIRECT THEN inode.addrs[k]
    ELSE IF inode.addrs[NDIRECT] = 0 THEN 0
    ELSE dat[inode.addrs[NDIRECT]][k - NDIRECT - 1]

(* The places at which block b is listed; freed[f] entries of the indirect *)
(* block of f have been given back.                                        *)
Places(b, dat, inodes, freed) ==
    {p \in Files \X (0..MAXFILE) :
        /\ Listed(dat, inodes[p[1]], p[2]) = b
        /\ p[2] \notin (NDIRECT + 1)..(NDIRECT + freed[p[1]])}

Owned(bits, dat, inodes, freed) ==
    \A b \in Blocks :
      Cardinality(Places(b, dat, inodes, freed)) = IF b \in bits THEN 1 ELSE 0

(* A block is marked in the bitmap exactly when one file lists it, at one  *)
(* place: no block belongs to two files, none is lost when a write fails   *)
(* half way or the disk is full, and bfree never meets a free block.       *)
BlocksOwned ==
    Owned(bitmap, data, ip, [f \in Files |-> IF call[f].op = "trunc" THEN call[f].tot ELSE 0])

(* The same holds on the disk that a crash leaves, for the inodes as they  *)
(* are there: whatever bmap changed in memory has been written back by the *)
(* end of the transaction.                                                 *)
CrashSafe == Owned(disk.bitmap, disk.data, disk.dinode, [f \in Files |-> 0])

(* readi delivers the bytes of the file, whatever part of an earlier write *)
(* failed, and none beyond its end, also when off + n wraps around; it     *)
(* never comes to a block that bmap would have to allocate (it has no      *)
(* transaction and does not write the inode back); no call gets to a block *)
(* that bmap panics for.                                                   *)
ReadsBack ==
    \A f \in Files :
      /\ Looping(f) => Bn(f) < MAXFILE
      /\ call[f].op = "read" =>
           /\ call[f].off <= ip[f].size
           /\ \A k \in 1..call[f].tot :
                call[f].old[call[f].off - call[f].tot + k] \in {call[f].got[k], Unknown}
           /\ Looping(f) => Mapped(f) # 0

(* Files are what FileStore says: a sequence of bytes that changes when a  *)
(* write or a truncation of that file ends, or to what it was in a crash.  *)
Contents == [f \in Files |-> IF InOp(f) THEN call[f].old ELSE Content(data, ip[f], loose[f])]

Store0 == INSTANCE FileStore WITH
    MaxSize <- MAXFILE * BSIZE,
    content <- Contents,
    saved <- disk.content

ImplementsFileStore == Store0!FileSpec

=============================================================================
