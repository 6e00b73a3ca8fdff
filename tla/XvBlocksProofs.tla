--------------------------- MODULE XvBlocksProofs ---------------------------
(* Proofs about XvBlocks, for any number of files and any sizes. *)
EXTENDS XvBlocks, FiniteSetTheorems, TLAPS

(***************************************************************************)
(* The invariant.                                                          *)
(***************************************************************************)
Block == [0..(BSIZE - 1) -> Nat]
Inode == [addrs : [0..NDIRECT -> 0..NBLOCKS], size : Nat]

StoreType(bits, dat, inodes) ==
    /\ bits \subseteq Blocks
    /\ dat \in [Blocks -> Block]
    /\ inodes \in [Files -> Inode]

CallType ==
    [op : {"none", "read", "write", "trunc"}, off : Nat, n : Nat, tot : Nat, byte : Nat,
     old : Seq(Int), got : Seq(Int)]

Types ==
    /\ StoreType(bitmap, data, ip)
    /\ StoreType(disk.bitmap, disk.data, disk.dinode)
    /\ dinode \in [Files -> Inode]
    /\ logged \subseteq Blocks
    /\ call \in [Files -> CallType]

(* What is listed at every place of every inode; an entry of the indirect  *)
(* block that itrunc has given back counts as empty.                       *)
Spots == Files \X (0..MAXFILE)

Lists(dat, inodes, freed) ==
    [x \in Spots |-> IF x[2] \in (NDIRECT + 1)..(NDIRECT + freed[x[1]]) THEN 0
                     ELSE Listed(dat, inodes[x[1]], x[2])]

(* The blocks marked are listed, those listed are marked, none twice. *)
Once(lists, bits) ==
    /\ \A x \in Spots : lists[x] \in bits \union {0}
    /\ \A x, y \in Spots : lists[x] = lists[y] /\ lists[x] # 0 => x = y
    /\ \A b \in bits : \E x \in Spots : lists[x] = b

Freed == [f \in Files |-> IF call[f].op = "trunc" THEN call[f].tot ELSE 0]
NoneFreed == [f \in Files |-> 0]

(* A file has a block for each of its first m bytes. *)
Filled(dat, inode, m) ==
    \A k \in 0..(m - 1) : BlockAt(dat, inode, k \div BSIZE) # 0

(* How far a call has come. *)
CallOK(f) ==
    LET c == call[f]
    IN  /\ ip[f].size <= MAXFILE * BSIZE
        /\ c.op \in {"read", "write"} => c.tot <= c.n /\ c.tot <= c.off
        /\ c.op = "read" => c.off + (c.n - c.tot) <= ip[f].size
        /\ c.op = "write" => /\ c.off + (c.n - c.tot) <= MAXFILE * BSIZE
                             /\ c.off - c.tot <= ip[f].size
                             /\ Filled(data, ip[f], c.off)
        /\ c.op = "trunc" => c.tot <= NINDIRECT
        /\ c.op # "trunc" => Filled(data, ip[f], ip[f].size)
        /\ ~ InOp(f) => ip[f] = dinode[f]

(* An indirect block is in the log or as on the disk. *)
IndirectLogged ==
    \A f \in Files :
      LET a == ip[f].addrs[NDIRECT]
      IN  a # 0 /\ a \notin logged => data[a] = disk.data[a]

DiskOK ==
    /\ Once(Lists(disk.data, disk.dinode, NoneFreed), disk.bitmap)
    /\ \A f \in Files : /\ disk.dinode[f].size <= MAXFILE * BSIZE
                        /\ Filled(disk.data, disk.dinode[f], disk.dinode[f].size)

BlockInv ==
    /\ Types
    /\ Once(Lists(data, ip, Freed), bitmap)
    /\ \A f \in Files : CallOK(f)
    /\ IndirectLogged
    /\ DiskOK

(***************************************************************************)
(* Numbers.                                                                *)
(***************************************************************************)
LEMMA Sizes ==
    /\ NBLOCKS \in Nat /\ NDIRECT \in Nat /\ BSIZE \in Nat /\ BSIZE > 0
    /\ MAXFILE \in Nat /\ MAXFILE = NDIRECT + BSIZE /\ NINDIRECT = BSIZE
    /\ 0 \notin Blocks
  BY BlockAssumption DEF MAXFILE, NINDIRECT, Blocks

LEMMA DivModAny ==
    ASSUME NEW n \in Nat, n > 0, NEW x \in Nat
    PROVE  /\ x \div n \in Nat /\ x % n \in 0..(n - 1)
           /\ x = n * (x \div n) + (x % n)
  OBVIOUS

LEMMA DivMod ==
    ASSUME NEW x \in Nat
    PROVE  /\ x \div BSIZE \in Nat /\ x % BSIZE \in 0..(BSIZE - 1)
           /\ x = BSIZE * (x \div BSIZE) + (x % BSIZE)
  BY Sizes, DivModAny, Zenon

LEMMA DivUnique ==
    ASSUME NEW x \in Nat, NEW q \in Nat, NEW r \in 0..(BSIZE - 1), x = BSIZE * q + r
    PROVE  x \div BSIZE = q /\ x % BSIZE = r
  BY Sizes

(* The bytes of a file up to the end of a block are in that block. *)
LEMMA SameBlock ==
    ASSUME NEW x \in Nat, NEW y \in Nat, x <= y, y < x + (BSIZE - (x % BSIZE))
    PROVE  y \div BSIZE = x \div BSIZE /\ y % BSIZE = (x % BSIZE) + (y - x)
  <1> DEFINE q == x \div BSIZE
             r == x % BSIZE
             s == r + (y - x)
  <1>1. q \in Nat /\ r \in 0..(BSIZE - 1) /\ x = BSIZE * q + r
    BY DivMod, Zenon
  <1> HIDE DEF q, r
  <1>2. s \in 0..(BSIZE - 1)
    BY <1>1, Sizes DEF r
  <1>3. y = BSIZE * q + s
    <2> DEFINE p == BSIZE * q
    <2>1. p \in Nat
      BY <1>1, Sizes
    <2> HIDE DEF p
    <2> QED BY <1>1, <2>1, Sizes DEF p
  <1> HIDE DEF s
  <1>4. y \div BSIZE = q /\ y % BSIZE = s
    BY <1>1, <1>2, <1>3, DivUnique
  <1> QED BY <1>4 DEF q, r, s

LEMMA BlockBound ==
    ASSUME NEW x \in Nat, x < MAXFILE * BSIZE
    PROVE  x \div BSIZE < MAXFILE
  <1> DEFINE q == x \div BSIZE
             r == x % BSIZE
  <1>1. q \in Nat /\ r \in 0..(BSIZE - 1) /\ x = BSIZE * q + r
    BY DivMod, Zenon
  <1> HIDE DEF q, r
  <1>2. ASSUME q >= MAXFILE PROVE FALSE
    <2>1. BSIZE * q >= BSIZE * MAXFILE
      BY <1>1, <1>2, Sizes
    <2> QED BY <1>1, <2>1, Sizes
  <1> QED BY <1>1, <1>2, Sizes DEF q

LEMMA MinOfTwo ==
    ASSUME NEW a \in Int, NEW b \in Int
    PROVE  Min({a, b}) = IF a <= b THEN a ELSE b
  <1> DEFINE m == IF a <= b THEN a ELSE b
  <1>1. m \in {a, b} /\ \A y \in {a, b} : m <= y
    OBVIOUS
  <1>2. \A x \in {a, b} : (\A y \in {a, b} : x <= y) => x = m
    OBVIOUS
  <1> QED BY <1>1, <1>2 DEF Min

LEMMA MaxOfTwo ==
    ASSUME NEW a \in Int, NEW b \in Int
    PROVE  Max({a, b}) = IF a >= b THEN a ELSE b
  <1> DEFINE m == IF a >= b THEN a ELSE b
  <1>1. m \in {a, b} /\ \A y \in {a, b} : m >= y
    OBVIOUS
  <1>2. \A x \in {a, b} : (\A y \in {a, b} : x >= y) => x = m
    OBVIOUS
  <1> QED BY <1>1, <1>2 DEF Max

(***************************************************************************)
(* Marking and listing.                                                    *)
(***************************************************************************)
LEMMA OnceAlloc ==
    ASSUME NEW lists, NEW bits, Once(lists, bits), NEW new,
           NEW s \in Spots, lists[s] = 0, NEW b, b \notin bits, b # 0, 0 \notin bits,
           \A x \in Spots : new[x] = IF x = s THEN b ELSE lists[x]
    PROVE  Once(new, bits \union {b})
  <1>1. \A x \in Spots : lists[x] # b
    BY DEF Once
  <1>2. \A x \in Spots : new[x] \in (bits \union {b}) \union {0}
    BY DEF Once
  <1>3. \A x, y \in Spots : new[x] = new[y] /\ new[x] # 0 => x = y
    BY <1>1 DEF Once
  <1>4. ASSUME NEW c \in bits PROVE \E x \in Spots : new[x] = c
    <2>1. PICK x \in Spots : lists[x] = c
      BY DEF Once
    <2>2. x # s
      BY <2>1
    <2> QED BY <2>1, <2>2
  <1> QED BY <1>2, <1>3, <1>4 DEF Once

LEMMA OnceFree ==
    ASSUME NEW lists, NEW bits, Once(lists, bits), NEW new, NEW s \in Spots, 0 \notin bits,
           \A x \in Spots : new[x] = IF x = s THEN 0 ELSE lists[x]
    PROVE  Once(new, bits \ {lists[s]})
  BY DEF Once

LEMMA OnceSame ==
    ASSUME NEW lists, NEW bits, Once(lists, bits), NEW new,
           \A x \in Spots : new[x] = lists[x]
    PROVE  Once(new, bits)
  BY DEF Once

(* Once is what Owned says. *)
LEMMA OnceOwned ==
    ASSUME NEW bits, NEW dat, NEW inodes, NEW freed, bits \subseteq Blocks,
           Once(Lists(dat, inodes, freed), bits)
    PROVE  Owned(bits, dat, inodes, freed)
  <1> DEFINE L == Lists(dat, inodes, freed)
             P(b) == Places(b, dat, inodes, freed)
  <1>1. ASSUME NEW b \in Blocks PROVE P(b) = {x \in Spots : L[x] = b}
    <2>1. b # 0
      BY Sizes
    <2> QED BY <2>1 DEF Places, Lists, Spots
  <1>2. ASSUME NEW b \in Blocks, b \in bits PROVE Cardinality(P(b)) = 1
    <2>1. PICK x \in Spots : L[x] = b
      BY <1>2 DEF Once
    <2>2. b # 0
      BY Sizes
    <2>3. P(b) = {x}
      BY <1>1, <2>1, <2>2 DEF Once
    <2> QED BY <2>3, FS_Singleton
  <1>3. ASSUME NEW b \in Blocks, b \notin bits PROVE Cardinality(P(b)) = 0
    <2>1. b # 0
      BY Sizes
    <2>2. P(b) = {}
      BY <1>1, <1>3, <2>1 DEF Once
    <2> QED BY <2>2, FS_EmptySet
  <1> QED BY <1>2, <1>3 DEF Owned

(***************************************************************************)
(* What a file lists depends on the data of its indirect block only.       *)
(***************************************************************************)
SpotOf(bn) == IF bn < NDIRECT THEN bn ELSE bn + 1

LEMMA BlockIsListed ==
    ASSUME NEW dat, NEW inode, NEW bn \in Nat, bn < MAXFILE
    PROVE  /\ BlockAt(dat, inode, bn) = Listed(dat, inode, SpotOf(bn))
           /\ SpotOf(bn) \in 0..MAXFILE /\ SpotOf(bn) # NDIRECT
  BY Sizes DEF BlockAt, Listed, SpotOf

LEMMA ListedKept ==
    ASSUME NEW dat, NEW new, NEW inode,
           inode.addrs[NDIRECT] # 0 => new[inode.addrs[NDIRECT]] = dat[inode.addrs[NDIRECT]]
    PROVE  /\ \A k : Listed(new, inode, k) = Listed(dat, inode, k)
           /\ \A bn : BlockAt(new, inode, bn) = BlockAt(dat, inode, bn)
           /\ \A m : Filled(dat, inode, m) => Filled(new, inode, m)
  <1>1. \A k : Listed(new, inode, k) = Listed(dat, inode, k)
    BY DEF Listed
  <1>2. \A bn : BlockAt(new, inode, bn) = BlockAt(dat, inode, bn)
    BY DEF BlockAt
  <1> QED BY <1>1, <1>2 DEF Filled

(* The indirect block of a file, and a block that a call has found, are    *)
(* marked, and not the same.                                               *)
LEMMA Indirect ==
    ASSUME BlockInv, NEW g \in Files
    PROVE  /\ ip[g] \in Inode
           /\ ip[g].addrs[NDIRECT] \in bitmap \union {0}
           /\ Lists(data, ip, Freed)[<<g, NDIRECT>>] = ip[g].addrs[NDIRECT]
           /\ <<g, NDIRECT>> \in Spots
  <1>1. ip[g] \in Inode
    BY DEF BlockInv, Types, StoreType
  <1>2. <<g, NDIRECT>> \in Spots
    BY Sizes DEF Spots
  <1>3. Lists(data, ip, Freed)[<<g, NDIRECT>>] = ip[g].addrs[NDIRECT]
    BY <1>2, Sizes DEF Lists, Listed
  <1> QED BY <1>1, <1>2, <1>3 DEF BlockInv, Once

LEMMA Found ==
    ASSUME BlockInv, NEW f \in Files, call[f].op # "trunc", NEW bn \in Nat, bn < MAXFILE
    PROVE  /\ <<f, SpotOf(bn)>> \in Spots
           /\ Lists(data, ip, Freed)[<<f, SpotOf(bn)>>] = BlockAt(data, ip[f], bn)
           /\ BlockAt(data, ip[f], bn) \in bitmap \union {0}
           /\ BlockAt(data, ip[f], bn) # 0 =>
                \A g \in Files : BlockAt(data, ip[f], bn) # ip[g].addrs[NDIRECT]
  <1> DEFINE L == Lists(data, ip, Freed)
             x == <<f, SpotOf(bn)>>
  <1>1. /\ BlockAt(data, ip[f], bn) = Listed(data, ip[f], SpotOf(bn))
        /\ SpotOf(bn) \in 0..MAXFILE /\ SpotOf(bn) # NDIRECT
    BY BlockIsListed
  <1>2. x \in Spots
    BY <1>1 DEF Spots
  <1>3. Freed[f] = 0
    BY DEF Freed
  <1>4. L[x] = Listed(data, ip[f], SpotOf(bn))
    BY <1>2, <1>3, Sizes DEF Lists
  <1>5. Once(L, bitmap)
    BY DEF BlockInv
  <1> HIDE DEF L
  <1>6. L[x] \in bitmap \union {0}
    BY <1>2, <1>5 DEF Once
  <1>7. ASSUME NEW g \in Files, L[x] # 0 PROVE L[x] # ip[g].addrs[NDIRECT]
    <2>1. L[<<g, NDIRECT>>] = ip[g].addrs[NDIRECT] /\ <<g, NDIRECT>> \in Spots
      BY Indirect DEF L
    <2>2. x # <<g, NDIRECT>>
      BY <1>1
    <2> QED BY <1>2, <1>5, <1>7, <2>1, <2>2 DEF Once
  <1> QED BY <1>1, <1>2, <1>4, <1>6, <1>7 DEF L

(* A loop that has not ended is inside the file, and a loop of readi finds *)
(* a block.                                                                *)
LEMMA InLoop ==
    ASSUME BlockInv, NEW f \in Files, Looping(f)
    PROVE  /\ call[f] \in CallType /\ call[f].op \in {"read", "write"}
           /\ call[f].off < MAXFILE * BSIZE
           /\ Bn(f) \in Nat /\ Bn(f) < MAXFILE
           /\ Mapped(f) \in bitmap \union {0}
           /\ Mapped(f) # 0 => \A g \in Files : Mapped(f) # ip[g].addrs[NDIRECT]
           /\ call[f].op = "read" => Mapped(f) # 0
           /\ Chunk(f) \in Nat /\ Chunk(f) > 0
           /\ Chunk(f) <= call[f].n - call[f].tot
           /\ Chunk(f) <= BSIZE - (call[f].off % BSIZE)
  <1> DEFINE c == call[f]
             max == MAXFILE * BSIZE
             at == c.off % BSIZE
  <1>1. c \in CallType /\ ip[f] \in Inode /\ CallOK(f)
    BY DEF BlockInv, Types, StoreType
  <1>2. c.off \in Nat /\ c.n \in Nat /\ c.tot \in Nat /\ ip[f].size \in Nat /\ max \in Nat
    BY <1>1, Sizes DEF CallType, Inode
  <1>3. c.op \in {"read", "write"} /\ c.tot < c.n
    BY DEF Looping
  <1>4. /\ ip[f].size <= max
        /\ c.op = "read" => c.off + (c.n - c.tot) <= ip[f].size /\ Filled(data, ip[f], ip[f].size)
        /\ c.op = "write" => c.off + (c.n - c.tot) <= max
    BY <1>1 DEF CallOK
  <1>5. at \in 0..(BSIZE - 1)
    BY <1>2, DivMod
  <1> HIDE DEF c, at, max
  <1>6. c.off < max
    BY <1>2, <1>3, <1>4
  <1>7. c.off \div BSIZE \in Nat /\ c.off \div BSIZE < MAXFILE
    BY <1>2, <1>6, DivMod, BlockBound DEF max
  <1>8. Bn(f) \in Nat /\ Bn(f) < MAXFILE
    BY <1>7 DEF Bn, c
  <1>9. c.op = "read" => Mapped(f) # 0
    <2> SUFFICES ASSUME c.op = "read" PROVE Mapped(f) # 0
      OBVIOUS
    <2>1. c.off \in 0..(ip[f].size - 1)
      BY <1>2, <1>3, <1>4
    <2>2. BlockAt(data, ip[f], c.off \div BSIZE) # 0
      BY <1>4, <2>1 DEF Filled
    <2> QED BY <2>2 DEF Mapped, Bn, c
  <1>10. /\ Mapped(f) \in bitmap \union {0}
         /\ Mapped(f) # 0 => \A g \in Files : Mapped(f) # ip[g].addrs[NDIRECT]
    BY <1>3, <1>8, Found DEF Mapped, c
  <1>11. Chunk(f) = IF c.n - c.tot <= BSIZE - at THEN c.n - c.tot ELSE BSIZE - at
    BY <1>2, <1>5, Sizes, MinOfTwo DEF Chunk, c, at
  <1>12. /\ Chunk(f) \in Nat /\ Chunk(f) > 0 /\ Chunk(f) <= c.n - c.tot /\ Chunk(f) <= BSIZE - at
    BY <1>2, <1>3, <1>5, <1>11, Sizes
  <1> QED BY <1>1, <1>3, <1>6, <1>8, <1>9, <1>10, <1>12 DEF c, at, max

(***************************************************************************)
(* Steps that neither mark nor list a block.                               *)
(***************************************************************************)
SameIndirect ==
    \A g \in Files : ip[g].addrs[NDIRECT] # 0 =>
                       data'[ip[g].addrs[NDIRECT]] = data[ip[g].addrs[NDIRECT]]

LEMMA FilledKept ==
    ASSUME SameIndirect, NEW f \in Files, NEW m, Filled(data, ip[f], m)
    PROVE  Filled(data', ip[f], m)
  <1>1. ip[f].addrs[NDIRECT] # 0 =>
          data'[ip[f].addrs[NDIRECT]] = data[ip[f].addrs[NDIRECT]]
    BY DEF SameIndirect
  <1>2. \A bn : BlockAt(data', ip[f], bn) = BlockAt(data, ip[f], bn)
    BY <1>1 DEF BlockAt
  <1> QED BY <1>2 DEF Filled

LEMMA CallStays ==
    ASSUME NEW f \in Files, CallOK(f), SameIndirect,
           call'[f] = call[f], ip'[f] = ip[f], dinode'[f] = dinode[f]
    PROVE  CallOK(f)'
  <1>1. \A m : Filled(data, ip[f], m) => Filled(data', ip'[f], m)
    BY ListedKept DEF SameIndirect
  <1>2. InOp(f)' <=> InOp(f)
    BY DEF InOp
  <1> QED BY <1>1, <1>2 DEF CallOK

(* The disk is not looked at. *)
LEMMA DiskStays ==
    ASSUME DiskOK, UNCHANGED disk
    PROVE  DiskOK'
  <1>1. disk' = disk
    OBVIOUS
  <1> QED BY <1>1 DEF DiskOK

LEMMA Quiet ==
    ASSUME BlockInv, UNCHANGED <<bitmap, ip, dinode, disk>>, logged \subseteq logged',
           SameIndirect, data' \in [Blocks -> Block], logged' \subseteq Blocks,
           call' \in [Files -> CallType],
           \A g \in Files : call'[g] = call[g] \/ (CallOK(g)' /\ Freed'[g] = Freed[g])
    PROVE  BlockInv'
  <1>1. Types'
    BY DEF BlockInv, Types, StoreType
  <1>2. \A g \in Files : CallOK(g)'
    BY CallStays DEF BlockInv
  <1>3. \A g \in Files : Freed'[g] = Freed[g]
    BY DEF Freed
  <1>4. Once(Lists(data, ip, Freed), bitmap)'
    <2>1. ASSUME NEW x \in Spots
          PROVE  Lists(data, ip, Freed)'[x] = Lists(data, ip, Freed)[x]
      <3>1. x[1] \in Files
        BY DEF Spots
      <3>2. \A g \in Files : \A k : Listed(data', ip[g], k) = Listed(data, ip[g], k)
        <4> SUFFICES ASSUME NEW g \in Files
                     PROVE  \A k : Listed(data', ip[g], k) = Listed(data, ip[g], k)
          OBVIOUS
        <4>1. ip[g].addrs[NDIRECT] # 0 =>
                data'[ip[g].addrs[NDIRECT]] = data[ip[g].addrs[NDIRECT]]
          BY DEF SameIndirect
        <4> QED BY <4>1 DEF Listed
      <3> DEFINE dead == x[2] \in (NDIRECT + 1)..(NDIRECT + Freed[x[1]])
      <3>3. Lists(data, ip, Freed)[x] = IF dead THEN 0 ELSE Listed(data, ip[x[1]], x[2])
        BY DEF Lists
      <3>4. Lists(data, ip, Freed)'[x] = IF dead THEN 0 ELSE Listed(data', ip'[x[1]], x[2])
        BY <1>3, <3>1 DEF Lists
      <3> HIDE DEF dead
      <3> QED BY <3>1, <3>2, <3>3, <3>4
    <2>2. PICK new : new = Lists(data, ip, Freed)'
      OBVIOUS
    <2>3. Once(new, bitmap)
      BY <2>1, <2>2, OnceSame DEF BlockInv
    <2> QED BY <2>2, <2>3 DEF Once, Spots
  <1>5. IndirectLogged'
    BY DEF BlockInv, IndirectLogged, SameIndirect
  <1>6. DiskOK'
    BY DiskStays DEF BlockInv
  <1> QED BY <1>1, <1>2, <1>4, <1>5, <1>6 DEF BlockInv

LEMMA ByteType ==
    ASSUME NEW b \in Block, NEW j \in 0..(BSIZE - 1)
    PROVE  b[j] \in Nat /\ b[j] \in Int
  BY DEF Block

LEMMA ContentType ==
    ASSUME NEW dat \in [Blocks -> Block], NEW inode \in Inode, NEW unknown
    PROVE  Content(dat, inode, unknown) \in Seq(Int)
  <1>1. inode.size \in Nat
    BY DEF Inode
  <1>2. ASSUME NEW k \in 1..inode.size, NEW b \in Blocks PROVE dat[b][(k - 1) % BSIZE] \in Int
    <2>1. k - 1 \in Nat
      BY <1>1
    <2>2. (k - 1) % BSIZE \in 0..(BSIZE - 1)
      BY <2>1, DivMod
    <2>3. dat[b] \in [0..(BSIZE - 1) -> Nat]
      BY DEF Block
    <2> DEFINE at == (k - 1) % BSIZE
    <2> HIDE DEF at
    <2>4. at \in 0..(BSIZE - 1)
      BY <2>2 DEF at
    <2>5. dat[b][at] \in Int
      BY <2>3, <2>4
    <2> QED BY <2>5 DEF at
  <1>3. \A k \in 1..inode.size : Content(dat, inode, unknown)[k] \in Int
    BY <1>2 DEF Content, Unknown
  <1>4. Content(dat, inode, unknown) \in [1..inode.size -> Int]
    BY <1>3 DEF Content
  <1> QED BY <1>1, <1>4

LEMMA BeginType ==
    ASSUME BlockInv, NEW f \in Files, NEW op \in {"read", "write", "trunc"}, NEW off \in Nat,
           NEW n \in Nat, NEW byte \in Nat, Begin(f, op, off, n, byte)
    PROVE  /\ call' \in [Files -> CallType]
           /\ call[f] = NoCall /\ call[f].op = "none"
           /\ call'[f].op = op /\ call'[f].off = off /\ call'[f].n = n /\ call'[f].tot = 0
           /\ \A g \in Files : g # f => call'[g] = call[g]
           /\ UNCHANGED <<bitmap, data, dinode, logged, ip, disk, loose>>
           /\ CallOK(f) /\ ip[f] \in Inode
  <1> DEFINE c == [op |-> op, off |-> off, n |-> n, tot |-> 0, byte |-> byte,
                   old |-> Content(data, ip[f], loose[f]), got |-> <<>>]
  <1>1. ip[f] \in Inode /\ data \in [Blocks -> Block] /\ call \in [Files -> CallType] /\ CallOK(f)
    BY DEF BlockInv, Types, StoreType
  <1>2. c \in CallType
    <2> DEFINE old == Content(data, ip[f], loose[f])
    <2>1. old \in Seq(Int) /\ <<>> \in Seq(Int)
      BY <1>1, ContentType
    <2> HIDE DEF old
    <2> QED BY <2>1, Zenon DEF CallType, old
  <1>3. call' = [call EXCEPT ![f] = c] /\ call[f] = NoCall
    BY DEF Begin
  <1>4. UNCHANGED <<bitmap, data, dinode, logged, ip, disk, loose>>
    BY DEF Begin, cache
  <1>5. call[f].op = "none"
    BY <1>3 DEF NoCall
  <1>6. call'[f] = c /\ \A g \in Files : g # f => call'[g] = call[g]
    BY <1>1, <1>3
  <1>7. call' \in [Files -> CallType]
    <2> HIDE DEF c
    <2> QED BY <1>1, <1>2, <1>3
  <1>8. call'[f].op = op /\ call'[f].off = off /\ call'[f].n = n /\ call'[f].tot = 0
    BY <1>6
  <1> QED BY <1>1, <1>3, <1>4, <1>5, <1>6, <1>7, <1>8

LEMMA BeginQuiet ==
    ASSUME BlockInv, NEW f \in Files, NEW op \in {"read", "write", "trunc"}, NEW off \in Nat,
           NEW n \in Nat, NEW byte \in Nat, Begin(f, op, off, n, byte),
           op = "read" => off + n <= ip[f].size,
           op = "write" => off <= ip[f].size /\ off + n <= MAXFILE * BSIZE
    PROVE  BlockInv'
  <1>1. /\ call' \in [Files -> CallType]
        /\ call[f] = NoCall /\ call[f].op = "none"
        /\ call'[f].op = op /\ call'[f].off = off /\ call'[f].n = n /\ call'[f].tot = 0
        /\ \A g \in Files : g # f => call'[g] = call[g]
        /\ UNCHANGED <<bitmap, data, dinode, logged, ip, disk, loose>>
        /\ CallOK(f) /\ ip[f] \in Inode
    BY BeginType
  <1>2. /\ ip[f].size <= MAXFILE * BSIZE /\ Filled(data, ip[f], ip[f].size) /\ ip[f] = dinode[f]
    BY <1>1 DEF CallOK, InOp
  <1>3. off <= ip[f].size => Filled(data, ip[f], off)
    BY <1>1, <1>2 DEF Filled, Inode
  <1>4. \A m : Filled(data, ip[f], m) => Filled(data, ip[f], m)'
    BY <1>1 DEF Filled, BlockAt
  <1>5. CallOK(f)'
    BY <1>1, <1>2, <1>3, <1>4, Sizes DEF CallOK
  <1>6. Freed'[f] = Freed[f]
    BY <1>1 DEF Freed
  <1>7. data' \in [Blocks -> Block] /\ logged' \subseteq Blocks
    BY <1>1 DEF BlockInv, Types, StoreType
  <1> QED BY <1>1, <1>5, <1>6, <1>7, Quiet DEF SameIndirect

LEMMA NoWrap ==
    ASSUME NEW off \in Nat, NEW n \in Lens, ~ Wraps(off, n)
    PROVE  n \in Nat /\ (off + n) % UINT = off + n
  <1>1. n \in Nat /\ n < UINT /\ UINT \in Nat /\ UINT > 0
    BY BlockAssumption
  <1> DEFINE s == off + n
             r == s % UINT
             q == s \div UINT
  <1>2. s \in Nat /\ s < off + UINT
    BY <1>1
  <1>3. q \in Nat /\ r \in 0..(UINT - 1) /\ s = UINT * q + r
    <2> HIDE DEF s
    <2> QED BY <1>1, <1>2, DivModAny, Zenon
  <1>4. r >= off
    BY <1>3 DEF Wraps
  <1> HIDE DEF q, r, s
  <1>5. q = 0
    <2> SUFFICES ASSUME q >= 1 PROVE FALSE
      BY <1>3
    <2> DEFINE p == UINT * q
    <2>1. p \in Nat /\ p >= UINT
      BY <1>1, <1>3
    <2> HIDE DEF p
    <2> QED BY <1>1, <1>2, <1>3, <1>4, <2>1 DEF p
  <1>6. s = r
    BY <1>1, <1>3, <1>5
  <1> QED BY <1>1, <1>6 DEF r, s

LEMMA CallsQuiet ==
    ASSUME BlockInv, NEW f \in Files, Program(f) \/ TruncCall(f)
    PROVE  BlockInv'
  <1>1. ip[f].size \in Nat
    BY DEF BlockInv, Types, StoreType, Inode
  <1>2. ASSUME NEW off \in 0..(MAXFILE * BSIZE), NEW n \in Lens, ReadCall(f, off, n)
        PROVE  BlockInv'
    <2>1. off \in Nat /\ n \in Nat /\ off <= ip[f].size /\ (off + n) % UINT = off + n
      BY <1>2, NoWrap, Sizes DEF ReadCall
    <2> DEFINE m == IF (off + n) % UINT > ip[f].size THEN ip[f].size - off ELSE n
    <2>2. m \in Nat /\ off + m <= ip[f].size
      BY <1>1, <2>1
    <2>3. Begin(f, "read", off, m, 0)
      BY <1>2 DEF ReadCall
    <2> HIDE DEF m
    <2> QED BY <2>1, <2>2, <2>3, BeginQuiet
  <1>3. ASSUME NEW off \in 0..(MAXFILE * BSIZE), NEW n \in Lens, NEW b \in Bytes,
               WriteCall(f, off, n, b)
        PROVE  BlockInv'
    <2>1. off \in Nat /\ n \in Nat /\ (off + n) % UINT = off + n
      BY <1>3, NoWrap, Sizes DEF WriteCall
    <2>2. off + n <= MAXFILE * BSIZE /\ off <= ip[f].size /\ Begin(f, "write", off, n, b)
      BY <1>3, <2>1 DEF WriteCall
    <2>3. b \in Nat
      BY BlockAssumption
    <2> QED BY <2>1, <2>2, <2>3, BeginQuiet
  <1>4. CASE TruncCall(f)
    BY <1>4, Sizes, BeginQuiet DEF TruncCall
  <1> QED BY <1>2, <1>3, <1>4 DEF Program

LEMMA NoCallType == NoCall \in CallType /\ NoCall.op = "none"
  <1>1. <<>> \in Seq(Int)
    OBVIOUS
  <1> QED BY <1>1 DEF NoCall, CallType

(* Steps that change nothing but the call. *)
LEMMA CallQuiet ==
    ASSUME BlockInv, NEW f \in Files, NEW c \in CallType, call' = [call EXCEPT ![f] = c],
           UNCHANGED <<bitmap, data, dinode, logged, ip, disk>>,
           c.op # "trunc", call[f].op # "trunc", CallOK(f)'
    PROVE  BlockInv'
  <1>1. call \in [Files -> CallType] /\ data \in [Blocks -> Block] /\ logged \subseteq Blocks
    BY DEF BlockInv, Types, StoreType
  <1>2. /\ call' \in [Files -> CallType] /\ call'[f] = c
        /\ \A g \in Files : g # f => call'[g] = call[g]
    BY <1>1
  <1>3. Freed'[f] = Freed[f]
    BY <1>2 DEF Freed
  <1> QED BY <1>1, <1>2, <1>3, Quiet DEF SameIndirect

LEMMA ReadReturnQuiet ==
    ASSUME BlockInv, NEW f \in Files, ReadReturn(f)
    PROVE  BlockInv'
  <1>1. /\ call[f].op = "read" /\ call' = [call EXCEPT ![f] = NoCall]
        /\ UNCHANGED <<bitmap, data, dinode, logged, ip, disk>>
    BY DEF ReadReturn, cache
  <1>2. call \in [Files -> CallType] /\ CallOK(f)
    BY DEF BlockInv, Types
  <1>3. call'[f] = NoCall
    BY <1>1, <1>2
  <1>4. /\ ip[f].size <= MAXFILE * BSIZE /\ Filled(data, ip[f], ip[f].size) /\ ip[f] = dinode[f]
    BY <1>1, <1>2 DEF CallOK, InOp
  <1>5. CallOK(f)'
    <2>1. Filled(data, ip[f], ip[f].size)'
      BY <1>1, <1>4 DEF Filled, BlockAt
    <2> QED BY <1>1, <1>3, <1>4, <2>1, NoCallType DEF CallOK
  <1> QED BY <1>1, <1>5, NoCallType, CallQuiet

LEMMA ReadBlockQuiet ==
    ASSUME BlockInv, NEW f \in Files, ReadBlock(f)
    PROVE  BlockInv'
  <1> DEFINE c == call[f]
             at == c.off % BSIZE
             bytes == [k \in 1..Chunk(f) |-> data[Mapped(f)][at + k - 1]]
             new == [c EXCEPT !.got = @ \o bytes, !.tot = @ + Chunk(f), !.off = @ + Chunk(f)]
  <1>1. /\ Looping(f) /\ c.op = "read" /\ Mapped(f) # 0
        /\ call' = [call EXCEPT ![f] = new]
        /\ UNCHANGED <<bitmap, data, dinode, logged, ip, disk>>
    BY DEF ReadBlock, cache
  <1>2. /\ Mapped(f) \in bitmap /\ Chunk(f) \in Nat /\ Chunk(f) > 0
        /\ Chunk(f) <= c.n - c.tot /\ Chunk(f) <= BSIZE - at
    BY <1>1, InLoop
  <1>3. /\ call \in [Files -> CallType] /\ CallOK(f) /\ Mapped(f) \in Blocks
        /\ data[Mapped(f)] \in Block
    BY <1>2 DEF BlockInv, Types, StoreType
  <1>4. c.off \in Nat /\ c.n \in Nat /\ c.tot \in Nat /\ c.got \in Seq(Int) /\ c \in CallType
    BY <1>3 DEF CallType
  <1>5. at \in 0..(BSIZE - 1)
    BY <1>4, DivMod
  <1>6. bytes \in Seq(Int)
    <2> DEFINE m == Chunk(f)
    <2> HIDE DEF at, m
    <2>1. ASSUME NEW k \in 1..m PROVE data[Mapped(f)][at + k - 1] \in Int
      <3>1. at + k - 1 \in 0..(BSIZE - 1)
        BY <1>2, <1>5, Sizes DEF m
      <3> QED BY <1>3, <3>1, ByteType, Zenon
    <2>2. [k \in 1..m |-> data[Mapped(f)][at + k - 1]] \in [1..m -> Int]
      BY <2>1
    <2>3. m \in Nat
      BY <1>2 DEF m
    <2> QED BY <2>2, <2>3 DEF m
  <1> HIDE DEF bytes, at
  <1>7. /\ new \in CallType /\ new.op = "read" /\ new.off = c.off + Chunk(f)
        /\ new.tot = c.tot + Chunk(f) /\ new.n = c.n
    <2> DEFINE g == c.got \o bytes
    <2>1. g \in Seq(Int)
      BY <1>4, <1>6
    <2>2. c.tot + Chunk(f) \in Nat /\ c.off + Chunk(f) \in Nat
      BY <1>2, <1>4
    <2>3. new = [c EXCEPT !.got = g, !.tot = c.tot + Chunk(f), !.off = c.off + Chunk(f)]
      OBVIOUS
    <2> HIDE DEF g, c, new
    <2> QED BY <1>1, <1>4, <2>1, <2>2, <2>3 DEF CallType
  <1> HIDE DEF new, c
  <1>8. call'[f] = new
    BY <1>1, <1>3
  <1>9. CallOK(f)'
    <2>1. /\ ip[f].size <= MAXFILE * BSIZE /\ c.tot <= c.n /\ c.tot <= c.off
          /\ c.off + (c.n - c.tot) <= ip[f].size
          /\ Filled(data, ip[f], ip[f].size) /\ ip[f] = dinode[f]
      BY <1>1, <1>3 DEF CallOK, InOp, c
    <2>2. Filled(data, ip[f], ip[f].size)'
      BY <1>1, <2>1 DEF Filled, BlockAt
    <2>3. ip[f].size \in Nat
      BY DEF BlockInv, Types, StoreType, Inode
    <2>4. /\ new.tot <= new.n /\ new.tot <= new.off
          /\ new.off + (new.n - new.tot) <= ip[f].size
      BY <1>2, <1>4, <1>7, <2>1, <2>3
    <2> QED BY <1>1, <1>7, <1>8, <2>1, <2>2, <2>4 DEF CallOK
  <1> QED BY <1>1, <1>7, <1>9, CallQuiet DEF c

LEMMA BmapFullQuiet ==
    ASSUME BlockInv, NEW f \in Files, BmapFull(f)
    PROVE  BlockInv'
  <1> DEFINE c == call[f]
             new == [c EXCEPT !.n = c.tot]
  <1>1. /\ Looping(f) /\ Mapped(f) = 0 /\ call' = [call EXCEPT ![f] = new]
        /\ UNCHANGED <<bitmap, data, dinode, logged, ip, disk>>
    BY DEF BmapFull, cache
  <1>2. c.op = "write"
    BY <1>1, InLoop
  <1>3. call \in [Files -> CallType] /\ CallOK(f) /\ ip[f].size \in Nat
    BY DEF BlockInv, Types, StoreType, Inode
  <1>4. c.off \in Nat /\ c.n \in Nat /\ c.tot \in Nat /\ c \in CallType
    BY <1>3 DEF CallType
  <1>5. /\ new \in CallType /\ new.op = "write" /\ new.off = c.off
        /\ new.tot = c.tot /\ new.n = c.tot
    BY <1>2, <1>4 DEF CallType
  <1> HIDE DEF new, c
  <1>6. call'[f] = new
    BY <1>1, <1>3
  <1>7. CallOK(f)'
    <2>1. /\ ip[f].size <= MAXFILE * BSIZE /\ c.tot <= c.n /\ c.tot <= c.off
          /\ c.off + (c.n - c.tot) <= MAXFILE * BSIZE
          /\ c.off - c.tot <= ip[f].size
          /\ Filled(data, ip[f], ip[f].size) /\ Filled(data, ip[f], c.off)
      BY <1>2, <1>3 DEF CallOK, c
    <2>2. Filled(data, ip[f], ip[f].size)' /\ Filled(data, ip[f], call[f].off)'
      BY <1>1, <1>5, <1>6, <2>1 DEF Filled, BlockAt
    <2> DEFINE max == MAXFILE * BSIZE
    <2>3. max \in Nat
      BY Sizes
    <2> HIDE DEF max
    <2>4. /\ new.tot <= new.n /\ new.tot <= new.off
          /\ new.off + (new.n - new.tot) <= max
      BY <1>4, <1>5, <2>1, <2>3 DEF max
    <2>5. InOp(f)'
      BY <1>5, <1>6 DEF InOp
    <2> QED BY <1>1, <1>5, <1>6, <2>1, <2>2, <2>4, <2>5 DEF CallOK, max
  <1> QED BY <1>1, <1>2, <1>5, <1>7, CallQuiet DEF c

(* copyin changes the block that the call has found and no other. *)
LEMMA Stores ==
    ASSUME BlockInv, NEW f \in Files, Looping(f), Mapped(f) # 0, NEW k, Store(f, k)
    PROVE  /\ data' \in [Blocks -> Block]
           /\ \A b \in Blocks : b # Mapped(f) => data'[b] = data[b]
           /\ SameIndirect
           /\ Mapped(f) \in Blocks
  <1> DEFINE at == call[f].off % BSIZE
             b == Mapped(f)
             blk == [j \in DOMAIN data[b] |->
                       IF j \in at..(at + k - 1) THEN call[f].byte ELSE data[b][j]]
  <1>1. /\ data \in [Blocks -> Block] /\ bitmap \subseteq Blocks /\ call[f] \in CallType
    BY DEF BlockInv, Types, StoreType
  <1>2. b \in bitmap /\ \A g \in Files : b # ip[g].addrs[NDIRECT]
    BY InLoop
  <1>3. b \in Blocks /\ data[b] \in Block /\ call[f].byte \in Nat
    BY <1>1, <1>2 DEF CallType
  <1>4. data' = [data EXCEPT ![b] = blk]
    BY DEF Store
  <1>5. blk \in Block
    BY <1>3 DEF Block
  <1> HIDE DEF blk, b
  <1>6. data' \in [Blocks -> Block] /\ \A c \in Blocks : c # b => data'[c] = data[c]
    BY <1>1, <1>3, <1>4, <1>5
  <1>7. SameIndirect
    <2> SUFFICES ASSUME NEW g \in Files, ip[g].addrs[NDIRECT] # 0
                 PROVE  data'[ip[g].addrs[NDIRECT]] = data[ip[g].addrs[NDIRECT]]
      BY DEF SameIndirect
    <2>1. ip[g].addrs[NDIRECT] \in Blocks
      BY <1>1, Indirect
    <2> QED BY <1>2, <1>6, <2>1
  <1> QED BY <1>3, <1>6, <1>7 DEF b

LEMMA WriteBlockQuiet ==
    ASSUME BlockInv, NEW f \in Files, WriteBlock(f)
    PROVE  BlockInv'
  <1> DEFINE c == call[f]
             ch == Chunk(f)
             new == [c EXCEPT !.tot = @ + ch, !.off = @ + ch]
             max == MAXFILE * BSIZE
  <1>1. /\ Looping(f) /\ c.op = "write" /\ Mapped(f) # 0 /\ Store(f, ch)
        /\ call' = [call EXCEPT ![f] = new]
        /\ logged' = logged \union {Mapped(f)}
        /\ UNCHANGED <<bitmap, dinode, ip, disk>>
    BY DEF WriteBlock
  <1>2. /\ ch \in Nat /\ ch > 0 /\ ch <= c.n - c.tot /\ ch <= BSIZE - (c.off % BSIZE)
    BY <1>1, InLoop
  <1>3. /\ data' \in [Blocks -> Block] /\ SameIndirect /\ Mapped(f) \in Blocks
    BY <1>1, Stores
  <1>4. /\ call \in [Files -> CallType] /\ CallOK(f) /\ logged' \subseteq Blocks
        /\ ip[f].size \in Nat
    BY <1>1, <1>3 DEF BlockInv, Types, StoreType, Inode
  <1>5. c.off \in Nat /\ c.n \in Nat /\ c.tot \in Nat /\ c \in CallType /\ max \in Nat
    BY <1>4, Sizes DEF CallType
  <1>6. /\ new \in CallType /\ new.op = "write" /\ new.off = c.off + ch
        /\ new.tot = c.tot + ch /\ new.n = c.n
    <2>1. c.tot + ch \in Nat /\ c.off + ch \in Nat
      BY <1>2, <1>5
    <2> HIDE DEF ch
    <2> QED BY <1>1, <1>5, <2>1 DEF CallType
  <1>7. /\ ip[f].size <= max /\ c.tot <= c.n /\ c.tot <= c.off
        /\ c.off + (c.n - c.tot) <= max
        /\ c.off - c.tot <= ip[f].size
        /\ Filled(data, ip[f], ip[f].size) /\ Filled(data, ip[f], c.off)
    BY <1>1, <1>4 DEF CallOK
  <1>8. Filled(data, ip[f], c.off + ch)
    <2> DEFINE end == c.off + ch
    <2> HIDE DEF end
    <2> SUFFICES ASSUME NEW k \in 0..(end - 1)
                 PROVE  BlockAt(data, ip[f], k \div BSIZE) # 0
      BY Zenon DEF Filled, end
    <2> HIDE DEF ch, c
    <2> USE DEF end
    <2>1. CASE k < c.off
      <3>1. k \in 0..(c.off - 1)
        BY <1>2, <1>5, <2>1
      <3> QED BY <1>7, <3>1 DEF Filled
    <2>2. CASE k >= c.off
      <3> DEFINE r == c.off % BSIZE
      <3>1. r \in 0..(BSIZE - 1)
        BY <1>5, DivMod
      <3>2. ch <= BSIZE - r
        BY <1>2
      <3> HIDE DEF r
      <3>3. k \in Nat /\ k < c.off + (BSIZE - r)
        BY <1>2, <1>5, <2>2, <3>1, <3>2, Sizes
      <3>4. k \div BSIZE = c.off \div BSIZE
        BY <1>5, <2>2, <3>3, SameBlock DEF r
      <3> QED BY <1>1, <3>4 DEF Mapped, Bn, c
    <2> QED BY <1>5, <2>1, <2>2
  <1> HIDE DEF new, c, max, ch
  <1>9. /\ call'[f] = new /\ call' \in [Files -> CallType]
       /\ \A g \in Files : g # f => call'[g] = call[g]
    BY <1>1, <1>4, <1>6
  <1>10. CallOK(f)'
    <2>1. \A m : Filled(data, ip[f], m) => Filled(data', ip[f], m)
      BY <1>3, FilledKept
    <2>2. Filled(data, ip[f], ip[f].size)' /\ Filled(data, ip[f], call[f].off)'
      BY <1>1, <1>6, <1>7, <1>8, <1>9, <2>1
    <2>3. /\ new.tot <= new.n /\ new.tot <= new.off
          /\ new.off + (new.n - new.tot) <= max
          /\ new.off - new.tot <= ip[f].size
      BY <1>2, <1>4, <1>5, <1>6, <1>7
    <2>4. InOp(f)'
      BY <1>6, <1>9 DEF InOp
    <2> QED BY <1>1, <1>6, <1>7, <1>9, <2>2, <2>3, <2>4 DEF CallOK, max
  <1>11. Freed'[f] = Freed[f]
    BY <1>1, <1>6, <1>9 DEF Freed, c
  <1> QED BY <1>1, <1>3, <1>4, <1>9, <1>10, <1>11, Quiet

LEMMA WriteFailsQuiet ==
    ASSUME BlockInv, NEW f \in Files, WriteFails(f)
    PROVE  BlockInv'
  <1> DEFINE c == call[f]
             new == [c EXCEPT !.n = c.tot]
             max == MAXFILE * BSIZE
  <1>1. PICK k : /\ Looping(f) /\ c.op = "write" /\ Mapped(f) # 0 /\ Store(f, k)
                 /\ call' = [call EXCEPT ![f] = new]
                 /\ UNCHANGED <<bitmap, dinode, ip, disk, logged>>
    BY DEF WriteFails
  <1>2. /\ data' \in [Blocks -> Block] /\ SameIndirect
    BY <1>1, Stores
  <1>3. /\ call \in [Files -> CallType] /\ CallOK(f) /\ logged' \subseteq Blocks
        /\ ip[f].size \in Nat
    BY <1>1 DEF BlockInv, Types, StoreType, Inode
  <1>4. c.off \in Nat /\ c.n \in Nat /\ c.tot \in Nat /\ c \in CallType /\ max \in Nat
    BY <1>3, Sizes DEF CallType
  <1>5. /\ new \in CallType /\ new.op = "write" /\ new.off = c.off
        /\ new.tot = c.tot /\ new.n = c.tot
    BY <1>1, <1>4 DEF CallType
  <1>6. /\ ip[f].size <= max /\ c.tot <= c.n /\ c.tot <= c.off
        /\ c.off + (c.n - c.tot) <= max
        /\ c.off - c.tot <= ip[f].size
        /\ Filled(data, ip[f], ip[f].size) /\ Filled(data, ip[f], c.off)
    BY <1>1, <1>3 DEF CallOK
  <1> HIDE DEF new, c, max
  <1>7. /\ call'[f] = new /\ call' \in [Files -> CallType]
       /\ \A g \in Files : g # f => call'[g] = call[g]
    BY <1>1, <1>3, <1>5
  <1>8. CallOK(f)'
    <2>1. \A m : Filled(data, ip[f], m) => Filled(data', ip[f], m)
      BY <1>2, FilledKept
    <2>2. Filled(data, ip[f], ip[f].size)' /\ Filled(data, ip[f], call[f].off)'
      BY <1>1, <1>5, <1>6, <1>7, <2>1
    <2>3. /\ new.tot <= new.n /\ new.tot <= new.off
          /\ new.off + (new.n - new.tot) <= max
          /\ new.off - new.tot <= ip[f].size
      BY <1>3, <1>4, <1>5, <1>6
    <2>4. InOp(f)'
      BY <1>5, <1>7 DEF InOp
    <2> QED BY <1>1, <1>5, <1>6, <1>7, <2>2, <2>3, <2>4 DEF CallOK, max
  <1>9. Freed'[f] = Freed[f]
    BY <1>1, <1>5, <1>7 DEF Freed, c
  <1> QED BY <1>1, <1>2, <1>3, <1>7, <1>8, <1>9, Quiet

LEMMA ReloadQuiet ==
    ASSUME BlockInv, NEW f \in Files, Reload(f)
    PROVE  BlockInv'
  <1>1. call[f] = NoCall /\ ip' = [ip EXCEPT ![f] = dinode[f]]
        /\ UNCHANGED <<bitmap, data, dinode, logged, disk, call>>
    BY DEF Reload, cache
  <1>2. ip[f] = dinode[f] /\ ip \in [Files -> Inode]
    BY <1>1, NoCallType DEF BlockInv, CallOK, InOp, Types, StoreType
  <1>3. ip' = ip
    BY <1>1, <1>2
  <1>4. /\ data' \in [Blocks -> Block] /\ logged' \subseteq Blocks /\ call' \in [Files -> CallType]
    BY <1>1 DEF BlockInv, Types, StoreType
  <1> QED BY <1>1, <1>3, <1>4, Quiet DEF SameIndirect

(* What the cache forgets is not an indirect block. *)
LEMMA EvictQuiet ==
    ASSUME BlockInv, NEW b \in Blocks, Evict(b)
    PROVE  BlockInv'
  <1>1. /\ b \notin logged /\ data[b] # disk.data[b] /\ data' = [data EXCEPT ![b] = disk.data[b]]
        /\ UNCHANGED <<bitmap, dinode, logged, ip, disk, call>>
    BY DEF Evict
  <1>2. /\ data \in [Blocks -> Block] /\ disk.data \in [Blocks -> Block]
        /\ logged \subseteq Blocks /\ call \in [Files -> CallType]
    BY DEF BlockInv, Types, StoreType
  <1>3. data' \in [Blocks -> Block] /\ \A c \in Blocks : c # b => data'[c] = data[c]
    BY <1>1, <1>2
  <1>4. SameIndirect
    <2> SUFFICES ASSUME NEW g \in Files, ip[g].addrs[NDIRECT] # 0
                 PROVE  data'[ip[g].addrs[NDIRECT]] = data[ip[g].addrs[NDIRECT]]
      BY DEF SameIndirect
    <2>1. ip[g].addrs[NDIRECT] \in Blocks
      BY Indirect DEF BlockInv, Types, StoreType
    <2>2. ip[g].addrs[NDIRECT] # b
      BY <1>1 DEF BlockInv, IndirectLogged
    <2> QED BY <1>3, <2>1, <2>2
  <1> QED BY <1>1, <1>2, <1>3, <1>4, Quiet

(***************************************************************************)
(* Allocation.                                                             *)
(***************************************************************************)

(* A block is marked and listed at a place that was empty; what else is    *)
(* listed stays.                                                           *)
Allocation(f, s, b) ==
    /\ Looping(f) /\ Mapped(f) = 0
    /\ bitmap' = bitmap \union {b} /\ UNCHANGED <<dinode, disk, call>>
    /\ ip' \in [Files -> Inode] /\ data' \in [Blocks -> Block]
    /\ logged \subseteq logged' /\ logged' \subseteq Blocks
    /\ Listed(data, ip[f], s) = 0
    /\ \A k \in 0..MAXFILE :
         Listed(data', ip'[f], k) = IF k = s THEN b ELSE Listed(data, ip[f], k)
    /\ \A g \in Files : g # f =>
         /\ ip'[g] = ip[g]
         /\ \A k \in 0..MAXFILE : Listed(data', ip[g], k) = Listed(data, ip[g], k)
    /\ ip'[f].size = ip[f].size
    /\ \A c \in bitmap : (\A g \in Files : c # ip[g].addrs[NDIRECT]) => data'[c] = data[c]
    /\ IndirectLogged'

LEMMA Allocates ==
    ASSUME BlockInv, NEW f \in Files, NEW s \in 0..MAXFILE, NEW b \in Blocks \ bitmap,
           Allocation(f, s, b)
    PROVE  BlockInv'
  <1> USE DEF Allocation
  <1>1. Types'
    BY DEF BlockInv, Types, StoreType
  <1>2. call[f].op = "write"
    BY InLoop
  <1>3. Freed' = Freed /\ Freed[f] = 0
    BY <1>2 DEF Freed
  <1>4. Once(Lists(data, ip, Freed), bitmap)'
    <2> DEFINE x0 == <<f, s>>
               L == Lists(data, ip, Freed)
    <2>1. PICK new : new = Lists(data', ip', Freed)
      OBVIOUS
    <2>2. x0 \in Spots
      BY DEF Spots
    <2>3. ASSUME NEW x \in Spots PROVE new[x] = IF x = x0 THEN b ELSE L[x]
      <3>1. PICK g \in Files, k \in 0..MAXFILE : x = <<g, k>>
        BY DEF Spots
      <3>2. new[x] = IF k \in (NDIRECT + 1)..(NDIRECT + Freed[g]) THEN 0
                     ELSE Listed(data', ip'[g], k)
        BY <2>1, <3>1 DEF Lists
      <3>3. L[x] = IF k \in (NDIRECT + 1)..(NDIRECT + Freed[g]) THEN 0 ELSE Listed(data, ip[g], k)
        BY <3>1 DEF Lists
      <3> HIDE DEF L
      <3>4. CASE g = f
        <4>1. k \notin (NDIRECT + 1)..(NDIRECT + Freed[g])
          BY <1>3, <3>4, Sizes
        <4> QED BY <3>1, <3>2, <3>3, <3>4, <4>1
      <3>5. CASE g # f
        BY <3>1, <3>2, <3>3, <3>5
      <3> QED BY <3>4, <3>5
    <2>4. L[x0] = 0
      BY <1>3, <2>2, Sizes DEF Lists
    <2>5. Once(L, bitmap) /\ b \notin bitmap /\ b # 0 /\ 0 \notin bitmap
      BY Sizes DEF BlockInv, Types, StoreType
    <2> HIDE DEF L, x0
    <2>6. Once(new, bitmap \union {b})
      BY <2>2, <2>3, <2>4, <2>5, OnceAlloc
    <2>7. new = Lists(data, ip, Freed)'
      BY <1>3, <2>1
    <2> QED BY <2>6, <2>7 DEF Once, Spots
  <1>5. ASSUME NEW g \in Files, NEW m \in Nat, m <= MAXFILE * BSIZE, Filled(data, ip[g], m)
        PROVE  Filled(data', ip'[g], m)
    <2> SUFFICES ASSUME NEW k \in 0..(m - 1)
                 PROVE  BlockAt(data', ip'[g], k \div BSIZE) # 0
      BY DEF Filled
    <2>1. k \in Nat /\ k < MAXFILE * BSIZE
      BY <1>5, Sizes
    <2> DEFINE bn == k \div BSIZE
    <2>2. bn \in Nat /\ bn < MAXFILE
      BY <2>1, DivMod, BlockBound
    <2>3. BlockAt(data, ip[g], bn) # 0
      BY <1>5 DEF Filled
    <2> HIDE DEF bn
    <2>4. /\ BlockAt(data, ip[g], bn) = Listed(data, ip[g], SpotOf(bn))
          /\ BlockAt(data', ip'[g], bn) = Listed(data', ip'[g], SpotOf(bn))
          /\ SpotOf(bn) \in 0..MAXFILE
      BY <2>2, BlockIsListed
    <2>5. b # 0
      BY Sizes
    <2> QED BY <2>3, <2>4, <2>5 DEF bn
  <1>6. ASSUME NEW g \in Files PROVE CallOK(g)'
    <2>1. CallOK(g) /\ call[g] \in CallType /\ ip[g] \in Inode
      BY DEF BlockInv, Types, StoreType
    <2>2. ip'[g].size = ip[g].size /\ call'[g] = call[g] /\ dinode'[g] = dinode[g]
      OBVIOUS
    <2>3. ~ InOp(g) => ip'[g] = dinode[g]
      BY <1>2, <2>1 DEF CallOK, InOp
    <2>4. call[g].op # "trunc" => Filled(data', ip'[g], ip[g].size)
      BY <1>5, <2>1 DEF CallOK, Inode
    <2>5. call[g].op = "write" => Filled(data', ip'[g], call[g].off)
      <3> SUFFICES ASSUME call[g].op = "write" PROVE Filled(data', ip'[g], call[g].off)
        OBVIOUS
      <3>1. /\ Filled(data, ip[g], call[g].off) /\ call[g].off \in Nat
            /\ call[g].n \in Nat /\ call[g].tot \in Nat /\ call[g].tot <= call[g].n
            /\ call[g].off + (call[g].n - call[g].tot) <= MAXFILE * BSIZE
        BY <2>1 DEF CallOK, CallType
      <3>2. call[g].off <= MAXFILE * BSIZE
        <4> DEFINE max == MAXFILE * BSIZE
        <4>1. max \in Nat
          BY Sizes
        <4> HIDE DEF max
        <4> QED BY <3>1, <4>1 DEF max
      <3> QED BY <1>5, <3>1, <3>2
    <2>6. InOp(g)' <=> InOp(g)
      BY DEF InOp
    <2> QED BY <2>1, <2>2, <2>3, <2>4, <2>5, <2>6 DEF CallOK
  <1>7. DiskOK'
    BY DiskStays DEF BlockInv
  <1> QED BY <1>1, <1>4, <1>6, <1>7 DEF BlockInv

LEMMA ZerosType == Zeros \in Block /\ \A k \in 0..(BSIZE - 1) : Zeros[k] = 0
  BY DEF Zeros, Block

(* Two files do not share an indirect block. *)
LEMMA IndirectDiffers ==
    ASSUME BlockInv, NEW f \in Files, NEW g \in Files, f # g, ip[f].addrs[NDIRECT] # 0
    PROVE  ip[f].addrs[NDIRECT] # ip[g].addrs[NDIRECT]
  <1> DEFINE L == Lists(data, ip, Freed)
  <1>1. /\ L[<<f, NDIRECT>>] = ip[f].addrs[NDIRECT] /\ <<f, NDIRECT>> \in Spots
        /\ L[<<g, NDIRECT>>] = ip[g].addrs[NDIRECT] /\ <<g, NDIRECT>> \in Spots
    BY Indirect
  <1>2. Once(L, bitmap)
    BY DEF BlockInv
  <1> HIDE DEF L
  <1> QED BY <1>1, <1>2 DEF Once

LEMMA BmapInodeAllocates ==
    ASSUME BlockInv, NEW f \in Files, BmapInode(f)
    PROVE  \E s \in 0..MAXFILE, b \in Blocks \ bitmap : Allocation(f, s, b)
  <1> DEFINE k == Min({Bn(f), NDIRECT})
  <1>1. PICK b \in Blocks : balloc(b, data) /\ ip' = [ip EXCEPT ![f].addrs[k] = b]
    BY DEF BmapInode
  <1>2. Looping(f) /\ ip[f].addrs[k] = 0 /\ UNCHANGED <<dinode, disk, call>>
    BY DEF BmapInode
  <1>3. /\ b \in Blocks \ bitmap /\ bitmap' = bitmap \union {b}
        /\ data' = [data EXCEPT ![b] = Zeros]
        /\ logged' = logged \union {b}
    BY <1>1 DEF balloc
  <1>4. /\ bitmap \subseteq Blocks /\ data \in [Blocks -> Block] /\ ip \in [Files -> Inode]
        /\ logged \subseteq Blocks
    BY DEF BlockInv, Types, StoreType
  <1>5. Bn(f) \in Nat /\ Bn(f) < MAXFILE
    BY <1>2, InLoop
  <1>6. k = IF Bn(f) <= NDIRECT THEN Bn(f) ELSE NDIRECT
    BY <1>5, Sizes, MinOfTwo
  <1> HIDE DEF k
  <1>7. k \in 0..NDIRECT /\ k \in 0..MAXFILE /\ b \in 0..NBLOCKS /\ b # 0
    BY <1>5, <1>6, Sizes DEF Blocks
  <1>8. Mapped(f) = 0
    BY <1>2, <1>5, <1>6, Sizes DEF Mapped, BlockAt
  <1>9. /\ ip' \in [Files -> Inode] /\ \A g \in Files : g # f => ip'[g] = ip[g]
        /\ ip'[f].size = ip[f].size
        /\ ip'[f].addrs = [ip[f].addrs EXCEPT ![k] = b]
    <2>1. ip[f] \in Inode /\ ip[f].addrs \in [0..NDIRECT -> 0..NBLOCKS]
      BY <1>4 DEF Inode
    <2> DEFINE new == [ip[f] EXCEPT !.addrs = [ip[f].addrs EXCEPT ![k] = b]]
    <2>2. ip' = [ip EXCEPT ![f] = new]
      BY <1>1, <1>4
    <2>3. /\ new \in Inode /\ new.size = ip[f].size
          /\ new.addrs = [ip[f].addrs EXCEPT ![k] = b]
      BY <1>7, <2>1 DEF Inode
    <2> HIDE DEF new
    <2> QED BY <1>4, <2>2, <2>3
  <1>10. /\ ip[f].addrs \in [0..NDIRECT -> 0..NBLOCKS]
         /\ \A j \in 0..NDIRECT : ip'[f].addrs[j] = IF j = k THEN b ELSE ip[f].addrs[j]
    BY <1>4, <1>7, <1>9 DEF Inode
  <1>11. /\ data' \in [Blocks -> Block] /\ data'[b] = Zeros
         /\ \A c \in Blocks : c # b => data'[c] = data[c]
    BY <1>3, <1>4, ZerosType
  <1>12. ASSUME NEW g \in Files, ip[g].addrs[NDIRECT] # 0
         PROVE  /\ ip[g].addrs[NDIRECT] \in Blocks /\ ip[g].addrs[NDIRECT] # b
                /\ data'[ip[g].addrs[NDIRECT]] = data[ip[g].addrs[NDIRECT]]
    BY <1>3, <1>4, <1>11, <1>12, Indirect
  <1>13. ASSUME NEW j \in 0..MAXFILE
         PROVE  Listed(data', ip'[f], j) = IF j = k THEN b ELSE Listed(data, ip[f], j)
    <2>1. CASE j <= NDIRECT
      BY <1>7, <1>10, <2>1, Sizes DEF Listed
    <2>2. CASE j > NDIRECT
      <3> DEFINE i == j - NDIRECT - 1
      <3>1. i \in 0..(BSIZE - 1) /\ j # k /\ ~ (j <= NDIRECT)
        BY <1>7, <2>2, Sizes
      <3> HIDE DEF i
      <3>2. CASE k = NDIRECT
        <4>1. ip'[f].addrs[NDIRECT] = b /\ ip[f].addrs[NDIRECT] = 0
          BY <1>2, <1>7, <1>10, <3>2
        <4>2. Listed(data, ip[f], j) = 0
          BY <3>1, <4>1 DEF Listed
        <4>3. Listed(data', ip'[f], j) = data'[b][i]
          BY <1>7, <3>1, <4>1 DEF Listed, i
        <4> QED BY <1>11, <3>1, <4>2, <4>3, ZerosType
      <3>3. CASE k # NDIRECT
        <4>1. ip'[f].addrs[NDIRECT] = ip[f].addrs[NDIRECT]
          BY <1>10, <3>3, Sizes
        <4> QED BY <1>12, <3>1, <4>1 DEF Listed
      <3> QED BY <3>2, <3>3
    <2> QED BY <2>1, <2>2, Sizes
  <1>14. Listed(data, ip[f], k) = 0
    BY <1>2, <1>7, Sizes DEF Listed
  <1>15. \A g \in Files : g # f =>
           \A j \in 0..MAXFILE : Listed(data', ip[g], j) = Listed(data, ip[g], j)
    BY <1>12 DEF Listed
  <1>16. IndirectLogged'
    <2> SUFFICES ASSUME NEW g \in Files, ip'[g].addrs[NDIRECT] # 0,
                        ip'[g].addrs[NDIRECT] \notin logged'
                 PROVE  data'[ip'[g].addrs[NDIRECT]] = disk.data[ip'[g].addrs[NDIRECT]]
      BY <1>2 DEF IndirectLogged
    <2>1. ip'[g].addrs[NDIRECT] = ip[g].addrs[NDIRECT]
      BY <1>3, <1>9, <1>10, Sizes
    <2> QED BY <1>3, <1>12, <2>1 DEF BlockInv, IndirectLogged
  <1>17. logged \subseteq logged' /\ logged' \subseteq Blocks
    BY <1>3, <1>4
  <1>18. PICK s \in 0..MAXFILE : s = k
    BY <1>7
  <1>19. \A c \in bitmap : data'[c] = data[c]
    BY <1>3, <1>4, <1>11
  <1>20. Allocation(f, s, b)
    BY <1>19, <1>2, <1>3, <1>8, <1>9, <1>11, <1>13, <1>14, <1>15, <1>16, <1>17, <1>18 DEF Allocation
  <1> QED BY <1>3, <1>20

LEMMA BmapIndirectAllocates ==
    ASSUME BlockInv, NEW f \in Files, BmapIndirect(f)
    PROVE  \E s \in 0..MAXFILE, b \in Blocks \ bitmap : Allocation(f, s, b)
  <1> DEFINE a == ip[f].addrs[NDIRECT]
             j == Bn(f) - NDIRECT
             s == NDIRECT + 1 + j
  <1>1. PICK b \in Blocks : balloc(b, [data EXCEPT ![a][j] = b])
    BY DEF BmapIndirect
  <1>2. /\ Looping(f) /\ Bn(f) >= NDIRECT /\ a # 0 /\ data[a][j] = 0
        /\ UNCHANGED <<ip, dinode, disk, call>>
    BY DEF BmapIndirect
  <1>3. /\ bitmap \subseteq Blocks /\ data \in [Blocks -> Block] /\ ip \in [Files -> Inode]
        /\ logged \subseteq Blocks
    BY DEF BlockInv, Types, StoreType
  <1>4. Bn(f) \in Nat /\ Bn(f) < MAXFILE
    BY <1>2, InLoop
  <1>5. j \in 0..(BSIZE - 1) /\ s \in 0..MAXFILE /\ s > NDIRECT
    BY <1>2, <1>4, Sizes
  <1>6. a \in Blocks /\ data[a] \in Block /\ a \in bitmap
    BY <1>2, <1>3, Indirect
  <1>7. Mapped(f) = 0 /\ Listed(data, ip[f], s) = 0
    BY <1>2, <1>4, <1>5, Sizes DEF Mapped, BlockAt, Listed
  <1> DEFINE dat == [data EXCEPT ![a][j] = b]
  <1>8. /\ b \in Blocks \ bitmap /\ bitmap' = bitmap \union {b} /\ b \in Nat /\ b # 0 /\ b # a
        /\ data' = [dat EXCEPT ![b] = Zeros]
        /\ logged' = logged \union {b} \union {c \in Blocks : dat[c] # data[c]}
    BY <1>1, <1>6, Sizes DEF balloc, Blocks
  <1> HIDE DEF j
  <1>9. /\ dat \in [Blocks -> Block] /\ dat[a] = [data[a] EXCEPT ![j] = b]
        /\ \A c \in Blocks : c # a => dat[c] = data[c]
    <2> DEFINE new == [data[a] EXCEPT ![j] = b]
    <2>1. dat = [data EXCEPT ![a] = new]
      OBVIOUS
    <2>2. new \in Block
      BY <1>5, <1>6, <1>8 DEF Block
    <2> HIDE DEF new, a, dat
    <2>3. dat \in [Blocks -> Block] /\ dat[a] = new /\ \A c \in Blocks : c # a => dat[c] = data[c]
      BY <1>3, <1>6, <2>1, <2>2
    <2> QED BY <2>3 DEF new
  <1> HIDE DEF dat, a
  <1>10. \A i \in 0..(BSIZE - 1) : dat[a][i] = IF i = j THEN b ELSE data[a][i]
    BY <1>5, <1>6, <1>9 DEF Block
  <1>11. a \in logged' /\ logged \subseteq logged' /\ logged' \subseteq Blocks
    <2>1. dat[a] # data[a]
      BY <1>2, <1>5, <1>8, <1>10
    <2> QED BY <1>3, <1>6, <1>8, <2>1
  <1>12. /\ data' \in [Blocks -> Block] /\ data'[a] = dat[a]
         /\ \A c \in Blocks : c # a /\ c # b => data'[c] = data[c]
    BY <1>6, <1>8, <1>9, ZerosType
  <1>13. ASSUME NEW g \in Files, g # f, ip[g].addrs[NDIRECT] # 0
         PROVE  data'[ip[g].addrs[NDIRECT]] = data[ip[g].addrs[NDIRECT]]
    <2>1. ip[g].addrs[NDIRECT] \in bitmap
      BY <1>13, Indirect
    <2>2. ip[g].addrs[NDIRECT] # a
      BY <1>2, <1>13, IndirectDiffers DEF a
    <2> QED BY <1>3, <1>8, <1>12, <2>1, <2>2
  <1>14. ASSUME NEW k \in 0..MAXFILE
         PROVE  Listed(data', ip'[f], k) = IF k = s THEN b ELSE Listed(data, ip[f], k)
    <2>1. CASE k <= NDIRECT
      BY <1>2, <1>5, <2>1, Sizes DEF Listed
    <2>2. CASE k > NDIRECT
      <3> DEFINE i == k - NDIRECT - 1
      <3>1. /\ i \in 0..(BSIZE - 1) /\ ~ (k <= NDIRECT) /\ (k = s <=> i = j)
        BY <1>5, <2>2, Sizes
      <3>2. Listed(data', ip'[f], k) = data'[a][i] /\ Listed(data, ip[f], k) = data[a][i]
        BY <1>2, <3>1 DEF Listed, a
      <3> HIDE DEF i, s
      <3> QED BY <1>10, <1>12, <3>1, <3>2
    <2> QED BY <2>1, <2>2, Sizes
  <1>15. \A g \in Files : g # f =>
           \A k \in 0..MAXFILE : Listed(data', ip[g], k) = Listed(data, ip[g], k)
    BY <1>13 DEF Listed
  <1>16. IndirectLogged'
    <2> SUFFICES ASSUME NEW g \in Files, ip[g].addrs[NDIRECT] # 0,
                        ip[g].addrs[NDIRECT] \notin logged'
                 PROVE  data'[ip[g].addrs[NDIRECT]] = disk.data[ip[g].addrs[NDIRECT]]
      BY <1>2 DEF IndirectLogged
    <2>1. g # f
      BY <1>11 DEF a
    <2> QED BY <1>11, <1>13, <2>1 DEF BlockInv, IndirectLogged
  <1> HIDE DEF s
  <1>17. ip' \in [Files -> Inode] /\ ip'[f].size = ip[f].size /\ \A g \in Files : ip'[g] = ip[g]
    BY <1>2, <1>3
  <1>18. PICK t \in 0..MAXFILE : t = s
    BY <1>5
  <1>19. \A c \in bitmap : c # a => data'[c] = data[c]
    BY <1>3, <1>8, <1>12
  <1>20. \A c \in bitmap : (\A g \in Files : c # ip[g].addrs[NDIRECT]) => data'[c] = data[c]
    BY <1>19 DEF a
  <1>21. Allocation(f, t, b)
    BY <1>20, <1>2, <1>7, <1>8, <1>11, <1>12, <1>14, <1>15, <1>16, <1>17, <1>18
    DEF Allocation
  <1> QED BY <1>8, <1>21

(***************************************************************************)
(* itrunc.                                                                 *)
(***************************************************************************)

(* What file f lists at place k. *)
At(f, k) ==
    IF k \in (NDIRECT + 1)..(NDIRECT + Freed[f]) THEN 0 ELSE Listed(data, ip[f], k)

LEMMA ListsAt ==
    ASSUME NEW f \in Files, NEW k \in 0..MAXFILE
    PROVE  <<f, k>> \in Spots /\ Lists(data, ip, Freed)[<<f, k>>] = At(f, k)
  BY DEF Spots, Lists, At

LEMMA ListsAtNext ==
    ASSUME NEW f \in Files, NEW k \in 0..MAXFILE
    PROVE  <<f, k>> \in Spots /\ Lists(data, ip, Freed)'[<<f, k>>] = At(f, k)'
  BY DEF Spots, Lists, At

(* A place is emptied, and what was listed there is free. *)
Freeing(f, s) ==
    /\ call[f].op = "trunc"
    /\ bitmap' = bitmap \ {At(f, s)}
    /\ UNCHANGED <<data, logged, dinode, disk>>
    /\ ip' \in [Files -> Inode] /\ ip'[f].size = ip[f].size
    /\ call' \in [Files -> CallType] /\ call'[f].op = "trunc" /\ call'[f].tot <= NINDIRECT
    /\ \A k \in 0..MAXFILE : At(f, k)' = IF k = s THEN 0 ELSE At(f, k)
    /\ \A g \in Files : g # f => ip'[g] = ip[g] /\ call'[g] = call[g]
    /\ ip'[f].addrs[NDIRECT] \in {ip[f].addrs[NDIRECT], 0}

LEMMA Frees ==
    ASSUME BlockInv, NEW f \in Files, NEW s \in 0..MAXFILE, Freeing(f, s)
    PROVE  BlockInv'
  <1>1. Types'
    BY DEF BlockInv, Types, StoreType, Freeing
  <1>2. ASSUME NEW g \in Files, g # f, NEW k PROVE At(g, k)' = At(g, k)
    BY <1>2 DEF Freeing, At, Freed, Listed
  <1>3. Once(Lists(data, ip, Freed), bitmap)'
    <2> DEFINE L == Lists(data, ip, Freed)
    <2>1. PICK new : new = L'
      OBVIOUS
    <2>2. PICK x0 : x0 = <<f, s>>
      OBVIOUS
    <2>3. x0 \in Spots /\ L[x0] = At(f, s)
      BY <2>2, ListsAt
    <2>4. ASSUME NEW x \in Spots PROVE new[x] = IF x = x0 THEN 0 ELSE L[x]
      <3>1. PICK g \in Files, k \in 0..MAXFILE : x = <<g, k>>
        BY DEF Spots
      <3>2. new[x] = At(g, k)' /\ L[x] = At(g, k)
        BY <2>1, <3>1, ListsAt, ListsAtNext
      <3> HIDE DEF L
      <3>3. CASE g = f
        BY <2>2, <3>1, <3>2, <3>3 DEF Freeing
      <3>4. CASE g # f
        BY <1>2, <2>2, <3>1, <3>2, <3>4
      <3> QED BY <3>3, <3>4
    <2>5. Once(L, bitmap) /\ 0 \notin bitmap
      BY Sizes DEF BlockInv, Types, StoreType
    <2> HIDE DEF L
    <2>6. Once(new, bitmap \ {L[x0]})
      BY <2>3, <2>4, <2>5, OnceFree
    <2>7. bitmap' = bitmap \ {L[x0]}
      BY <2>3 DEF Freeing
    <2> QED BY <2>1, <2>6, <2>7 DEF Once, Spots, L
  <1>4. ASSUME NEW g \in Files PROVE CallOK(g)'
    <2>1. CASE g = f
      <3>1. ip[f].size <= MAXFILE * BSIZE
        BY DEF BlockInv, CallOK
      <3> QED BY <2>1, <3>1 DEF Freeing, CallOK, InOp
    <2>2. CASE g # f
      <3>1. SameIndirect
        BY DEF Freeing, SameIndirect
      <3> QED BY <2>2, <3>1, CallStays DEF BlockInv, Freeing
    <2> QED BY <2>1, <2>2
  <1>5. IndirectLogged'
    BY DEF BlockInv, IndirectLogged, Freeing
  <1>6. DiskOK'
    BY DiskStays DEF BlockInv, Freeing
  <1> QED BY <1>1, <1>3, <1>4, <1>5, <1>6 DEF BlockInv

(* The inode loses an address. *)
LEMMA AddrCleared ==
    ASSUME BlockInv, NEW f \in Files, NEW k \in 0..NDIRECT, ip' = [ip EXCEPT ![f].addrs[k] = 0]
    PROVE  /\ ip' \in [Files -> Inode] /\ ip'[f].size = ip[f].size
           /\ \A g \in Files : g # f => ip'[g] = ip[g]
           /\ \A j \in 0..NDIRECT : ip'[f].addrs[j] = IF j = k THEN 0 ELSE ip[f].addrs[j]
  <1>1. ip \in [Files -> Inode]
    BY DEF BlockInv, Types, StoreType
  <1>2. ip[f] \in Inode /\ ip[f].addrs \in [0..NDIRECT -> 0..NBLOCKS]
    BY <1>1 DEF Inode
  <1> DEFINE new == [ip[f] EXCEPT !.addrs = [ip[f].addrs EXCEPT ![k] = 0]]
  <1>3. ip' = [ip EXCEPT ![f] = new]
    BY <1>1
  <1>4. /\ new \in Inode /\ new.size = ip[f].size
        /\ \A j \in 0..NDIRECT : new.addrs[j] = IF j = k THEN 0 ELSE ip[f].addrs[j]
    <2> DEFINE addrs == [ip[f].addrs EXCEPT ![k] = 0]
    <2>1. /\ addrs \in [0..NDIRECT -> 0..NBLOCKS]
          /\ \A j \in 0..NDIRECT : addrs[j] = IF j = k THEN 0 ELSE ip[f].addrs[j]
      BY <1>2, Sizes
    <2> HIDE DEF addrs
    <2>2. new = [ip[f] EXCEPT !.addrs = addrs]
      BY DEF addrs
    <2>3. new \in Inode /\ new.size = ip[f].size /\ new.addrs = addrs
      BY <1>2, <2>1, <2>2 DEF Inode
    <2> QED BY <2>1, <2>3
  <1> HIDE DEF new
  <1> QED BY <1>1, <1>3, <1>4

LEMMA TruncDirectFrees ==
    ASSUME BlockInv, NEW f \in Files, TruncDirect(f)
    PROVE  BlockInv'
  <1>1. PICK k \in 0..(NDIRECT - 1) : /\ bfree(ip[f].addrs[k])
                                      /\ ip' = [ip EXCEPT ![f].addrs[k] = 0]
    BY DEF TruncDirect
  <1>2. call[f].op = "trunc" /\ UNCHANGED <<data, dinode, logged, disk, call>>
    BY DEF TruncDirect
  <1>3. k \in 0..NDIRECT /\ k # NDIRECT /\ k \in 0..MAXFILE /\ NDIRECT \in 0..NDIRECT
    BY Sizes
  <1>4. /\ ip' \in [Files -> Inode] /\ ip'[f].size = ip[f].size
        /\ \A g \in Files : g # f => ip'[g] = ip[g]
        /\ \A j \in 0..NDIRECT : ip'[f].addrs[j] = IF j = k THEN 0 ELSE ip[f].addrs[j]
    BY <1>1, <1>3, AddrCleared
  <1>5. ip'[f].addrs[NDIRECT] = ip[f].addrs[NDIRECT]
    BY <1>3, <1>4
  <1>6. At(f, k) = ip[f].addrs[k]
    BY <1>3, Sizes DEF At, Listed
  <1>7. Freed' = Freed
    BY <1>2 DEF Freed
  <1>8. ASSUME NEW j \in 0..MAXFILE PROVE At(f, j)' = IF j = k THEN 0 ELSE At(f, j)
    <2>1. CASE j <= NDIRECT
      <3>1. j \in 0..NDIRECT /\ j \notin (NDIRECT + 1)..(NDIRECT + Freed[f])
        BY <2>1, Sizes
      <3> QED BY <1>4, <1>7, <2>1, <3>1 DEF At, Listed
    <2>2. CASE ~ (j <= NDIRECT)
      <3>1. j # k
        BY <1>3, <2>2, Sizes
      <3> QED BY <1>2, <1>5, <1>7, <2>2, <3>1 DEF At, Listed
    <2> QED BY <2>1, <2>2
  <1>9. call[f].tot <= NINDIRECT /\ call \in [Files -> CallType]
    BY <1>2 DEF BlockInv, CallOK, Types
  <1>10. Freeing(f, k)
    BY <1>1, <1>2, <1>4, <1>5, <1>6, <1>8, <1>9 DEF Freeing, bfree
  <1> QED BY <1>3, <1>10, Frees

LEMMA TruncIndirectFrees ==
    ASSUME BlockInv, NEW f \in Files, TruncIndirect(f)
    PROVE  BlockInv'
  <1>1. /\ call[f].op = "trunc" /\ call[f].tot = NINDIRECT
        /\ bfree(ip[f].addrs[NDIRECT]) /\ ip' = [ip EXCEPT ![f].addrs[NDIRECT] = 0]
        /\ UNCHANGED <<data, dinode, logged, disk, call>>
    BY DEF TruncIndirect
  <1>2. NDIRECT \in 0..NDIRECT /\ NDIRECT \in 0..MAXFILE
    BY Sizes
  <1>3. /\ ip' \in [Files -> Inode] /\ ip'[f].size = ip[f].size
        /\ \A g \in Files : g # f => ip'[g] = ip[g]
        /\ \A j \in 0..NDIRECT : ip'[f].addrs[j] = IF j = NDIRECT THEN 0 ELSE ip[f].addrs[j]
    BY <1>1, <1>2, AddrCleared
  <1>4. Freed' = Freed /\ Freed[f] = BSIZE
    BY <1>1, Sizes DEF Freed
  <1>5. At(f, NDIRECT) = ip[f].addrs[NDIRECT]
    BY Sizes DEF At, Listed
  <1>6. ASSUME NEW j \in 0..MAXFILE PROVE At(f, j)' = IF j = NDIRECT THEN 0 ELSE At(f, j)
    <2>1. CASE j <= NDIRECT
      <3>1. j \in 0..NDIRECT /\ j \notin (NDIRECT + 1)..(NDIRECT + Freed[f])
        BY <2>1, Sizes
      <3> QED BY <1>3, <1>4, <2>1, <3>1 DEF At, Listed
    <2>2. CASE ~ (j <= NDIRECT)
      <3>1. j # NDIRECT /\ j \in (NDIRECT + 1)..(NDIRECT + Freed[f])
        BY <1>4, <2>2, Sizes
      <3> QED BY <1>4, <3>1 DEF At
    <2> QED BY <2>1, <2>2
  <1>7. call[f].tot <= NINDIRECT /\ call \in [Files -> CallType]
    BY <1>1 DEF BlockInv, CallOK, Types
  <1>8. Freeing(f, NDIRECT)
    BY <1>1, <1>2, <1>3, <1>5, <1>6, <1>7 DEF Freeing, bfree
  <1> QED BY <1>2, <1>8, Frees

LEMMA TruncEntryFrees ==
    ASSUME BlockInv, NEW f \in Files, TruncEntry(f)
    PROVE  BlockInv'
  <1> DEFINE c == call[f]
             new == [c EXCEPT !.tot = @ + 1]
             a == ip[f].addrs[NDIRECT]
  <1>1. /\ c.op = "trunc" /\ c.tot < NINDIRECT /\ a # 0
        /\ bfree(data[a][c.tot]) /\ call' = [call EXCEPT ![f] = new]
        /\ UNCHANGED <<data, dinode, logged, ip, disk>>
    BY DEF TruncEntry
  <1>2. call \in [Files -> CallType] /\ c \in CallType /\ c.tot \in Nat /\ ip \in [Files -> Inode]
    BY DEF BlockInv, Types, StoreType, CallType
  <1>3. new \in CallType /\ new.op = "trunc" /\ new.tot = c.tot + 1 /\ new.tot <= NINDIRECT
    <2>1. c.tot + 1 \in Nat /\ c.tot + 1 <= NINDIRECT
      BY <1>1, <1>2, Sizes
    <2> HIDE DEF c
    <2>2. new \in CallType /\ new.op = c.op /\ new.tot = c.tot + 1
      BY <1>2, <2>1 DEF CallType
    <2> QED BY <1>1, <2>1, <2>2
  <1> HIDE DEF new
  <1>4. /\ call' \in [Files -> CallType] /\ call'[f] = new
        /\ \A g \in Files : g # f => call'[g] = call[g]
    BY <1>1, <1>2, <1>3
  <1>5. Freed[f] = c.tot /\ Freed'[f] = c.tot + 1
    BY <1>1, <1>3, <1>4 DEF Freed
  <1>6. PICK t \in Nat : t = c.tot
    BY <1>2
  <1> HIDE DEF c
  <1> DEFINE s == NDIRECT + 1 + t
  <1>7. s \in 0..MAXFILE /\ ~ (s <= NDIRECT) /\ s - NDIRECT - 1 = t
    BY <1>1, <1>6, Sizes
  <1>8. At(f, s) = data[a][t]
    <2>1. s \notin (NDIRECT + 1)..(NDIRECT + Freed[f])
      BY <1>5, <1>6, Sizes
    <2> HIDE DEF s
    <2> QED BY <1>1, <1>7, <2>1 DEF At, Listed
  <1>9. ASSUME NEW j \in 0..MAXFILE PROVE At(f, j)' = IF j = s THEN 0 ELSE At(f, j)
    <2>1. j \in (NDIRECT + 1)..(NDIRECT + Freed'[f]) <=>
            (j = s \/ j \in (NDIRECT + 1)..(NDIRECT + Freed[f]))
      BY <1>5, <1>6, Sizes
    <2>2. Listed(data', ip'[f], j) = Listed(data, ip[f], j)
      BY <1>1 DEF Listed
    <2> HIDE DEF s
    <2> QED BY <2>1, <2>2 DEF At
  <1> HIDE DEF s
  <1>10. Freeing(f, s)
    BY <1>1, <1>2, <1>3, <1>4, <1>6, <1>8, <1>9 DEF Freeing, bfree, c
  <1> QED BY <1>7, <1>10, Frees

(***************************************************************************)
(* The end of a transaction.                                               *)
(***************************************************************************)

(* What a call has done when it writes its inode back. *)
Ending(f, size) ==
    /\ InOp(f)
    /\ iupdate(f, [ip[f] EXCEPT !.size = size])
    /\ UNCHANGED <<bitmap, data>>
    /\ end_op(f)
    /\ size \in Nat /\ size <= MAXFILE * BSIZE
    /\ Filled(data, ip[f], size)
    /\ \A k \in 0..MAXFILE : At(f, k) = Listed(data, ip[f], k)

LEMMA EndFacts ==
    ASSUME BlockInv, NEW f \in Files, NEW size, Ending(f, size)
    PROVE  /\ ip' \in [Files -> Inode] /\ dinode' \in [Files -> Inode]
           /\ ip'[f].size = size /\ ip'[f].addrs = ip[f].addrs /\ dinode'[f] = ip'[f]
           /\ \A g \in Files : g # f => /\ ip'[g] = ip[g] /\ dinode'[g] = dinode[g]
                                        /\ call'[g] = call[g]
           /\ call' \in [Files -> CallType] /\ call'[f].op = "none"
  <1> DEFINE new == [ip[f] EXCEPT !.size = size]
  <1>1. /\ ip \in [Files -> Inode] /\ dinode \in [Files -> Inode] /\ call \in [Files -> CallType]
    BY DEF BlockInv, Types, StoreType
  <1>2. new \in Inode /\ new.size = size /\ new.addrs = ip[f].addrs
    BY <1>1 DEF Inode, Ending
  <1> HIDE DEF new
  <1>3. /\ ip' = [ip EXCEPT ![f] = new] /\ dinode' = [dinode EXCEPT ![f] = new]
        /\ call' = [call EXCEPT ![f] = NoCall]
    BY DEF Ending, iupdate, end_op, new
  <1> QED BY <1>1, <1>2, <1>3, NoCallType

LEMMA EndsMemory ==
    ASSUME BlockInv, NEW f \in Files, NEW size, Ending(f, size)
    PROVE  /\ Once(Lists(data, ip, Freed), bitmap)'
           /\ \A g \in Files : CallOK(g)'
           /\ \A g \in Files, k \in 0..MAXFILE : At(g, k)' = At(g, k)
  <1>1. /\ ip'[f].size = size /\ ip'[f].addrs = ip[f].addrs /\ dinode'[f] = ip'[f]
        /\ \A g \in Files : g # f => /\ ip'[g] = ip[g] /\ dinode'[g] = dinode[g]
                                     /\ call'[g] = call[g]
        /\ call'[f].op = "none"
    BY EndFacts
  <1>2. data' = data /\ bitmap' = bitmap
    BY DEF Ending
  <1>3. ASSUME NEW g \in Files, NEW k \in 0..MAXFILE PROVE At(g, k)' = At(g, k)
    <2>1. CASE g # f
      <3>1. Freed'[g] = Freed[g]
        BY <1>1, <2>1 DEF Freed
      <3> QED BY <1>1, <1>2, <2>1, <3>1 DEF At, Listed
    <2>2. CASE g = f
      <3>1. Freed'[f] = 0
        BY <1>1 DEF Freed
      <3>2. k \notin (NDIRECT + 1)..(NDIRECT + Freed'[f])
        BY <3>1, Sizes
      <3>3. At(f, k)' = Listed(data', ip'[f], k)
        BY <3>2 DEF At
      <3>4. Listed(data', ip'[f], k) = Listed(data, ip[f], k)
        BY <1>1, <1>2 DEF Listed
      <3> QED BY <2>2, <3>3, <3>4 DEF Ending
    <2> QED BY <2>1, <2>2
  <1>4. Once(Lists(data, ip, Freed), bitmap)'
    <2> DEFINE L == Lists(data, ip, Freed)
    <2>1. PICK new : new = L'
      OBVIOUS
    <2>2. ASSUME NEW x \in Spots PROVE new[x] = L[x]
      <3>1. PICK g \in Files, k \in 0..MAXFILE : x = <<g, k>>
        BY DEF Spots
      <3> QED BY <1>3, <2>1, <3>1, ListsAt, ListsAtNext
    <2>3. Once(L, bitmap)
      BY DEF BlockInv
    <2> HIDE DEF L
    <2>4. Once(new, bitmap)
      BY <2>2, <2>3, OnceSame
    <2> QED BY <1>2, <2>1, <2>4 DEF Once, Spots, L
  <1>5. ASSUME NEW g \in Files PROVE CallOK(g)'
    <2>1. CASE g # f
      <3>1. SameIndirect
        BY <1>2 DEF SameIndirect
      <3> QED BY <1>1, <2>1, <3>1, CallStays DEF BlockInv
    <2>2. CASE g = f
      <3>1. \A bn : BlockAt(data', ip'[f], bn) = BlockAt(data, ip[f], bn)
        BY <1>1, <1>2 DEF BlockAt
      <3>2. Filled(data', ip'[f], ip'[f].size)
        BY <1>1, <3>1 DEF Ending, Filled
      <3> QED BY <1>1, <2>2, <3>2 DEF Ending, CallOK
    <2> QED BY <2>1, <2>2
  <1> QED BY <1>3, <1>4, <1>5

(* What a commit writes to the disk. *)
LEMMA Commits ==
    ASSUME BlockInv, NEW f \in Files, NEW size, Ending(f, size),
           \A g \in Files \ {f} : ~ InOp(g)
    PROVE  /\ StoreType(disk.bitmap, disk.data, disk.dinode)'
           /\ DiskOK' /\ logged' = {}
           /\ \A g \in Files : ip[g].addrs[NDIRECT] # 0 =>
                disk'.data[ip[g].addrs[NDIRECT]] = data[ip[g].addrs[NDIRECT]]
  <1> DEFINE dat == [b \in Blocks |-> IF b \in logged THEN data[b] ELSE disk.data[b]]
  <1>1. /\ ip' \in [Files -> Inode] /\ dinode' \in [Files -> Inode]
        /\ ip'[f].size = size /\ ip'[f].addrs = ip[f].addrs /\ dinode'[f] = ip'[f]
        /\ \A g \in Files : g # f => /\ ip'[g] = ip[g] /\ dinode'[g] = dinode[g]
                                     /\ call'[g] = call[g]
    BY EndFacts
  <1>2. data' = data /\ bitmap' = bitmap
    BY DEF Ending
  <1>3. /\ disk'.bitmap = bitmap /\ disk'.dinode = dinode' /\ disk'.data = dat /\ logged' = {}
    BY <1>2 DEF Ending, end_op
  <1>4. /\ bitmap \subseteq Blocks /\ data \in [Blocks -> Block] /\ disk.data \in [Blocks -> Block]
    BY DEF BlockInv, Types, StoreType
  <1>5. /\ dat \in [Blocks -> Block]
        /\ \A b \in Blocks : dat[b] = IF b \in logged THEN data[b] ELSE disk.data[b]
    BY <1>4
  <1> HIDE DEF dat
  <1>6. ASSUME NEW g \in Files, ip[g].addrs[NDIRECT] # 0
        PROVE  dat[ip[g].addrs[NDIRECT]] = data[ip[g].addrs[NDIRECT]]
    <2>1. ip[g].addrs[NDIRECT] \in Blocks
      BY <1>4, <1>6, Indirect
    <2> QED BY <1>5, <1>6, <2>1 DEF BlockInv, IndirectLogged
  <1>7. ASSUME NEW g \in Files
        PROVE  /\ dinode'[g].addrs = ip[g].addrs
               /\ dinode'[g] = ip'[g]
               /\ \A k \in 0..MAXFILE : At(g, k) = Listed(data, ip[g], k)
    <2>1. CASE g = f
      BY <1>1, <2>1 DEF Ending
    <2>2. CASE g # f
      <3>1. ~ InOp(g) /\ CallOK(g)
        BY <2>2 DEF BlockInv
      <3>2. ip[g] = dinode[g] /\ call[g].op # "trunc"
        BY <3>1 DEF CallOK, InOp
      <3>3. Freed[g] = 0
        BY <3>2 DEF Freed
      <3>4. \A k \in 0..MAXFILE : k \notin (NDIRECT + 1)..(NDIRECT + Freed[g])
        BY <3>3, Sizes
      <3> QED BY <1>1, <2>2, <3>2, <3>4 DEF At
    <2> QED BY <2>1, <2>2
  <1>8. ASSUME NEW g \in Files
        PROVE  /\ \A k : Listed(dat, dinode'[g], k) = Listed(data, ip[g], k)
               /\ \A bn : BlockAt(dat, dinode'[g], bn) = BlockAt(data, ip[g], bn)
    <2>1. dinode'[g].addrs = ip[g].addrs
      BY <1>7
    <2>2. \A k : Listed(dat, dinode'[g], k) = Listed(data, ip[g], k)
      BY <1>6, <2>1 DEF Listed
    <2>3. \A bn : BlockAt(dat, dinode'[g], bn) = BlockAt(data, ip[g], bn)
      BY <1>6, <2>1 DEF BlockAt
    <2> QED BY <2>2, <2>3
  <1>9. Once(Lists(disk.data, disk.dinode, NoneFreed), disk.bitmap)'
    <2> DEFINE L == Lists(data, ip, Freed)
    <2>1. PICK new : new = Lists(dat, dinode', NoneFreed)
      OBVIOUS
    <2>2. ASSUME NEW x \in Spots PROVE new[x] = L[x]
      <3>1. PICK g \in Files, k \in 0..MAXFILE : x = <<g, k>>
        BY DEF Spots
      <3>2. k \notin (NDIRECT + 1)..(NDIRECT + NoneFreed[g])
        BY Sizes DEF NoneFreed
      <3>3. new[x] = Listed(dat, dinode'[g], k)
        BY <2>1, <3>1, <3>2 DEF Lists
      <3>4. L[x] = At(g, k)
        BY <3>1, ListsAt
      <3> HIDE DEF L
      <3> QED BY <1>7, <1>8, <3>3, <3>4
    <2>3. Once(L, bitmap)
      BY DEF BlockInv
    <2> HIDE DEF L
    <2>4. Once(new, bitmap)
      BY <2>2, <2>3, OnceSame
    <2>5. NoneFreed' = NoneFreed
      BY DEF NoneFreed
    <2>6. new = Lists(disk.data, disk.dinode, NoneFreed)'
      BY <1>3, <2>1, <2>5
    <2> QED BY <1>3, <2>4, <2>6 DEF Once, Spots
  <1>10. ASSUME NEW g \in Files
         PROVE  /\ disk'.dinode[g].size <= MAXFILE * BSIZE
                /\ Filled(disk'.data, disk'.dinode[g], disk'.dinode[g].size)
    <2>1. CallOK(g)'
      BY EndsMemory
    <2>2. disk'.dinode[g] = ip'[g]
      BY <1>3, <1>7
    <2>3. call'[g].op # "trunc"
      <3>1. CASE g = f
        BY <3>1, EndFacts
      <3>2. CASE g # f
        BY <1>1, <3>2 DEF InOp
      <3> QED BY <3>1, <3>2
    <2>4. ip'[g].size <= MAXFILE * BSIZE /\ Filled(data', ip'[g], ip'[g].size)
      BY <2>1, <2>3 DEF CallOK
    <2>5. \A bn : BlockAt(dat, ip'[g], bn) = BlockAt(data', ip'[g], bn)
      <3>1. ip'[g].addrs = ip[g].addrs
        BY <1>7
      <3> QED BY <1>2, <1>6, <3>1 DEF BlockAt
    <2> QED BY <1>3, <2>2, <2>4, <2>5 DEF Filled
  <1>11. DiskOK'
    BY <1>9, <1>10 DEF DiskOK
  <1> QED BY <1>1, <1>3, <1>4, <1>5, <1>6, <1>11 DEF StoreType

LEMMA Ends ==
    ASSUME BlockInv, NEW f \in Files, NEW size, Ending(f, size)
    PROVE  BlockInv'
  <1>1. /\ ip' \in [Files -> Inode] /\ dinode' \in [Files -> Inode]
        /\ call' \in [Files -> CallType]
        /\ \A g \in Files : ip'[g].addrs = ip[g].addrs
    BY EndFacts
  <1>2. data' = data /\ bitmap' = bitmap
    BY DEF Ending
  <1>3. Once(Lists(data, ip, Freed), bitmap)' /\ \A g \in Files : CallOK(g)'
    BY EndsMemory
  <1>4. CASE \E g \in Files \ {f} : InOp(g)
    <2>1. UNCHANGED <<disk, logged>>
      BY <1>4 DEF Ending, end_op
    <2>2. Types'
      BY <1>1, <1>2, <2>1 DEF BlockInv, Types, StoreType
    <2>3. IndirectLogged'
      BY <1>1, <1>2, <2>1 DEF BlockInv, IndirectLogged
    <2>4. DiskOK'
      BY <2>1, DiskStays DEF BlockInv
    <2> QED BY <1>3, <2>2, <2>3, <2>4 DEF BlockInv
  <1>5. CASE \A g \in Files \ {f} : ~ InOp(g)
    <2>1. /\ StoreType(disk.bitmap, disk.data, disk.dinode)'
          /\ DiskOK' /\ logged' = {}
          /\ \A g \in Files : ip[g].addrs[NDIRECT] # 0 =>
               disk'.data[ip[g].addrs[NDIRECT]] = data[ip[g].addrs[NDIRECT]]
      BY <1>5, Commits
    <2>2. Types'
      BY <1>1, <1>2, <2>1 DEF BlockInv, Types, StoreType
    <2>3. IndirectLogged'
      BY <1>1, <1>2, <2>1 DEF IndirectLogged
    <2> QED BY <1>3, <2>1, <2>2, <2>3 DEF BlockInv
  <1> QED BY <1>4, <1>5

LEMMA WriteReturnEnds ==
    ASSUME BlockInv, NEW f \in Files, WriteReturn(f)
    PROVE  \E size : /\ size = IF ip[f].size >= call[f].off THEN ip[f].size ELSE call[f].off
                     /\ Ending(f, size)
  <1> DEFINE off == call[f].off
             max == MAXFILE * BSIZE
             m == Max({ip[f].size, off})
  <1>1. /\ call[f].op = "write" /\ iupdate(f, [ip[f] EXCEPT !.size = m])
        /\ UNCHANGED <<bitmap, data>> /\ end_op(f)
    BY DEF WriteReturn
  <1>2. call[f] \in CallType /\ ip[f] \in Inode /\ CallOK(f)
    BY DEF BlockInv, Types, StoreType
  <1>3. off \in Nat /\ ip[f].size \in Nat /\ max \in Nat
    BY <1>2, Sizes DEF CallType, Inode
  <1>4. /\ ip[f].size <= max /\ Filled(data, ip[f], ip[f].size) /\ Filled(data, ip[f], off)
    BY <1>1, <1>2 DEF CallOK
  <1>5. off <= max
    <2>1. /\ call[f].tot <= call[f].n /\ off + (call[f].n - call[f].tot) <= max
          /\ call[f].n \in Nat /\ call[f].tot \in Nat
      BY <1>1, <1>2 DEF CallOK, CallType
    <2> HIDE DEF off, max
    <2> QED BY <1>3, <2>1
  <1>6. m = IF ip[f].size >= off THEN ip[f].size ELSE off
    BY <1>3, MaxOfTwo
  <1> HIDE DEF off, max, m
  <1>7. m \in Nat /\ m <= max /\ Filled(data, ip[f], m)
    BY <1>3, <1>4, <1>5, <1>6
  <1>8. \A k \in 0..MAXFILE : At(f, k) = Listed(data, ip[f], k)
    <2>1. Freed[f] = 0
      BY <1>1 DEF Freed
    <2>2. \A k \in 0..MAXFILE : k \notin (NDIRECT + 1)..(NDIRECT + Freed[f])
      BY <2>1, Sizes
    <2> QED BY <2>2 DEF At
  <1>9. PICK size : size = m
    OBVIOUS
  <1>10. Ending(f, size)
    BY <1>1, <1>7, <1>8, <1>9 DEF Ending, InOp, max
  <1> QED BY <1>6, <1>9, <1>10 DEF off

LEMMA TruncReturnEnds ==
    ASSUME BlockInv, NEW f \in Files, TruncReturn(f)
    PROVE  Ending(f, 0)
  <1>1. /\ call[f].op = "trunc" /\ ip[f].addrs[NDIRECT] = 0
        /\ iupdate(f, [ip[f] EXCEPT !.size = 0])
        /\ UNCHANGED <<bitmap, data>> /\ end_op(f)
    BY DEF TruncReturn
  <1>2. Filled(data, ip[f], 0) /\ 0 <= MAXFILE * BSIZE
    BY Sizes DEF Filled
  <1>3. ASSUME NEW k \in 0..MAXFILE PROVE At(f, k) = Listed(data, ip[f], k)
    <2>1. CASE k <= NDIRECT
      <3>1. k \notin (NDIRECT + 1)..(NDIRECT + Freed[f])
        BY <2>1, Sizes
      <3> QED BY <3>1 DEF At
    <2>2. CASE ~ (k <= NDIRECT)
      <3>1. Listed(data, ip[f], k) = 0
        BY <1>1, <2>2 DEF Listed
      <3> QED BY <3>1 DEF At
    <2> QED BY <2>1, <2>2
  <1> QED BY <1>1, <1>2, <1>3 DEF Ending, InOp

(* After a crash memory is what the disk is. *)
LEMMA CrashRecovers ==
    ASSUME BlockInv, Crash
    PROVE  BlockInv'
  <1>1. /\ bitmap' = disk.bitmap /\ data' = disk.data /\ dinode' = disk.dinode
        /\ ip' = disk.dinode /\ logged' = {} /\ call' = [f \in Files |-> NoCall] /\ disk' = disk
    BY DEF Crash
  <1>2. Types'
    BY <1>1, NoCallType DEF BlockInv, Types, StoreType
  <1>3. DiskOK'
    BY <1>1, DiskStays DEF BlockInv
  <1>4. Freed' = NoneFreed'
    BY <1>1, NoCallType DEF Freed, NoneFreed
  <1>5. Once(Lists(data, ip, Freed), bitmap)'
    <2>1. Lists(data', ip', Freed') = Lists(disk'.data, disk'.dinode, NoneFreed')
      BY <1>1, <1>4
    <2> QED BY <1>1, <1>3, <2>1 DEF DiskOK
  <1>6. ASSUME NEW f \in Files PROVE CallOK(f)'
    <2>1. /\ disk'.dinode[f].size <= MAXFILE * BSIZE
          /\ Filled(disk'.data, disk'.dinode[f], disk'.dinode[f].size)
      BY <1>3 DEF DiskOK
    <2>2. call'[f].op = "none"
      BY <1>1, NoCallType
    <2> QED BY <1>1, <2>1, <2>2 DEF CallOK
  <1>7. IndirectLogged'
    BY <1>1 DEF IndirectLogged
  <1> QED BY <1>2, <1>3, <1>5, <1>6, <1>7 DEF BlockInv

(***************************************************************************)
(* The theorems.                                                           *)
(***************************************************************************)
LEMMA InitOK == Init => BlockInv
  <1> SUFFICES ASSUME Init PROVE BlockInv
    OBVIOUS
  <1>1. /\ bitmap = {} /\ data = [b \in Blocks |-> Zeros] /\ ip = [f \in Files |-> NewInode]
        /\ dinode = ip /\ logged = {} /\ call = [f \in Files |-> NoCall]
        /\ disk.bitmap = bitmap /\ disk.data = data /\ disk.dinode = ip
    BY DEF Init
  <1>2. /\ NewInode \in Inode /\ NewInode.size = 0
        /\ \A k \in 0..NDIRECT : NewInode.addrs[k] = 0
    BY Sizes DEF NewInode, Inode
  <1>3. Types
    BY <1>1, <1>2, ZerosType, NoCallType DEF Types, StoreType
  <1>4. ASSUME NEW f \in Files, NEW k \in 0..MAXFILE PROVE Listed(data, ip[f], k) = 0
    <2>1. ip[f] = NewInode /\ NDIRECT \in 0..NDIRECT
      BY <1>1, Sizes
    <2>2. CASE k <= NDIRECT
      BY <1>2, <2>1, <2>2, Sizes DEF Listed
    <2>3. CASE ~ (k <= NDIRECT)
      BY <1>2, <2>1, <2>3 DEF Listed
    <2> QED BY <2>2, <2>3
  <1>5. ASSUME NEW freed PROVE Once(Lists(data, ip, freed), bitmap)
    <2>1. \A x \in Spots : Lists(data, ip, freed)[x] = 0
      BY <1>4 DEF Lists, Spots
    <2> QED BY <1>1, <2>1 DEF Once
  <1>6. \A f \in Files : Filled(data, ip[f], 0) /\ ip[f].size = 0 /\ 0 <= MAXFILE * BSIZE
    BY <1>1, <1>2, Sizes DEF Filled
  <1>7. ASSUME NEW f \in Files PROVE CallOK(f)
    <2>1. call[f].op = "none" /\ ip[f] = dinode[f]
      BY <1>1, NoCallType
    <2> QED BY <1>6, <2>1 DEF CallOK
  <1>8. IndirectLogged
    BY <1>1 DEF IndirectLogged
  <1>9. DiskOK
    BY <1>1, <1>5, <1>6 DEF DiskOK
  <1> QED BY <1>3, <1>5, <1>7, <1>8, <1>9 DEF BlockInv

LEMMA StepOK ==
    ASSUME BlockInv, NEW f \in Files, Step(f)
    PROVE  BlockInv'
  <1>1. CASE Program(f) \/ TruncCall(f)
    BY <1>1, CallsQuiet
  <1>2. CASE Bmap(f)
    BY <1>2, BmapInodeAllocates, BmapIndirectAllocates, Allocates, BmapFullQuiet DEF Bmap
  <1>3. CASE Trunc(f)
    BY <1>3, TruncDirectFrees, TruncEntryFrees, TruncIndirectFrees, TruncReturnEnds,
       Ends DEF Trunc
  <1>4. CASE Reload(f) \/ ReadBlock(f) \/ ReadReturn(f)
    BY <1>4, ReloadQuiet, ReadBlockQuiet, ReadReturnQuiet
  <1>5. CASE WriteBlock(f) \/ WriteFails(f) \/ WriteReturn(f)
    BY <1>5, WriteBlockQuiet, WriteFailsQuiet, WriteReturnEnds, Ends
  <1> QED BY <1>1, <1>2, <1>3, <1>4, <1>5 DEF Step

LEMMA StutterOK ==
    ASSUME BlockInv, UNCHANGED vars
    PROVE  BlockInv'
  <1>1. UNCHANGED <<bitmap, data, dinode, logged, ip, disk, call>>
    BY DEF vars, cache
  <1>2. /\ data \in [Blocks -> Block] /\ logged \subseteq Blocks /\ call \in [Files -> CallType]
    BY DEF BlockInv, Types, StoreType
  <1> QED BY <1>1, <1>2, Quiet DEF SameIndirect

LEMMA Invariant == Spec => []BlockInv
  <1>1. BlockInv /\ [Next]_vars => BlockInv'
    BY StepOK, StutterOK, CrashRecovers, EvictQuiet DEF Next
  <1> QED BY <1>1, InitOK, PTL DEF Spec

(* Whatever calls overlap, fail half way, find the disk full or are cut    *)
(* off by a crash, a block is marked in the bitmap exactly when one file   *)
(* lists it, at one place.                                                 *)
THEOREM NoBlockShared == Spec => []BlocksOwned
  <1>1. BlockInv => BlocksOwned
    <2> SUFFICES ASSUME BlockInv PROVE BlocksOwned
      OBVIOUS
    <2>1. bitmap \subseteq Blocks /\ Once(Lists(data, ip, Freed), bitmap)
      BY DEF BlockInv, Types, StoreType
    <2>2. Owned(bitmap, data, ip, Freed)
      BY <2>1, OnceOwned
    <2> QED BY <2>2 DEF BlocksOwned, Freed
  <1> QED BY <1>1, Invariant, PTL

(* The same holds on the disk that a crash leaves at any time. *)
THEOREM DiskConsistent == Spec => []CrashSafe
  <1>1. BlockInv => CrashSafe
    <2> SUFFICES ASSUME BlockInv PROVE CrashSafe
      OBVIOUS
    <2>1. /\ disk.bitmap \subseteq Blocks
          /\ Once(Lists(disk.data, disk.dinode, NoneFreed), disk.bitmap)
      BY DEF BlockInv, Types, StoreType, DiskOK
    <2>2. Owned(disk.bitmap, disk.data, disk.dinode, NoneFreed)
      BY <2>1, OnceOwned
    <2> QED BY <2>2 DEF CrashSafe, NoneFreed
  <1> QED BY <1>1, Invariant, PTL
-----------------------------------------------------------------------------
(***************************************************************************)
(* The bytes of the files.                                                 *)
(***************************************************************************)
Home(dat, inode, k) == BlockAt(dat, inode, (k - 1) \div BSIZE)
Byte(dat, inode, k) == dat[Home(dat, inode, k)][(k - 1) % BSIZE]

(* The byte at k, as the next read finds it. *)
Shown(f, k) == IF k \in loose[f] THEN Unknown ELSE Byte(data, ip[f], k)

(* The bytes that the file has, or will have when its write returns. *)
Reach(f) == (1..ip[f].size) \union (IF call[f].op = "write" THEN 1..call[f].off ELSE {})

(* A byte that is not in the log is as on the disk, or loose. *)
Steady(f) ==
    call[f].op # "trunc" =>
      \A k \in Reach(f) :
        k \notin loose[f] /\ Home(data, ip[f], k) \notin logged =>
          Byte(data, ip[f], k) = disk.data[Home(data, ip[f], k)][(k - 1) % BSIZE]

(* What a read has delivered, of a file that does not change meanwhile. *)
Reading(f) ==
    call[f].op = "read" =>
      /\ call[f].old = Content(data, ip[f], loose[f])
      /\ Len(call[f].got) = call[f].tot
      /\ \A k \in 1..call[f].tot :
           call[f].old[call[f].off - call[f].tot + k] \in {call[f].got[k], Unknown}

(* What a write has stored over the old bytes; a copyin that failed has    *)
(* made m bytes uncertain, and the loop has ended with it.                 *)
Stored(f, m) ==
    LET c == call[f]
    IN  /\ c.off + m <= MAXFILE * BSIZE
        /\ c.tot < c.n => m = 0
        /\ \A k \in Reach(f) :
             Shown(f, k) = IF k \in (c.off - c.tot + 1)..c.off THEN c.byte
                           ELSE IF k \in (c.off + 1)..(c.off + m) THEN Unknown
                           ELSE c.old[k]

Writing(f) ==
    call[f].op = "write" =>
      /\ call[f].byte \in Bytes
      /\ Len(call[f].old) = ip[f].size
      /\ \E m \in 0..(MAXFILE * BSIZE) : Stored(f, m)

Views(f) == Steady(f) /\ Reading(f) /\ Writing(f)

(* The contents that the disk keeps, with the bytes that are uncertain. *)
Lost(c) == {k \in DOMAIN c : c[k] = Unknown}

Saved ==
    disk.content = [f \in Files |-> Content(disk.data, disk.dinode[f], Lost(disk.content[f]))]

ByteInv ==
    /\ BlockInv
    /\ DOMAIN loose = Files
    /\ \A f \in Files : Views(f)
    /\ Saved

(* What a caller sees of a file, and a step that does not change it. *)
Now(f) == IF InOp(f) THEN call[f].old ELSE Content(data, ip[f], loose[f])

Unseen == disk' = disk /\ \A g \in Files : Now(g)' = Now(g)

(* A byte within reach has a block, which no file has as its indirect one. *)
LEMMA Reached ==
    ASSUME BlockInv, NEW f \in Files, call[f].op # "trunc", NEW k \in Reach(f)
    PROVE  /\ k \in Nat /\ k - 1 \in Nat
           /\ (k - 1) \div BSIZE \in Nat /\ (k - 1) \div BSIZE < MAXFILE
           /\ (k - 1) % BSIZE \in 0..(BSIZE - 1)
           /\ Home(data, ip[f], k) # 0 /\ Home(data, ip[f], k) \in bitmap
           /\ Home(data, ip[f], k) \in Blocks
           /\ \A g \in Files : Home(data, ip[f], k) # ip[g].addrs[NDIRECT]
  <1> DEFINE max == MAXFILE * BSIZE
             bn == (k - 1) \div BSIZE
  <1>1. call[f] \in CallType /\ ip[f] \in Inode /\ CallOK(f) /\ bitmap \subseteq Blocks
    BY DEF BlockInv, Types, StoreType
  <1>2. /\ call[f].off \in Nat /\ call[f].n \in Nat /\ call[f].tot \in Nat
        /\ ip[f].size \in Nat /\ max \in Nat
    <2>1. max \in Nat
      BY Sizes
    <2> HIDE DEF max
    <2> QED BY <1>1, <2>1 DEF CallType, Inode
  <1>3. /\ ip[f].size <= max /\ Filled(data, ip[f], ip[f].size)
        /\ call[f].op = "write" => /\ call[f].off + (call[f].n - call[f].tot) <= max
                                   /\ call[f].tot <= call[f].n
                                   /\ Filled(data, ip[f], call[f].off)
    BY <1>1 DEF CallOK
  <1> HIDE DEF max
  <1>4. k \in 1..ip[f].size \/ (call[f].op = "write" /\ k \in 1..call[f].off)
    BY DEF Reach
  <1>5. k \in Nat /\ k - 1 \in Nat /\ k - 1 < max
    BY <1>2, <1>3, <1>4
  <1>6. bn \in Nat /\ bn < MAXFILE /\ (k - 1) % BSIZE \in 0..(BSIZE - 1)
    BY <1>5, DivMod, BlockBound DEF max
  <1>7. Home(data, ip[f], k) # 0
    <2>1. CASE k \in 1..ip[f].size
      <3>1. k - 1 \in 0..(ip[f].size - 1)
        BY <1>2, <2>1
      <3> QED BY <1>3, <3>1 DEF Filled, Home
    <2>2. CASE call[f].op = "write" /\ k \in 1..call[f].off
      <3>1. k - 1 \in 0..(call[f].off - 1)
        BY <1>2, <2>2
      <3> QED BY <1>3, <2>2, <3>1 DEF Filled, Home
    <2> QED BY <1>4, <2>1, <2>2
  <1> HIDE DEF bn
  <1>8. /\ BlockAt(data, ip[f], bn) \in bitmap \union {0}
        /\ BlockAt(data, ip[f], bn) # 0 =>
             \A g \in Files : BlockAt(data, ip[f], bn) # ip[g].addrs[NDIRECT]
    BY <1>6, Found
  <1>9. Home(data, ip[f], k) = BlockAt(data, ip[f], bn)
    BY DEF Home, bn
  <1> QED BY <1>1, <1>5, <1>6, <1>7, <1>8, <1>9 DEF bn

(* No block is two parts of the files. *)
LEMMA OneHome ==
    ASSUME BlockInv, NEW f \in Files, NEW g \in Files,
           call[f].op # "trunc", call[g].op # "trunc",
           NEW bn \in Nat, NEW bm \in Nat, bn < MAXFILE, bm < MAXFILE,
           BlockAt(data, ip[f], bn) # 0, BlockAt(data, ip[g], bm) = BlockAt(data, ip[f], bn)
    PROVE  f = g /\ bn = bm
  <1> DEFINE L == Lists(data, ip, Freed)
  <1>1. /\ <<f, SpotOf(bn)>> \in Spots /\ <<g, SpotOf(bm)>> \in Spots
        /\ L[<<f, SpotOf(bn)>>] = BlockAt(data, ip[f], bn)
        /\ L[<<g, SpotOf(bm)>>] = BlockAt(data, ip[g], bm)
    BY Found
  <1>2. Once(L, bitmap)
    BY DEF BlockInv
  <1> HIDE DEF L
  <1>3. <<f, SpotOf(bn)>> = <<g, SpotOf(bm)>>
    BY <1>1, <1>2 DEF Once
  <1>4. f = g /\ SpotOf(bn) = SpotOf(bm)
    BY <1>3
  <1> QED BY <1>4, Sizes DEF SpotOf

(* Content, byte by byte. *)
LEMMA ContentIs ==
    ASSUME NEW dat, NEW inode, NEW unknown,
           \A k \in 1..inode.size : Home(dat, inode, k) \in Blocks
    PROVE  Content(dat, inode, unknown) =
             [k \in 1..inode.size |-> IF k \in unknown THEN Unknown ELSE Byte(dat, inode, k)]
  BY DEF Content, Home, Byte

LEMMA ContentOf ==
    ASSUME BlockInv, NEW f \in Files, call[f].op # "trunc"
    PROVE  Content(data, ip[f], loose[f]) = [k \in 1..ip[f].size |-> Shown(f, k)]
  <1>1. PICK dat, inode, unknown : dat = data /\ inode = ip[f] /\ unknown = loose[f]
    OBVIOUS
  <1>2. \A k \in 1..inode.size : Home(dat, inode, k) \in Blocks
    BY <1>1, Reached DEF Reach
  <1>3. Content(dat, inode, unknown) =
          [k \in 1..inode.size |-> IF k \in unknown THEN Unknown ELSE Byte(dat, inode, k)]
    BY <1>2, ContentIs
  <1> QED BY <1>1, <1>3 DEF Shown

(***************************************************************************)
(* Files whose bytes a step leaves alone.                                  *)
(***************************************************************************)
Similar(g) ==
    /\ Reach(g)' \subseteq Reach(g)
    /\ loose'[g] = loose[g]
    /\ \A k \in Reach(g) :
         /\ Home(data', ip'[g], k) = Home(data, ip[g], k)
         /\ k \in loose[g] \/ Byte(data', ip'[g], k) = Byte(data, ip[g], k)

LEMMA SteadyKept ==
    ASSUME NEW g \in Files, Steady(g), Similar(g), call[g].op # "trunc",
           logged \subseteq logged', disk'.data = disk.data
    PROVE  Steady(g)'
  <1> SUFFICES ASSUME NEW k \in Reach(g)', k \notin loose'[g], Home(data', ip'[g], k) \notin logged'
               PROVE  Byte(data', ip'[g], k) = disk'.data[Home(data', ip'[g], k)][(k - 1) % BSIZE]
    BY DEF Steady
  <1>1. /\ k \in Reach(g) /\ k \notin loose[g]
        /\ Home(data', ip'[g], k) = Home(data, ip[g], k)
        /\ Byte(data', ip'[g], k) = Byte(data, ip[g], k)
    BY DEF Similar
  <1>2. Byte(data, ip[g], k) = disk.data[Home(data, ip[g], k)][(k - 1) % BSIZE]
    BY <1>1 DEF Steady
  <1> QED BY <1>1, <1>2

LEMMA ContentKept ==
    ASSUME BlockInv, NEW g \in Files, Similar(g), call[g].op # "trunc",
           ip'[g].size = ip[g].size
    PROVE  Content(data', ip'[g], loose'[g]) = Content(data, ip[g], loose[g])
  <1>1. \A k \in 1..ip[g].size : k \in Reach(g)
    BY DEF Reach
  <1>2. \A k \in 1..ip[g].size : Home(data, ip[g], k) \in Blocks
    BY <1>1, Reached
  <1>3. \A k \in 1..ip'[g].size : Home(data', ip'[g], k) \in Blocks
    BY <1>1, <1>2 DEF Similar
  <1>4. \A k \in 1..ip[g].size : k \in loose[g] \/ Byte(data', ip'[g], k) = Byte(data, ip[g], k)
    BY <1>1 DEF Similar
  <1>5. loose'[g] = loose[g]
    BY DEF Similar
  <1>6. PICK dat, inode, unknown : dat = data' /\ inode = ip'[g] /\ unknown = loose'[g]
    OBVIOUS
  <1>7. PICK dat0, inode0 : dat0 = data /\ inode0 = ip[g]
    OBVIOUS
  <1>8. \A k \in 1..inode.size : Home(dat, inode, k) \in Blocks
    BY <1>3, <1>6
  <1>9. \A k \in 1..inode0.size : Home(dat0, inode0, k) \in Blocks
    BY <1>2, <1>7
  <1>10. Content(dat, inode, unknown) =
           [k \in 1..inode.size |-> IF k \in unknown THEN Unknown ELSE Byte(dat, inode, k)]
    BY <1>8, ContentIs
  <1>11. Content(dat0, inode0, unknown) =
           [k \in 1..inode0.size |-> IF k \in unknown THEN Unknown ELSE Byte(dat0, inode0, k)]
    BY <1>9, ContentIs
  <1>12. \A k \in 1..inode0.size : k \in unknown \/ Byte(dat, inode, k) = Byte(dat0, inode0, k)
    BY <1>4, <1>5, <1>6, <1>7
  <1>13. Content(dat, inode, unknown) = Content(dat0, inode0, unknown)
    BY <1>6, <1>7, <1>10, <1>11, <1>12
  <1> QED BY <1>5, <1>6, <1>7, <1>13

LEMMA CallViewKept ==
    ASSUME BlockInv, NEW g \in Files, Reading(g), Writing(g), Similar(g),
           ip'[g].size = ip[g].size, call'[g] = call[g], call[g].op # "trunc"
    PROVE  Reading(g)' /\ Writing(g)'
  <1>1. Content(data', ip'[g], loose'[g]) = Content(data, ip[g], loose[g])
    BY ContentKept
  <1>2. Reading(g)'
    BY <1>1 DEF Reading
  <1>3. Reach(g)' = Reach(g)
    BY DEF Reach
  <1>4. ASSUME NEW m, Stored(g, m) PROVE Stored(g, m)'
    <2>1. \A k \in Reach(g) : Shown(g, k)' = Shown(g, k)
      BY DEF Similar, Shown
    <2> QED BY <1>3, <1>4, <2>1 DEF Stored
  <1>5. Writing(g)'
    BY <1>4 DEF Writing
  <1> QED BY <1>2, <1>5

LEMMA ViewsKept ==
    ASSUME BlockInv, NEW g \in Files, Views(g),
           call'[g] = call[g], ip'[g].size = ip[g].size, call[g].op # "trunc" => Similar(g),
           logged \subseteq logged', disk'.data = disk.data
    PROVE  Views(g)' /\ Now(g)' = Now(g)
  <1>1. InOp(g)' <=> InOp(g)
    BY DEF InOp
  <1>2. CASE call[g].op = "trunc"
    BY <1>1, <1>2 DEF Views, Steady, Reading, Writing, Now, InOp
  <1>3. CASE call[g].op # "trunc"
    <2>1. Views(g)'
      BY <1>3, SteadyKept, CallViewKept DEF Views
    <2>2. Content(data', ip'[g], loose'[g]) = Content(data, ip[g], loose[g])
      BY <1>3, ContentKept
    <2> QED BY <1>1, <2>1, <2>2 DEF Now
  <1> QED BY <1>2, <1>3

LEMMA SavedKept ==
    ASSUME Saved, disk' = disk
    PROVE  Saved'
  BY DEF Saved

LEMMA SimilarSame ==
    ASSUME NEW g \in Files, data' = data, ip'[g] = ip[g], loose'[g] = loose[g],
           Reach(g)' \subseteq Reach(g)
    PROVE  Similar(g)
  BY DEF Similar, Home, Byte

LEMMA SameReach ==
    ASSUME NEW g \in Files, ip'[g].size = ip[g].size, call'[g] = call[g]
    PROVE  Reach(g)' = Reach(g)
  BY DEF Reach

(* A step of a call that changes nothing else. *)
LEMMA CallOnly ==
    ASSUME ByteInv, BlockInv', NEW f \in Files, Views(f)', Now(f)' = Now(f),
           UNCHANGED <<data, ip, disk, loose, logged>>,
           \A g \in Files : g # f => call'[g] = call[g]
    PROVE  ByteInv' /\ Unseen
  <1>1. ASSUME NEW g \in Files, g # f PROVE Views(g)' /\ Now(g)' = Now(g)
    <2>1. Reach(g)' = Reach(g)
      BY <1>1, SameReach
    <2>2. Similar(g)
      BY <2>1, SimilarSame
    <2> QED BY <1>1, <2>2, ViewsKept DEF ByteInv
  <1>2. Saved'
    BY SavedKept DEF ByteInv
  <1> QED BY <1>1, <1>2 DEF ByteInv, Unseen

(* Views(f) when the call on f has ended or begins. *)
LEMMA SteadyCall ==
    ASSUME ByteInv, NEW f \in Files, UNCHANGED <<data, ip, disk, loose, logged>>,
           call[f].op # "trunc", Reach(f)' \subseteq Reach(f)
    PROVE  Steady(f)'
  <1>1. Similar(f)
    BY SimilarSame
  <1> QED BY <1>1, SteadyKept DEF ByteInv, Views

LEMMA BeginViews ==
    ASSUME ByteInv, NEW f \in Files, NEW op \in {"read", "write", "trunc"},
           NEW off \in Nat, NEW n \in Nat, NEW byte \in Nat, Begin(f, op, off, n, byte),
           BlockInv', off <= MAXFILE * BSIZE,
           op # "trunc" => off <= ip[f].size, op = "write" => byte \in Bytes
    PROVE  ByteInv' /\ Unseen
  <1> DEFINE old == Content(data, ip[f], loose[f])
             new == [op |-> op, off |-> off, n |-> n, tot |-> 0, byte |-> byte,
                     old |-> old, got |-> <<>>]
  <1>1. /\ call[f] = NoCall /\ call' = [call EXCEPT ![f] = new]
        /\ UNCHANGED <<data, ip, disk, loose, logged>>
    BY DEF Begin, cache
  <1>2. /\ call \in [Files -> CallType] /\ ip[f].size \in Nat
    BY DEF ByteInv, BlockInv, Types, StoreType, Inode
  <1>3. call'[f] = new /\ \A g \in Files : g # f => call'[g] = call[g]
    BY <1>1, <1>2
  <1>4. /\ new.op = op /\ new.off = off /\ new.n = n /\ new.tot = 0 /\ new.byte = byte
        /\ new.old = old /\ new.got = <<>>
    OBVIOUS
  <1> HIDE DEF new
  <1>5. call[f].op = "none"
    BY <1>1, NoCallType
  <1>6. Reach(f) = 1..ip[f].size /\ (op # "trunc" => Reach(f)' = Reach(f))
    <2>1. Reach(f) = 1..ip[f].size
      BY <1>5 DEF Reach
    <2>2. Reach(f)' = (1..ip[f].size) \union (IF op = "write" THEN 1..off ELSE {})
      BY <1>1, <1>3, <1>4 DEF Reach
    <2>3. op # "trunc" => \A k \in 1..off : k \in 1..ip[f].size
      BY <1>2
    <2> QED BY <2>1, <2>2, <2>3
  <1>7. Steady(f)'
    <2>1. CASE op = "trunc"
      BY <1>3, <1>4, <2>1 DEF Steady
    <2>2. CASE op # "trunc"
      BY <1>1, <1>5, <1>6, <2>2, SteadyCall
    <2> QED BY <2>1, <2>2
  <1>8. Reading(f)'
    BY <1>1, <1>3, <1>4 DEF Reading
  <1>9. old = [k \in 1..ip[f].size |-> Shown(f, k)]
    BY <1>5, ContentOf DEF ByteInv
  <1>10. Writing(f)'
    <2> SUFFICES ASSUME op = "write"
                 PROVE  /\ byte \in Bytes /\ Len(old) = ip[f].size
                        /\ 0 \in 0..(MAXFILE * BSIZE) /\ Stored(f, 0)'
      BY <1>1, <1>3, <1>4 DEF Writing
    <2>1. Len(old) = ip[f].size
      BY <1>2, <1>9
    <2>2. 0 \in 0..(MAXFILE * BSIZE) /\ off + 0 <= MAXFILE * BSIZE
      BY Sizes
    <2>3. ASSUME NEW k \in Reach(f)
          PROVE  Shown(f, k)' = old[k] /\ k \notin (off + 1)..off /\ k \notin (off + 1)..(off + 0)
      BY <1>1, <1>6, <1>9 DEF Shown, Byte, Home
    <2> HIDE DEF old
    <2>4. off - 0 + 1 = off + 1
      OBVIOUS
    <2>5. Stored(f, 0)'
      BY <1>3, <1>4, <1>6, <2>2, <2>3, <2>4 DEF Stored
    <2> QED BY <2>1, <2>2, <2>5
  <1>11. Now(f)' = Now(f)
    <2>1. Now(f) = old
      BY <1>5 DEF Now, InOp
    <2>2. Now(f)' = old
      BY <1>1, <1>3, <1>4 DEF Now
    <2> QED BY <2>1, <2>2
  <1> QED BY <1>1, <1>3, <1>7, <1>8, <1>10, <1>11, CallOnly DEF Views

LEMMA CallsBegin ==
    ASSUME ByteInv, BlockInv', NEW f \in Files, Program(f) \/ TruncCall(f)
    PROVE  ByteInv' /\ Unseen
  <1>1. ip[f].size \in Nat
    BY DEF ByteInv, BlockInv, Types, StoreType, Inode
  <1>2. ASSUME NEW off \in 0..(MAXFILE * BSIZE), NEW n \in Lens, ReadCall(f, off, n)
        PROVE  ByteInv' /\ Unseen
    <2>1. off \in Nat /\ n \in Nat /\ off <= ip[f].size /\ off <= MAXFILE * BSIZE
      BY <1>2, NoWrap, Sizes DEF ReadCall
    <2> DEFINE m == IF (off + n) % UINT > ip[f].size THEN ip[f].size - off ELSE n
    <2>2. m \in Nat
      BY <1>1, <2>1
    <2>3. Begin(f, "read", off, m, 0)
      BY <1>2 DEF ReadCall
    <2> HIDE DEF m
    <2> QED BY <2>1, <2>2, <2>3, BeginViews
  <1>3. ASSUME NEW off \in 0..(MAXFILE * BSIZE), NEW n \in Lens, NEW b \in Bytes,
               WriteCall(f, off, n, b)
        PROVE  ByteInv' /\ Unseen
    <2>1. off \in Nat /\ n \in Nat /\ off <= MAXFILE * BSIZE
      BY <1>3, NoWrap, Sizes DEF WriteCall
    <2>2. off <= ip[f].size /\ Begin(f, "write", off, n, b)
      BY <1>3 DEF WriteCall
    <2>3. b \in Nat
      BY BlockAssumption
    <2> QED BY <2>1, <2>2, <2>3, BeginViews
  <1>4. CASE TruncCall(f)
    <2>1. Begin(f, "trunc", 0, BSIZE, 0) /\ BSIZE \in Nat /\ 0 <= MAXFILE * BSIZE
      BY <1>4, Sizes DEF TruncCall
    <2> QED BY <2>1, BeginViews
  <1> QED BY <1>2, <1>3, <1>4 DEF Program

LEMMA ReadReturnViews ==
    ASSUME ByteInv, BlockInv', NEW f \in Files, ReadReturn(f)
    PROVE  ByteInv' /\ Unseen
  <1>1. /\ call[f].op = "read" /\ call' = [call EXCEPT ![f] = NoCall]
        /\ UNCHANGED <<data, ip, disk, loose, logged>>
    BY DEF ReadReturn, cache
  <1>2. call \in [Files -> CallType]
    BY DEF ByteInv, BlockInv, Types
  <1>3. /\ call'[f].op = "none" /\ \A g \in Files : g # f => call'[g] = call[g]
    BY <1>1, <1>2, NoCallType
  <1>4. Reach(f)' \subseteq Reach(f)
    BY <1>1, <1>3 DEF Reach
  <1>5. Steady(f)'
    BY <1>1, <1>4, SteadyCall
  <1>6. Views(f)'
    BY <1>3, <1>5 DEF Views, Reading, Writing
  <1>7. Now(f)' = Now(f)
    BY <1>1, <1>3 DEF Now, InOp
  <1> QED BY <1>1, <1>3, <1>6, <1>7, CallOnly

LEMMA BmapFullViews ==
    ASSUME ByteInv, BlockInv', NEW f \in Files, BmapFull(f)
    PROVE  ByteInv' /\ Unseen
  <1> DEFINE c == call[f]
             new == [c EXCEPT !.n = c.tot]
  <1>1. /\ Looping(f) /\ Mapped(f) = 0 /\ call' = [call EXCEPT ![f] = new]
        /\ UNCHANGED <<data, ip, disk, loose, logged>>
    BY DEF BmapFull, cache
  <1>2. call \in [Files -> CallType] /\ c.op = "write" /\ c \in CallType /\ c.tot \in Nat
    BY <1>1, InLoop DEF ByteInv, BlockInv, Types, CallType
  <1>3. /\ new.op = "write" /\ new.off = c.off /\ new.tot = c.tot /\ new.n = c.tot
        /\ new.byte = c.byte /\ new.old = c.old
    BY <1>2 DEF CallType
  <1> HIDE DEF new, c
  <1>4. /\ call'[f] = new /\ \A g \in Files : g # f => call'[g] = call[g]
    BY <1>1, <1>2
  <1>5. Reach(f)' = Reach(f)
    BY <1>1, <1>2, <1>3, <1>4 DEF Reach, c
  <1>6. Steady(f)'
    BY <1>1, <1>2, <1>5, SteadyCall DEF c
  <1>7. Reading(f)'
    BY <1>3, <1>4 DEF Reading
  <1>8. ASSUME NEW m, Stored(f, m) PROVE Stored(f, m)'
    <2>1. \A k \in Reach(f) : Shown(f, k)' = Shown(f, k)
      BY <1>1 DEF Shown, Byte, Home
    <2>2. ~ (new.tot < new.n)
      BY <1>2, <1>3
    <2> QED BY <1>3, <1>4, <1>5, <1>8, <2>1, <2>2 DEF Stored, c
  <1>9. Writing(f)'
    BY <1>1, <1>2, <1>3, <1>4, <1>8 DEF ByteInv, Views, Writing, c
  <1>10. Now(f)' = Now(f)
    BY <1>2, <1>3, <1>4 DEF Now, InOp, c
  <1> QED BY <1>1, <1>4, <1>6, <1>7, <1>9, <1>10, CallOnly DEF Views

LEMMA ReloadViews ==
    ASSUME ByteInv, BlockInv', NEW f \in Files, Reload(f)
    PROVE  ByteInv' /\ Unseen
  <1>1. /\ call[f] = NoCall /\ ip' = [ip EXCEPT ![f] = dinode[f]]
        /\ UNCHANGED <<data, dinode, logged, disk, loose, call>>
    BY DEF Reload, cache
  <1>2. ip[f] = dinode[f] /\ ip \in [Files -> Inode]
    BY <1>1, NoCallType DEF ByteInv, BlockInv, CallOK, InOp, Types, StoreType
  <1>3. ip' = ip
    BY <1>1, <1>2
  <1>4. Reach(f)' = Reach(f)
    BY <1>1, <1>3, SameReach
  <1>5. Views(f)' /\ Now(f)' = Now(f)
    <2>1. Similar(f)
      BY <1>1, <1>3, <1>4, SimilarSame
    <2> QED BY <1>1, <1>3, <2>1, ViewsKept DEF ByteInv
  <1> QED BY <1>1, <1>3, <1>5, CallOnly

(* The cache forgets bytes that are loose, and no others. *)
LEMMA EvictViews ==
    ASSUME ByteInv, BlockInv', NEW b \in Blocks, Evict(b)
    PROVE  ByteInv' /\ Unseen
  <1>1. /\ b \notin logged /\ data[b] # disk.data[b] /\ data' = [data EXCEPT ![b] = disk.data[b]]
        /\ UNCHANGED <<logged, ip, disk, loose, call>>
    BY DEF Evict
  <1>2. data \in [Blocks -> Block] /\ bitmap \subseteq Blocks
    BY DEF ByteInv, BlockInv, Types, StoreType
  <1>3. data'[b] = disk.data[b] /\ \A c \in Blocks : c # b => data'[c] = data[c]
    BY <1>1, <1>2
  <1>4. ASSUME NEW g \in Files, ip[g].addrs[NDIRECT] # 0
        PROVE  data'[ip[g].addrs[NDIRECT]] = data[ip[g].addrs[NDIRECT]]
    <2>1. ip[g].addrs[NDIRECT] \in Blocks
      BY <1>2, <1>4, Indirect DEF ByteInv
    <2>2. ip[g].addrs[NDIRECT] # b
      BY <1>1, <1>4 DEF ByteInv, BlockInv, IndirectLogged
    <2> QED BY <1>3, <2>1, <2>2
  <1>5. ASSUME NEW g \in Files, call[g].op # "trunc" PROVE Similar(g)
    <2>1. Reach(g)' = Reach(g)
      BY <1>1, SameReach
    <2>2. ASSUME NEW k \in Reach(g)
          PROVE  Home(data', ip'[g], k) = Home(data, ip[g], k) /\ Home(data, ip[g], k) \in Blocks
      <3>1. Home(data, ip[g], k) \in Blocks
        BY <1>5, Reached DEF ByteInv
      <3>2. \A bn : BlockAt(data', ip[g], bn) = BlockAt(data, ip[g], bn)
        BY <1>4 DEF BlockAt
      <3> QED BY <1>1, <3>1, <3>2 DEF Home
    <2>3. ASSUME NEW k \in Reach(g), k \notin loose[g]
          PROVE  Byte(data', ip'[g], k) = Byte(data, ip[g], k)
      <3>1. CASE Home(data, ip[g], k) = b
        <4>1. Byte(data, ip[g], k) = disk.data[b][(k - 1) % BSIZE]
          BY <1>1, <1>5, <2>3, <3>1 DEF ByteInv, Views, Steady
        <4> QED BY <1>3, <2>2, <3>1, <4>1 DEF Byte
      <3>2. CASE Home(data, ip[g], k) # b
        BY <1>3, <2>2, <3>2 DEF Byte
      <3> QED BY <3>1, <3>2
    <2> QED BY <1>1, <2>1, <2>2, <2>3 DEF Similar
  <1>6. \A g \in Files : Views(g)' /\ Now(g)' = Now(g)
    BY <1>1, <1>5, ViewsKept DEF ByteInv
  <1> QED BY <1>1, <1>6, SavedKept DEF ByteInv, Unseen

(* A block that is allocated was in no file. *)
LEMMA BmapViews ==
    ASSUME ByteInv, BlockInv', NEW f \in Files, NEW s \in 0..MAXFILE, NEW b \in Blocks \ bitmap,
           Allocation(f, s, b), loose' = loose
    PROVE  ByteInv' /\ Unseen
  <1>1. ASSUME NEW g \in Files, call[g].op # "trunc" PROVE Similar(g)
    <2>1. call'[g] = call[g] /\ ip'[g].size = ip[g].size
      BY DEF Allocation
    <2>2. Reach(g)' = Reach(g)
      BY <2>1, SameReach
    <2>3. ASSUME NEW k \in Reach(g)
          PROVE  /\ Home(data', ip'[g], k) = Home(data, ip[g], k)
                 /\ Byte(data', ip'[g], k) = Byte(data, ip[g], k)
      <3> DEFINE bn == (k - 1) \div BSIZE
                 t == SpotOf(bn)
      <3>1. /\ bn \in Nat /\ bn < MAXFILE /\ Home(data, ip[g], k) # 0
            /\ Home(data, ip[g], k) \in bitmap
            /\ \A h \in Files : Home(data, ip[g], k) # ip[h].addrs[NDIRECT]
        BY <1>1, Reached DEF ByteInv
      <3>2. Home(data, ip[g], k) = BlockAt(data, ip[g], bn)
            /\ Home(data', ip'[g], k) = BlockAt(data', ip'[g], bn)
        BY DEF Home
      <3> HIDE DEF bn
      <3>3. /\ BlockAt(data, ip[g], bn) = Listed(data, ip[g], t)
            /\ BlockAt(data', ip'[g], bn) = Listed(data', ip'[g], t)
            /\ t \in 0..MAXFILE
        BY <3>1, BlockIsListed
      <3> HIDE DEF t
      <3>4. Listed(data', ip'[g], t) = Listed(data, ip[g], t)
        <4>1. CASE g # f
          BY <3>3, <4>1 DEF Allocation
        <4>2. CASE g = f
          <5>1. t # s
            BY <3>1, <3>2, <3>3, <4>2 DEF Allocation
          <5> QED BY <3>3, <4>2, <5>1 DEF Allocation
        <4> QED BY <4>1, <4>2
      <3>5. data'[Home(data, ip[g], k)] = data[Home(data, ip[g], k)]
        BY <3>1 DEF Allocation
      <3> QED BY <3>2, <3>3, <3>4, <3>5 DEF Byte
    <2> QED BY <2>2, <2>3 DEF Similar
  <1>2. /\ \A g \in Files : call'[g] = call[g] /\ ip'[g].size = ip[g].size
        /\ logged \subseteq logged' /\ disk' = disk
    BY DEF Allocation
  <1>3. \A g \in Files : Views(g)' /\ Now(g)' = Now(g)
    BY <1>1, <1>2, ViewsKept DEF ByteInv
  <1> QED BY <1>2, <1>3, SavedKept DEF ByteInv, Unseen

LEMMA TruncViews ==
    ASSUME ByteInv, BlockInv', NEW f \in Files,
           TruncDirect(f) \/ TruncEntry(f) \/ TruncIndirect(f)
    PROVE  ByteInv' /\ Unseen
  <1>1. /\ call[f].op = "trunc" /\ UNCHANGED <<data, logged, disk, loose>>
        /\ \A g \in Files : g # f => call'[g] = call[g] /\ ip'[g] = ip[g]
        /\ call'[f].op = "trunc" /\ call'[f].old = call[f].old
    <2>1. ip \in [Files -> Inode] /\ call \in [Files -> CallType]
      BY DEF ByteInv, BlockInv, Types, StoreType
    <2>2. CASE TruncDirect(f)
      BY <2>1, <2>2 DEF TruncDirect
    <2>3. CASE TruncEntry(f)
      <3>1. call[f].op = "trunc" /\ UNCHANGED <<data, logged, disk, loose, ip>>
            /\ call' = [call EXCEPT ![f].tot = @ + 1]
        BY <2>3 DEF TruncEntry
      <3>2. call'[f] = [call[f] EXCEPT !.tot = @ + 1]
        BY <2>1, <3>1
      <3>3. call'[f].op = "trunc" /\ call'[f].old = call[f].old
        BY <2>1, <3>1, <3>2 DEF CallType
      <3> QED BY <2>1, <3>1, <3>3
    <2>4. CASE TruncIndirect(f)
      BY <2>1, <2>4 DEF TruncIndirect
    <2> QED BY <2>2, <2>3, <2>4
  <1>2. ASSUME NEW g \in Files PROVE Views(g)' /\ Now(g)' = Now(g)
    <2>1. CASE g = f
      BY <1>1, <2>1 DEF Views, Steady, Reading, Writing, Now, InOp
    <2>2. CASE g # f
      <3>1. Reach(g)' = Reach(g)
        BY <1>1, <2>2, SameReach
      <3>2. Similar(g)
        BY <1>1, <2>2, <3>1, SimilarSame
      <3> QED BY <1>1, <2>2, <3>2, ViewsKept DEF ByteInv
    <2> QED BY <2>1, <2>2
  <1> QED BY <1>1, <1>2, SavedKept DEF ByteInv, Unseen

(* The bytes of the chunk are in the block that the call has found. *)
LEMMA ChunkHome ==
    ASSUME BlockInv, NEW f \in Files, Looping(f), NEW k \in Nat,
           k \in (call[f].off + 1)..(call[f].off + Chunk(f))
    PROVE  /\ k - 1 \in Nat
           /\ (k - 1) \div BSIZE = Bn(f)
           /\ (k - 1) % BSIZE = (call[f].off % BSIZE) + (k - 1 - call[f].off)
           /\ Home(data, ip[f], k) = Mapped(f)
  <1> DEFINE off == call[f].off
             r == off % BSIZE
             ch == Chunk(f)
             x == k - 1
  <1>1. call[f] \in CallType /\ ch \in Nat /\ ch <= BSIZE - r
    BY InLoop
  <1>2. off \in Nat
    BY <1>1 DEF CallType
  <1>3. r \in 0..(BSIZE - 1)
    BY <1>2, DivMod
  <1>4. x \in Nat /\ off <= x /\ x < off + ch
    BY <1>1, <1>2
  <1> HIDE DEF off, r, ch, x
  <1>5. x < off + (BSIZE - r)
    BY <1>1, <1>2, <1>3, <1>4, Sizes
  <1>6. x \div BSIZE = off \div BSIZE /\ x % BSIZE = r + (x - off)
    BY <1>2, <1>4, <1>5, SameBlock DEF r
  <1> QED BY <1>4, <1>6 DEF Bn, Mapped, Home, x, off, r

LEMMA Appended ==
    ASSUME NEW s \in Seq(Int), NEW t \in Seq(Int)
    PROVE  /\ Len(s \o t) = Len(s) + Len(t)
           /\ \A k \in 1..Len(s) : (s \o t)[k] = s[k]
           /\ \A i \in 1..Len(t) : (s \o t)[Len(s) + i] = t[i]
  OBVIOUS

LEMMA ReadBlockViews ==
    ASSUME ByteInv, BlockInv', NEW f \in Files, ReadBlock(f)
    PROVE  ByteInv' /\ Unseen
  <1> DEFINE c == call[f]
             at == c.off % BSIZE
             ch == Chunk(f)
             bytes == [k \in 1..Chunk(f) |-> data[Mapped(f)][at + k - 1]]
             new == [c EXCEPT !.got = @ \o bytes, !.tot = @ + Chunk(f), !.off = @ + Chunk(f)]
  <1>1. /\ Looping(f) /\ c.op = "read" /\ Mapped(f) # 0
        /\ call' = [call EXCEPT ![f] = new]
        /\ UNCHANGED <<data, logged, ip, disk, loose>>
    BY DEF ReadBlock, cache
  <1>2. /\ ch \in Nat /\ ch > 0 /\ ch <= c.n - c.tot /\ c \in CallType
        /\ call \in [Files -> CallType] /\ CallOK(f) /\ ip[f].size \in Nat
    BY <1>1, InLoop DEF ByteInv, BlockInv, Types, StoreType, Inode
  <1>3. /\ c.off \in Nat /\ c.n \in Nat /\ c.tot \in Nat /\ c.got \in Seq(Int)
    BY <1>2 DEF CallType
  <1>4. /\ new.op = "read" /\ new.off = c.off + ch /\ new.tot = c.tot + ch
        /\ new.old = c.old /\ new.got = c.got \o bytes
    BY <1>1, <1>2 DEF CallType
  <1>5. /\ c.tot <= c.off /\ c.off + (c.n - c.tot) <= ip[f].size
    BY <1>1, <1>2 DEF CallOK
  <1>6. /\ c.old = Content(data, ip[f], loose[f]) /\ Len(c.got) = c.tot
        /\ \A k \in 1..c.tot : c.old[c.off - c.tot + k] \in {c.got[k], Unknown}
    BY <1>1 DEF ByteInv, Views, Reading
  <1>7. \A p \in 1..ip[f].size : c.old[p] = Shown(f, p)
    <2>1. BlockInv /\ call[f].op # "trunc"
      BY <1>1 DEF ByteInv
    <2>2. c.old = [k \in 1..ip[f].size |-> Shown(f, k)]
      BY <1>6, <2>1, ContentOf
    <2> HIDE DEF c
    <2> QED BY <2>2
  <1>8. /\ bytes \in Seq(Int) /\ Len(bytes) = ch
        /\ \A k \in 1..ch : bytes[k] = data[Mapped(f)][at + k - 1]
    <2> HIDE DEF at
    <2>1. /\ Mapped(f) \in bitmap /\ bitmap \subseteq Blocks /\ data \in [Blocks -> Block]
          /\ ch <= BSIZE - (c.off % BSIZE)
      BY <1>1, InLoop DEF ByteInv, BlockInv, Types, StoreType
    <2>2. at \in 0..(BSIZE - 1)
      BY <1>3, DivMod DEF at
    <2> HIDE DEF ch
    <2>3. ASSUME NEW k \in 1..ch PROVE data[Mapped(f)][at + k - 1] \in Int
      <3>1. at + k - 1 \in 0..(BSIZE - 1)
        BY <1>2, <2>1, <2>2, Sizes DEF at
      <3>2. data[Mapped(f)] \in Block
        BY <2>1
      <3> QED BY <3>1, <3>2, ByteType, Zenon
    <2>4. bytes = [k \in 1..ch |-> data[Mapped(f)][at + k - 1]]
      BY DEF ch
    <2> HIDE DEF bytes
    <2> QED BY <1>2, <2>3, <2>4
  <1> HIDE DEF new, c, bytes, at, ch
  <1>9. /\ call'[f] = new /\ \A g \in Files : g # f => call'[g] = call[g]
    BY <1>1, <1>2
  <1>10. /\ Len(new.got) = new.tot
         /\ \A k \in 1..c.tot : new.got[k] = c.got[k]
         /\ \A i \in 1..ch : new.got[c.tot + i] = bytes[i]
    <2>1. PICK s, t : s = c.got /\ t = bytes
      OBVIOUS
    <2>2. s \in Seq(Int) /\ t \in Seq(Int) /\ Len(s) = c.tot /\ Len(t) = ch
      BY <1>3, <1>6, <1>8, <2>1
    <2>3. /\ Len(s \o t) = Len(s) + Len(t)
          /\ \A k \in 1..Len(s) : (s \o t)[k] = s[k]
          /\ \A i \in 1..Len(t) : (s \o t)[Len(s) + i] = t[i]
      BY <2>2, Appended
    <2>4. new.got = s \o t /\ new.tot = c.tot + ch
      BY <1>4, <2>1
    <2> QED BY <2>1, <2>2, <2>3, <2>4, Zenon
  <1>11. ASSUME NEW i \in 1..ch
         PROVE  c.old[c.off + i] \in {bytes[i], Unknown}
    <2> DEFINE p == c.off + i
    <2>1. /\ p \in 1..ip[f].size /\ p \in Nat /\ p \in (c.off + 1)..(c.off + ch)
          /\ p - 1 - c.off = i - 1
      BY <1>2, <1>3, <1>5
    <2> HIDE DEF p
    <2>2. (p - 1) % BSIZE = at + (i - 1) /\ Home(data, ip[f], p) = Mapped(f)
      BY <1>1, <2>1, ChunkHome DEF ByteInv, c, ch, at
    <2>3. at \in Nat
      BY <1>3, DivMod, Sizes DEF at
    <2>4. at + (i - 1) = at + i - 1
      BY <1>2, <2>3
    <2>5. Byte(data, ip[f], p) = bytes[i]
      BY <1>8, <2>2, <2>4 DEF Byte
    <2>6. c.old[p] \in {bytes[i], Unknown}
      BY <1>7, <2>1, <2>5 DEF Shown
    <2> QED BY <2>6 DEF p
  <1>12. ASSUME NEW k \in 1..new.tot
         PROVE  new.old[new.off - new.tot + k] \in {new.got[k], Unknown}
    <2>1. new.off - new.tot + k = c.off - c.tot + k
      BY <1>2, <1>3, <1>4
    <2>2. CASE k <= c.tot
      <3>1. k \in 1..c.tot
        BY <1>2, <1>3, <1>4, <2>2
      <3> QED BY <1>4, <1>6, <1>10, <2>1, <3>1
    <2>3. CASE k > c.tot
      <3>1. PICK i \in 1..ch : k = c.tot + i
        <4>1. k - c.tot \in 1..ch /\ k = c.tot + (k - c.tot)
          BY <1>2, <1>3, <1>4, <2>3
        <4> QED BY <4>1
      <3>2. c.off - c.tot + k = c.off + i
        BY <1>2, <1>3, <3>1
      <3> QED BY <1>4, <1>10, <1>11, <2>1, <3>1, <3>2
    <2>4. k <= c.tot \/ k > c.tot
      BY <1>3
    <2> QED BY <2>2, <2>3, <2>4
  <1>13. Reading(f)'
    BY <1>1, <1>4, <1>6, <1>9, <1>10, <1>12 DEF Reading
  <1>14. Reach(f)' = Reach(f)
    BY <1>1, <1>4, <1>9 DEF Reach, c
  <1>15. Steady(f)'
    BY <1>1, <1>14, SteadyCall DEF c
  <1>16. Writing(f)'
    BY <1>4, <1>9 DEF Writing
  <1>17. Now(f)' = Now(f)
    BY <1>1, <1>4, <1>9 DEF Now, InOp, c
  <1> QED BY <1>1, <1>9, <1>13, <1>15, <1>16, <1>17, CallOnly DEF Views

(* What copyin does to the bytes of the file. *)
LEMMA StoresBytes ==
    ASSUME BlockInv, NEW f \in Files, Looping(f), call[f].op = "write", Mapped(f) # 0,
           NEW j \in 0..Chunk(f), Store(f, j), ip' = ip,
           NEW k \in Nat, k - 1 \in Nat, (k - 1) \div BSIZE < MAXFILE, Home(data, ip[f], k) # 0
    PROVE  /\ Home(data', ip'[f], k) = Home(data, ip[f], k)
           /\ Byte(data', ip'[f], k) =
                IF k \in (call[f].off + 1)..(call[f].off + j) THEN call[f].byte
                ELSE Byte(data, ip[f], k)
  <1> DEFINE off == call[f].off
             at == off % BSIZE
             q == Bn(f)
             bn == (k - 1) \div BSIZE
             r == (k - 1) % BSIZE
             b == Mapped(f)
             x == k - 1
  <1>1. /\ \A c \in Blocks : c # b => data'[c] = data[c]
        /\ SameIndirect /\ b \in Blocks
    BY Stores
  <1>2. /\ q \in Nat /\ q < MAXFILE /\ call[f] \in CallType /\ Chunk(f) \in Nat
        /\ Chunk(f) <= BSIZE - at
    BY InLoop
  <1>3. data \in [Blocks -> Block] /\ off \in Nat /\ j \in Nat /\ bitmap \subseteq Blocks
    BY <1>2 DEF BlockInv, Types, StoreType, CallType
  <1>4. /\ at \in 0..(BSIZE - 1) /\ off = BSIZE * q + at
        /\ bn \in Nat /\ r \in 0..(BSIZE - 1) /\ x = BSIZE * bn + r
    BY <1>3, DivMod DEF Bn
  <1>5. Home(data', ip'[f], k) = Home(data, ip[f], k)
    <2>1. ip[f].addrs[NDIRECT] # 0 =>
            data'[ip[f].addrs[NDIRECT]] = data[ip[f].addrs[NDIRECT]]
      BY <1>1 DEF SameIndirect
    <2> QED BY <2>1 DEF Home, BlockAt
  <1>6. b = BlockAt(data, ip[f], q) /\ Home(data, ip[f], k) = BlockAt(data, ip[f], bn)
    BY DEF Mapped, Home
  <1>7. Home(data, ip[f], k) \in Blocks
    <2> HIDE DEF bn
    <2>1. BlockAt(data, ip[f], bn) \in bitmap \union {0}
      BY <1>4, Found DEF bn
    <2> QED BY <1>3, <1>6, <2>1
  <1>8. \A i \in 0..(BSIZE - 1) :
          data'[b][i] = IF i \in at..(at + j - 1) THEN call[f].byte ELSE data[b][i]
    <2> DEFINE blk == [i \in DOMAIN data[b] |->
                         IF i \in at..(at + j - 1) THEN call[f].byte ELSE data[b][i]]
    <2>1. data' = [data EXCEPT ![b] = blk]
      BY DEF Store
    <2>2. DOMAIN data[b] = 0..(BSIZE - 1)
      BY <1>1, <1>3 DEF Block
    <2>3. \A i \in 0..(BSIZE - 1) :
            blk[i] = IF i \in at..(at + j - 1) THEN call[f].byte ELSE data[b][i]
      BY <2>2
    <2> HIDE DEF blk, at, b
    <2>4. data'[b] = blk
      BY <1>1, <1>3, <2>1
    <2> QED BY <2>3, <2>4
  <1>9. Byte(data', ip'[f], k) = data'[Home(data, ip[f], k)][r]
        /\ Byte(data, ip[f], k) = data[Home(data, ip[f], k)][r]
    BY <1>5 DEF Byte
  <1>10. CASE bn = q
    <2>1. Home(data, ip[f], k) = b
      BY <1>6, <1>10
    <2>2. r \in at..(at + j - 1) <=> k \in (off + 1)..(off + j)
      <3> DEFINE p == BSIZE * q
      <3>1. p \in Int
        BY <1>2, Sizes
      <3>2. off = p + at /\ x = p + r
        BY <1>4, <1>10
      <3>3. x = k - 1 /\ at \in Int /\ r \in Int
        BY <1>4, Sizes
      <3> HIDE DEF p, at, r, off, x
      <3> QED BY <1>3, <3>1, <3>2, <3>3
    <2> HIDE DEF b, r, off
    <2> QED BY <1>4, <1>5, <1>8, <1>9, <2>1, <2>2 DEF off
  <1>11. CASE bn # q
    <2>1. Home(data, ip[f], k) # b
      <3>1. bn < MAXFILE /\ call[f].op # "trunc" /\ BlockAt(data, ip[f], bn) # 0
        BY <1>6
      <3> HIDE DEF bn, q, b
      <3> QED BY <1>2, <1>4, <1>6, <1>11, <3>1, OneHome
    <2>2. k \notin (off + 1)..(off + j)
      <3> SUFFICES ASSUME k \in (off + 1)..(off + j) PROVE FALSE
        OBVIOUS
      <3>1. k \in (off + 1)..(off + Chunk(f))
        BY <1>2, <1>3
      <3> QED BY <1>11, <3>1, ChunkHome
    <2> HIDE DEF b, r, off
    <2> QED BY <1>1, <1>5, <1>7, <1>9, <2>1, <2>2 DEF off
  <1> QED BY <1>10, <1>11

(* The store is not in another file. *)
LEMMA StoreElsewhere ==
    ASSUME BlockInv, NEW f \in Files, Looping(f), Mapped(f) # 0, NEW j, Store(f, j), ip' = ip,
           NEW g \in Files, g # f, call[g].op # "trunc", call'[g] = call[g], loose'[g] = loose[g]
    PROVE  Similar(g)
  <1>1. /\ \A c \in Blocks : c # Mapped(f) => data'[c] = data[c]
        /\ SameIndirect
    BY Stores
  <1>2. Reach(g)' = Reach(g)
    BY SameReach
  <1>3. \A bn : BlockAt(data', ip'[g], bn) = BlockAt(data, ip[g], bn)
    BY <1>1 DEF SameIndirect, BlockAt
  <1>4. Bn(f) \in Nat /\ Bn(f) < MAXFILE /\ call[f].op # "trunc"
    BY InLoop
  <1>5. ASSUME NEW k \in Reach(g)
        PROVE  /\ Home(data', ip'[g], k) = Home(data, ip[g], k)
               /\ Byte(data', ip'[g], k) = Byte(data, ip[g], k)
    <2> DEFINE bm == (k - 1) \div BSIZE
    <2>1. /\ bm \in Nat /\ bm < MAXFILE /\ Home(data, ip[g], k) \in Blocks
          /\ Home(data, ip[g], k) = BlockAt(data, ip[g], bm)
      BY Reached DEF Home
    <2> HIDE DEF bm
    <2>2. Home(data, ip[g], k) # Mapped(f)
      BY <1>4, <2>1, OneHome DEF Mapped
    <2>3. Home(data', ip'[g], k) = Home(data, ip[g], k)
      BY <1>3 DEF Home
    <2> QED BY <1>1, <2>1, <2>2, <2>3 DEF Byte
  <1> QED BY <1>2, <1>5 DEF Similar

LEMMA WriteBlockViews ==
    ASSUME ByteInv, BlockInv', NEW f \in Files, WriteBlock(f)
    PROVE  ByteInv' /\ Unseen
  <1> DEFINE c == call[f]
             ch == Chunk(f)
             new == [c EXCEPT !.tot = @ + ch, !.off = @ + ch]
             part == (c.off + 1)..(c.off + ch)
             max == MAXFILE * BSIZE
  <1>1. /\ Looping(f) /\ c.op = "write" /\ Mapped(f) # 0 /\ Store(f, ch)
        /\ call' = [call EXCEPT ![f] = new]
        /\ logged' = logged \union {Mapped(f)}
        /\ UNCHANGED <<ip, disk>>
    BY DEF WriteBlock
  <1>2. loose' = [loose EXCEPT ![f] = @ \ part]
    BY DEF WriteBlock, Positions
  <1>3. /\ ch \in Nat /\ ch > 0 /\ ch <= c.n - c.tot /\ c \in CallType
        /\ call \in [Files -> CallType] /\ CallOK(f) /\ ip[f].size \in Nat /\ CallOK(f)'
        /\ Bn(f) \in Nat /\ Bn(f) < MAXFILE
    BY <1>1, InLoop DEF ByteInv, BlockInv, Types, StoreType, Inode
  <1>4. /\ c.off \in Nat /\ c.n \in Nat /\ c.tot \in Nat /\ c.tot < c.n /\ max \in Nat
    <2>1. max \in Nat
      BY Sizes
    <2> HIDE DEF max
    <2> QED BY <1>1, <1>3, <2>1 DEF CallType, Looping
  <1>5. /\ new.op = "write" /\ new.off = c.off + ch /\ new.tot = c.tot + ch
        /\ new.old = c.old /\ new.byte = c.byte /\ new.n = c.n
    <2> HIDE DEF ch
    <2> QED BY <1>1, <1>3 DEF CallType
  <1>6. c.tot <= c.off /\ c.off + (c.n - c.tot) <= max
    BY <1>1, <1>3 DEF CallOK
  <1> HIDE DEF new, c, ch, max
  <1>7. /\ call'[f] = new /\ \A g \in Files : g # f => call'[g] = call[g]
    BY <1>1, <1>3
  <1>8. DOMAIN loose = Files
    BY DEF ByteInv
  <1>9. /\ DOMAIN loose' = Files /\ loose'[f] = loose[f] \ part
        /\ \A g \in Files : g # f => loose'[g] = loose[g]
    BY <1>2, <1>8
  <1>10. Stored(f, 0) /\ c.byte \in Bytes /\ Len(c.old) = ip[f].size
    <2>1. Writing(f)
      BY DEF ByteInv, Views
    <2>2. PICK m : Stored(f, m)
      BY <1>1, <2>1 DEF Writing, c
    <2>3. m = 0
      BY <1>4, <2>2 DEF Stored, c
    <2> QED BY <1>1, <2>1, <2>2, <2>3 DEF Writing, c
  <1>11. \A k \in Reach(f) :
           Shown(f, k) = IF k \in (c.off - c.tot + 1)..c.off THEN c.byte ELSE c.old[k]
    <2>1. (c.off + 1)..(c.off + 0) = {}
      BY <1>4
    <2> QED BY <1>10, <2>1 DEF Stored, c
  <1>12. ASSUME NEW k \in Reach(f)' PROVE k \in Reach(f) \/ k \in part
    <2>1. k \in 1..ip[f].size \/ k \in 1..(c.off + ch)
      BY <1>1, <1>5, <1>7 DEF Reach
    <2>2. Reach(f) = (1..ip[f].size) \union (1..c.off)
      BY <1>1 DEF Reach, c
    <2> QED BY <1>3, <1>4, <2>1, <2>2
  <1>13. ASSUME NEW k \in Reach(f)'
         PROVE  /\ Home(data', ip'[f], k) = Home(data, ip[f], k)
                /\ Byte(data', ip'[f], k) = IF k \in part THEN c.byte ELSE Byte(data, ip[f], k)
                /\ k \in part => Home(data, ip[f], k) = Mapped(f)
    <2>1. /\ k \in Nat /\ k - 1 \in Nat /\ (k - 1) \div BSIZE < MAXFILE
          /\ Home(data, ip[f], k) # 0
      <3>1. CASE k \in Reach(f)
        BY <1>1, <3>1, Reached DEF ByteInv, c
      <3>2. CASE k \in part
        <4>1. k \in Nat
          BY <1>3, <1>4, <3>2
        <4>2. /\ k - 1 \in Nat /\ (k - 1) \div BSIZE = Bn(f) /\ Home(data, ip[f], k) = Mapped(f)
          BY <1>1, <3>2, <4>1, ChunkHome DEF ByteInv, c, ch
        <4> QED BY <1>1, <1>3, <4>1, <4>2
      <3> QED BY <1>12, <3>1, <3>2
    <2>2. ch \in 0..Chunk(f)
      BY <1>3 DEF ch
    <2>3. /\ Home(data', ip'[f], k) = Home(data, ip[f], k)
          /\ Byte(data', ip'[f], k) = IF k \in part THEN c.byte ELSE Byte(data, ip[f], k)
      BY <1>1, <2>1, <2>2, StoresBytes DEF ByteInv, c
    <2>4. k \in part => Home(data, ip[f], k) = Mapped(f)
      BY <1>1, <2>1, ChunkHome DEF ByteInv, c, ch
    <2> QED BY <2>3, <2>4
  <1> HIDE DEF part
  <1>14. Steady(f)'
    <2> SUFFICES ASSUME NEW k \in Reach(f)', k \notin loose'[f],
                        Home(data', ip'[f], k) \notin logged'
                 PROVE  Byte(data', ip'[f], k) =
                          disk'.data[Home(data', ip'[f], k)][(k - 1) % BSIZE]
      BY DEF Steady
    <2>1. k \notin part
      BY <1>1, <1>13
    <2>2. k \in Reach(f) /\ k \notin loose[f]
      BY <1>9, <1>12, <2>1
    <2>3. Byte(data, ip[f], k) = disk.data[Home(data, ip[f], k)][(k - 1) % BSIZE]
      BY <1>1, <1>13, <2>2 DEF ByteInv, Views, Steady, c
    <2> QED BY <1>1, <1>13, <2>1, <2>3
  <1>15. ASSUME NEW k \in Reach(f)'
         PROVE  Shown(f, k)' = IF k \in (new.off - new.tot + 1)..new.off THEN new.byte
                               ELSE new.old[k]
    <2>1. new.off - new.tot = c.off - c.tot
      BY <1>3, <1>4, <1>5
    <2>2. CASE k \in part
      <3>1. k \in (new.off - new.tot + 1)..new.off
        BY <1>3, <1>4, <1>5, <1>6, <2>2 DEF part
      <3>2. Shown(f, k)' = c.byte
        BY <1>9, <1>13, <2>2 DEF Shown
      <3> QED BY <1>5, <3>1, <3>2
    <2>3. CASE k \notin part
      <3>1. k \in Reach(f)
        BY <1>12, <2>3
      <3>2. Shown(f, k)' = Shown(f, k)
        BY <1>9, <1>13, <2>3 DEF Shown
      <3>3. k \in Nat
        BY <1>1, <3>1, Reached DEF ByteInv, c
      <3>4. k \in (new.off - new.tot + 1)..new.off <=> k \in (c.off - c.tot + 1)..c.off
        BY <1>3, <1>4, <1>5, <1>6, <2>1, <2>3, <3>3 DEF part
      <3> QED BY <1>5, <1>11, <3>1, <3>2, <3>4
    <2> QED BY <2>2, <2>3
  <1>16. Stored(f, 0)'
    <2>1. new.off + 0 <= max /\ (new.off + 1)..(new.off + 0) = {}
      BY <1>3, <1>4, <1>5, <1>6
    <2> QED BY <1>7, <1>15, <2>1 DEF Stored, max
  <1>17. Writing(f)'
    <2>1. 0 \in 0..(MAXFILE * BSIZE)
      BY <1>4 DEF max
    <2> QED BY <1>1, <1>5, <1>7, <1>10, <1>16, <2>1 DEF Writing
  <1>18. Reading(f)'
    BY <1>5, <1>7 DEF Reading
  <1>19. ASSUME NEW g \in Files, g # f PROVE Views(g)' /\ Now(g)' = Now(g)
    <2>1. call[g].op # "trunc" => Similar(g)
      BY <1>1, <1>7, <1>9, <1>19, StoreElsewhere DEF ByteInv
    <2> QED BY <1>1, <1>7, <1>19, <2>1, ViewsKept DEF ByteInv
  <1>20. \A g \in Files : Views(g)'
    BY <1>14, <1>17, <1>18, <1>19 DEF Views
  <1>21. Now(f)' = Now(f)
    BY <1>1, <1>5, <1>7 DEF Now, InOp, c
  <1> QED BY <1>1, <1>9, <1>19, <1>20, <1>21, SavedKept DEF ByteInv, Unseen

LEMMA WriteFailsViews ==
    ASSUME ByteInv, BlockInv', NEW f \in Files, WriteFails(f)
    PROVE  ByteInv' /\ Unseen
  <1> DEFINE c == call[f]
             new == [c EXCEPT !.n = c.tot]
             max == MAXFILE * BSIZE
  <1>1. /\ Looping(f) /\ c.op = "write" /\ Mapped(f) # 0
        /\ call' = [call EXCEPT ![f] = new]
        /\ UNCHANGED <<logged, ip, disk>>
    BY DEF WriteFails
  <1>2. PICK j \in 0..(Chunk(f) - 1) :
          /\ Store(f, j)
          /\ loose' = [loose EXCEPT ![f] = @ \union (Positions(f, j) \intersect 1..ip[f].size)]
    BY DEF WriteFails
  <1> DEFINE part == (c.off + 1)..(c.off + j)
  <1>3. /\ Chunk(f) \in Nat /\ Chunk(f) <= c.n - c.tot /\ c \in CallType
        /\ call \in [Files -> CallType] /\ CallOK(f) /\ ip[f].size \in Nat
    BY <1>1, InLoop DEF ByteInv, BlockInv, Types, StoreType, Inode
  <1>4. /\ c.off \in Nat /\ c.n \in Nat /\ c.tot \in Nat /\ c.tot < c.n /\ max \in Nat
    <2>1. max \in Nat
      BY Sizes
    <2> HIDE DEF max
    <2> QED BY <1>1, <1>3, <2>1 DEF CallType, Looping
  <1>5. /\ new.op = "write" /\ new.off = c.off /\ new.tot = c.tot
        /\ new.old = c.old /\ new.byte = c.byte /\ new.n = c.tot
    BY <1>1, <1>3 DEF CallType
  <1>6. c.tot <= c.off /\ c.off + (c.n - c.tot) <= max
    BY <1>1, <1>3 DEF CallOK
  <1> HIDE DEF new, c, max
  <1>7. /\ call'[f] = new /\ \A g \in Files : g # f => call'[g] = call[g]
    BY <1>1, <1>3
  <1>8. j \in Nat /\ j \in 0..Chunk(f) /\ j < c.n - c.tot
    BY <1>3, <1>4
  <1>9. /\ DOMAIN loose' = Files /\ loose'[f] = loose[f] \union (part \intersect 1..ip[f].size)
        /\ \A g \in Files : g # f => loose'[g] = loose[g]
    BY <1>2 DEF ByteInv, Positions, c
  <1>10. Stored(f, 0) /\ c.byte \in Bytes /\ Len(c.old) = ip[f].size
    <2>1. Writing(f)
      BY DEF ByteInv, Views
    <2>2. PICK m : Stored(f, m)
      BY <1>1, <2>1 DEF Writing, c
    <2>3. m = 0
      BY <1>4, <2>2 DEF Stored, c
    <2> QED BY <1>1, <2>1, <2>2, <2>3 DEF Writing, c
  <1>11. \A k \in Reach(f) :
           Shown(f, k) = IF k \in (c.off - c.tot + 1)..c.off THEN c.byte ELSE c.old[k]
    <2>1. (c.off + 1)..(c.off + 0) = {}
      BY <1>4
    <2> QED BY <1>10, <2>1 DEF Stored, c
  <1>12. Reach(f)' = Reach(f) /\ Reach(f) = (1..ip[f].size) \union (1..c.off)
    BY <1>1, <1>5, <1>7 DEF Reach, c
  <1>13. ASSUME NEW k \in Reach(f)
         PROVE  /\ Home(data', ip'[f], k) = Home(data, ip[f], k)
                /\ Byte(data', ip'[f], k) = IF k \in part THEN c.byte ELSE Byte(data, ip[f], k)
                /\ k \in Nat
    <2>1. /\ k \in Nat /\ k - 1 \in Nat /\ (k - 1) \div BSIZE < MAXFILE
          /\ Home(data, ip[f], k) # 0
      BY <1>1, Reached DEF ByteInv, c
    <2> QED BY <1>1, <1>2, <1>8, <2>1, StoresBytes DEF ByteInv, c
  <1>14. ASSUME NEW k \in Reach(f), k \in part PROVE k \in loose'[f]
    <2>1. k \in 1..ip[f].size
      BY <1>4, <1>8, <1>12, <1>14
    <2> QED BY <1>9, <1>14, <2>1
  <1> HIDE DEF part
  <1>15. Steady(f)'
    <2> SUFFICES ASSUME NEW k \in Reach(f), k \notin loose'[f],
                        Home(data', ip'[f], k) \notin logged'
                 PROVE  Byte(data', ip'[f], k) =
                          disk'.data[Home(data', ip'[f], k)][(k - 1) % BSIZE]
      BY <1>12 DEF Steady
    <2>1. k \notin part /\ k \notin loose[f]
      BY <1>9, <1>14
    <2>2. Byte(data, ip[f], k) = disk.data[Home(data, ip[f], k)][(k - 1) % BSIZE]
      BY <1>1, <1>13, <2>1 DEF ByteInv, Views, Steady, c
    <2> QED BY <1>1, <1>13, <2>1, <2>2
  <1>16. ASSUME NEW k \in Reach(f)
         PROVE  Shown(f, k)' = IF k \in (c.off - c.tot + 1)..c.off THEN c.byte
                               ELSE IF k \in part THEN Unknown
                               ELSE c.old[k]
    <2>1. CASE k \in part
      <3>1. k \notin (c.off - c.tot + 1)..c.off
        BY <1>4, <1>8, <2>1 DEF part
      <3>2. Shown(f, k)' = Unknown
        BY <1>14, <2>1 DEF Shown, Unknown
      <3> QED BY <2>1, <3>1, <3>2
    <2>2. CASE k \notin part
      <3>1. Shown(f, k)' = Shown(f, k)
        BY <1>9, <1>13, <2>2 DEF Shown
      <3> QED BY <1>11, <2>2, <3>1
    <2> QED BY <2>1, <2>2
  <1>17. Stored(f, j)'
    <2>1. new.off + j <= max /\ ~ (new.tot < new.n)
      BY <1>4, <1>5, <1>6, <1>8
    <2> QED BY <1>5, <1>7, <1>12, <1>16, <2>1 DEF Stored, max, part
  <1>18. Writing(f)'
    <2>1. j \in 0..(MAXFILE * BSIZE)
      <3>1. j \in 0..max
        BY <1>4, <1>6, <1>8
      <3> QED BY <3>1 DEF max
    <2> QED BY <1>1, <1>5, <1>7, <1>10, <1>17, <2>1 DEF Writing
  <1>19. Reading(f)'
    BY <1>5, <1>7 DEF Reading
  <1>20. ASSUME NEW g \in Files, g # f PROVE Views(g)' /\ Now(g)' = Now(g)
    <2>1. call[g].op # "trunc" => Similar(g)
      BY <1>1, <1>2, <1>7, <1>9, <1>20, StoreElsewhere DEF ByteInv
    <2> QED BY <1>1, <1>7, <1>20, <2>1, ViewsKept DEF ByteInv
  <1>21. \A g \in Files : Views(g)'
    BY <1>15, <1>18, <1>19, <1>20 DEF Views
  <1>22. Now(f)' = Now(f)
    BY <1>1, <1>5, <1>7 DEF Now, InOp, c
  <1> QED BY <1>1, <1>9, <1>20, <1>21, <1>22, SavedKept DEF ByteInv, Unseen

(***************************************************************************)
(* The end of a transaction, and a crash.                                  *)
(***************************************************************************)

(* A commit takes what Steady says over to the disk. *)
LEMMA SteadyCommitted ==
    ASSUME BlockInv, NEW g \in Files, Steady(g), Similar(g), call[g].op # "trunc", data' = data,
           \A b \in Blocks : disk'.data[b] = IF b \in logged THEN data[b] ELSE disk.data[b]
    PROVE  Steady(g)'
  <1> SUFFICES ASSUME NEW k \in Reach(g)', k \notin loose'[g]
               PROVE  Byte(data', ip'[g], k) = disk'.data[Home(data', ip'[g], k)][(k - 1) % BSIZE]
    BY DEF Steady
  <1>1. /\ k \in Reach(g) /\ k \notin loose[g]
        /\ Home(data', ip'[g], k) = Home(data, ip[g], k)
        /\ Byte(data', ip'[g], k) = Byte(data, ip[g], k)
    BY DEF Similar
  <1>2. Home(data, ip[g], k) \in Blocks
    BY <1>1, Reached
  <1>3. CASE Home(data, ip[g], k) \in logged
    BY <1>1, <1>2, <1>3 DEF Byte
  <1>4. CASE Home(data, ip[g], k) \notin logged
    <2>1. Byte(data, ip[g], k) = disk.data[Home(data, ip[g], k)][(k - 1) % BSIZE]
      BY <1>1, <1>4 DEF Steady
    <2> QED BY <1>1, <1>2, <1>4, <2>1
  <1> QED BY <1>3, <1>4

(* When everything is committed, the contents are the saved ones. *)
Committed ==
    /\ BlockInv
    /\ \A g \in Files : Steady(g) /\ call[g].op \notin {"write", "trunc"}
    /\ logged = {}
    /\ disk.dinode = ip
    /\ disk.content = [g \in Files |-> Content(data, ip[g], loose[g])]

LEMMA CommitSaves == Committed => Saved
  <1> SUFFICES ASSUME Committed PROVE Saved
    OBVIOUS
  <1>1. ASSUME NEW g \in Files
        PROVE  disk.content[g] = Content(disk.data, disk.dinode[g], Lost(disk.content[g]))
    <2>1. PICK dat, inode, lost : /\ dat = disk.data /\ inode = disk.dinode[g]
                                  /\ lost = Lost(disk.content[g])
      OBVIOUS
    <2>2. inode = ip[g] /\ call[g].op \notin {"write", "trunc"} /\ ip[g].size \in Nat
      BY <2>1 DEF Committed, BlockInv, Types, StoreType, Inode
    <2>3. disk.content[g] = [k \in 1..ip[g].size |-> Shown(g, k)]
      BY <2>2, ContentOf DEF Committed
    <2>4. \A bn : BlockAt(dat, inode, bn) = BlockAt(data, ip[g], bn)
      BY <2>1, <2>2 DEF Committed, BlockInv, IndirectLogged, BlockAt
    <2>5. ASSUME NEW k \in 1..ip[g].size
          PROVE  /\ Home(dat, inode, k) \in Blocks
                 /\ Home(dat, inode, k) = Home(data, ip[g], k)
                 /\ (k - 1) % BSIZE \in 0..(BSIZE - 1)
                 /\ k \in Reach(g)
      <3>1. k \in Reach(g)
        BY DEF Reach
      <3> QED BY <2>2, <2>4, <3>1, Reached DEF Home, Committed
    <2>6. Content(dat, inode, lost) =
            [k \in 1..inode.size |-> IF k \in lost THEN Unknown ELSE Byte(dat, inode, k)]
      BY <2>2, <2>5, ContentIs
    <2>7. ASSUME NEW k \in 1..ip[g].size
          PROVE  Shown(g, k) = IF k \in lost THEN Unknown ELSE Byte(dat, inode, k)
      <3>1. k \in lost <=> Shown(g, k) = Unknown
        BY <2>1, <2>3 DEF Lost
      <3>2. CASE k \in loose[g]
        BY <3>1, <3>2 DEF Shown
      <3>3. CASE k \notin loose[g]
        <4>1. Shown(g, k) = Byte(data, ip[g], k)
          BY <3>3 DEF Shown
        <4>2. Byte(data, ip[g], k) = disk.data[Home(data, ip[g], k)][(k - 1) % BSIZE]
          BY <2>2, <2>5, <3>3 DEF Committed, Steady
        <4>3. Shown(g, k) = Byte(dat, inode, k)
          BY <2>1, <2>5, <4>1, <4>2 DEF Byte
        <4> QED BY <3>1, <4>3
      <3> QED BY <3>2, <3>3
    <2> QED BY <2>1, <2>2, <2>3, <2>6, <2>7
  <1>2. disk.content = [g \in Files |-> disk.content[g]]
    BY DEF Committed
  <1> QED BY <1>1, <1>2 DEF Saved

LEMMA CommitSavesNext == Committed' => Saved'
  BY CommitSaves, PTL

LEMMA EndViews ==
    ASSUME ByteInv, BlockInv', NEW f \in Files, NEW size, Ending(f, size), DOMAIN loose' = Files,
           \A g \in Files : g # f => loose'[g] = loose[g],
           \/ size = 0
           \/ /\ call[f].op = "write" /\ size \in {ip[f].size, call[f].off}
              /\ loose'[f] = loose[f]
    PROVE  /\ ByteInv' /\ Now(f)' = Content(data', ip'[f], loose'[f])
           /\ \A g \in Files : g # f => Now(g)' = Now(g)
           /\ disk'.content \in {disk.content, [g \in Files |-> Now(g)']}
  <1>1. /\ ip'[f].size = size /\ ip'[f].addrs = ip[f].addrs
        /\ \A g \in Files : g # f => ip'[g] = ip[g] /\ call'[g] = call[g]
        /\ call'[f].op = "none" /\ ip' \in [Files -> Inode]
    BY EndFacts DEF ByteInv
  <1>2. data' = data
    BY DEF Ending
  <1>3. ASSUME NEW g \in Files, g # f PROVE Similar(g) /\ ip'[g] = ip[g] /\ call'[g] = call[g]
    <2>1. ip'[g] = ip[g] /\ call'[g] = call[g] /\ loose'[g] = loose[g]
      BY <1>1, <1>3
    <2>2. Reach(g)' = Reach(g)
      BY <2>1, SameReach
    <2> QED BY <1>2, <2>1, <2>2, SimilarSame
  <1>4. Reach(f)' = 1..size
    BY <1>1 DEF Reach
  <1>5. ASSUME size # 0 PROVE call[f].op = "write" /\ Similar(f)
    <2>1. call[f].op = "write" /\ size \in {ip[f].size, call[f].off} /\ loose'[f] = loose[f]
      BY <1>5
    <2>2. 1..size \subseteq Reach(f)
      BY <2>1 DEF Reach
    <2>3. \A bn : BlockAt(data', ip'[f], bn) = BlockAt(data, ip[f], bn)
      BY <1>1, <1>2 DEF BlockAt
    <2>4. \A k : /\ Home(data', ip'[f], k) = Home(data, ip[f], k)
                 /\ Byte(data', ip'[f], k) = Byte(data, ip[f], k)
      BY <1>2, <2>3 DEF Home, Byte
    <2> QED BY <1>4, <2>1, <2>2, <2>4 DEF Similar
  <1>6. size = 0 => Steady(f)'
    BY <1>4 DEF Steady
  <1>7. Reading(f)' /\ Writing(f)'
    BY <1>1 DEF Reading, Writing
  <1>8. Now(f)' = Content(data', ip'[f], loose'[f])
    BY <1>1 DEF Now, InOp
  <1>9. CASE \E g \in Files \ {f} : InOp(g)
    <2>1. UNCHANGED <<disk, logged>>
      BY <1>9 DEF Ending, end_op
    <2>2. ASSUME NEW g \in Files, g # f PROVE Views(g)' /\ Now(g)' = Now(g)
      BY <1>3, <2>1, <2>2, ViewsKept DEF ByteInv
    <2>3. size # 0 => Steady(f)'
      BY <1>5, <2>1, SteadyKept DEF ByteInv, Views
    <2>4. \A g \in Files : Views(g)'
      BY <1>6, <1>7, <2>2, <2>3 DEF Views
    <2> QED BY <1>8, <2>1, <2>2, <2>4, SavedKept DEF ByteInv
  <1>10. CASE \A g \in Files \ {f} : ~ InOp(g)
    <2>1. /\ disk' = [bitmap |-> bitmap', dinode |-> dinode',
                      data |-> [b \in Blocks |-> IF b \in logged THEN data'[b] ELSE disk.data[b]],
                      content |-> [g \in Files |-> Content(data', ip'[g], loose'[g])]]
          /\ logged' = {}
      BY <1>10 DEF Ending, end_op
    <2>2. \A b \in Blocks : disk'.data[b] = IF b \in logged THEN data[b] ELSE disk.data[b]
      BY <1>2, <2>1
    <2>3. ASSUME NEW g \in Files, g # f 
          PROVE  call'[g].op \in {"none", "read"} /\ Views(g)' /\ Now(g)' = Now(g)
      <3>1. call[g] \in CallType
        BY DEF ByteInv, BlockInv, Types
      <3>2. call[g].op \in {"none", "read"}
        BY <1>10, <2>3, <3>1 DEF InOp, CallType
      <3>3. Steady(g)'
        BY <1>2, <1>3, <2>2, <2>3, <3>2, SteadyCommitted DEF ByteInv, Views
      <3>4. Reading(g)' /\ Writing(g)'
        BY <1>3, <2>3, <3>2, CallViewKept DEF ByteInv, Views
      <3>5. Content(data', ip'[g], loose'[g]) = Content(data, ip[g], loose[g])
        BY <1>3, <2>3, <3>2, ContentKept DEF ByteInv
      <3> QED BY <1>3, <2>3, <3>2, <3>3, <3>4, <3>5 DEF Views, Now, InOp
    <2>4. size # 0 => Steady(f)'
      BY <1>2, <1>5, <2>2, SteadyCommitted DEF ByteInv, Views
    <2>5. \A g \in Files : Views(g)' /\ call'[g].op \in {"none", "read"}
      BY <1>1, <1>6, <1>7, <2>3, <2>4 DEF Views
    <2>6. disk'.dinode = ip'
      <3>1. \A g \in Files : dinode'[g] = ip'[g]
        BY <2>5 DEF BlockInv, CallOK, InOp
      <3>2. dinode' \in [Files -> Inode]
        BY DEF BlockInv, Types
      <3>3. dinode' = ip'
        BY <1>1, <3>1, <3>2
      <3> QED BY <2>1, <3>3
    <2>7. disk'.content = [g \in Files |-> Content(data', ip'[g], loose'[g])]
      BY <2>1
    <2>8. Committed'
      BY <2>1, <2>5, <2>6, <2>7 DEF Committed, Views
    <2>9. disk'.content = [g \in Files |-> Now(g)']
      <3>1. \A g \in Files : Now(g)' = Content(data', ip'[g], loose'[g])
        BY <2>5 DEF Now, InOp
      <3> QED BY <2>7, <3>1
    <2> QED BY <1>8, <2>3, <2>5, <2>8, <2>9, CommitSavesNext DEF ByteInv
  <1> QED BY <1>9, <1>10

(* What an operation of FileStore says, in the terms of this module. *)
Wrote(f) ==
    \E off \in 0..Len(Now(f)), n \in 0..(MAXFILE * BSIZE), b \in Bytes :
      /\ off + n <= MAXFILE * BSIZE
      /\ \E tot \in 0..n : Store0!Written(Now(f), Now(f)', off, n, tot, b)

Called(f) ==
    /\ Wrote(f) \/ Now(f)' = <<>>
    /\ \A g \in Files : g # f => Now(g)' = Now(g)
    /\ disk'.content \in {disk.content, [g \in Files |-> Now(g)']}

LEMMA WriteReturnViews ==
    ASSUME ByteInv, BlockInv', NEW f \in Files, WriteReturn(f)
    PROVE  ByteInv' /\ Called(f)
  <1> DEFINE c == call[f]
             max == MAXFILE * BSIZE
             off == c.off - c.tot
             old == Now(f)
             new == Now(f)'
  <1>1. c.op = "write" /\ loose' = loose /\ data' = data
    BY DEF WriteReturn
  <1>2. PICK size : /\ size = IF ip[f].size >= c.off THEN ip[f].size ELSE c.off
                    /\ Ending(f, size)
    BY WriteReturnEnds DEF ByteInv
  <1>3. DOMAIN loose' = Files
    BY <1>1 DEF ByteInv
  <1>4. /\ ByteInv' /\ new = Content(data', ip'[f], loose'[f])
        /\ \A g \in Files : g # f => Now(g)' = Now(g)
        /\ disk'.content \in {disk.content, [g \in Files |-> Now(g)']}
    BY <1>1, <1>2, <1>3, EndViews
  <1>5. ip'[f].size = size /\ ip'[f].addrs = ip[f].addrs /\ call'[f].op = "none"
    BY <1>2, EndFacts DEF ByteInv
  <1>6. /\ c \in CallType /\ ip[f].size \in Nat /\ CallOK(f) /\ Writing(f)
    BY DEF ByteInv, BlockInv, Types, StoreType, Inode, Views
  <1>7. /\ c.off \in Nat /\ c.tot \in Nat /\ c.n \in Nat /\ c.old \in Seq(Int) /\ max \in Nat
    <2>1. max \in Nat
      BY Sizes
    <2> HIDE DEF max
    <2> QED BY <1>6, <2>1 DEF CallType
  <1>8. /\ c.tot <= c.off /\ c.off - c.tot <= ip[f].size
    BY <1>1, <1>6 DEF CallOK
  <1>9. old = c.old /\ Len(old) = ip[f].size /\ c.byte \in Bytes
    BY <1>1, <1>6 DEF Now, InOp, Writing
  <1>10. PICK m \in 0..max : Stored(f, m)
    BY <1>1, <1>6 DEF Writing
  <1>11. Reach(f) = (1..ip[f].size) \union (1..c.off)
    BY <1>1 DEF Reach
  <1>12. new = [k \in 1..size |-> Shown(f, k)]
    <2>1. PICK dat, inode, unknown : dat = data' /\ inode = ip'[f] /\ unknown = loose'[f]
      OBVIOUS
    <2>2. \A k \in 1..size : k \in Reach(f)
      BY <1>2, <1>11
    <2>3. \A bn : BlockAt(dat, inode, bn) = BlockAt(data, ip[f], bn)
      BY <1>1, <1>5, <2>1 DEF BlockAt
    <2>4. \A k : Home(dat, inode, k) = Home(data, ip[f], k)
      BY <2>3 DEF Home
    <2>5. \A k \in 1..inode.size : Home(dat, inode, k) \in Blocks
      BY <1>1, <1>5, <2>1, <2>2, <2>4, Reached DEF ByteInv
    <2>6. Content(dat, inode, unknown) =
            [k \in 1..inode.size |-> IF k \in unknown THEN Unknown ELSE Byte(dat, inode, k)]
      BY <2>5, ContentIs
    <2>7. \A k : Shown(f, k) = IF k \in unknown THEN Unknown ELSE Byte(dat, inode, k)
      BY <1>1, <2>1, <2>4 DEF Shown, Byte
    <2> QED BY <1>4, <1>5, <2>1, <2>6, <2>7
  <1> HIDE DEF c, max, old, new
  <1>13. /\ c.off + m <= max
         /\ \A k \in Reach(f) :
              Shown(f, k) = IF k \in (off + 1)..c.off THEN c.byte
                            ELSE IF k \in (c.off + 1)..(c.off + m) THEN Unknown
                            ELSE c.old[k]
    BY <1>10 DEF Stored, c, max
  <1>14. /\ off \in 0..Len(old) /\ c.tot + m \in 0..max /\ off + (c.tot + m) <= max
         /\ c.tot \in 0..(c.tot + m) /\ off + c.tot = c.off /\ off + (c.tot + m) = c.off + m
         /\ size \in Nat
    BY <1>2, <1>6, <1>7, <1>8, <1>9, <1>13
  <1>15. Len(new) = size /\ size = IF off + c.tot > Len(old) THEN off + c.tot ELSE Len(old)
    BY <1>2, <1>6, <1>7, <1>9, <1>12, <1>14
  <1> HIDE DEF off
  <1>16. ASSUME NEW k \in 1..Len(new)
         PROVE  new[k] = CASE k \in (off + 1)..(off + c.tot) -> c.byte
                           [] k \in (off + c.tot + 1)..(off + (c.tot + m)) -> Unknown
                           [] OTHER -> old[k]
    <2>1. k \in 1..size /\ k \in Reach(f) /\ k \in Nat
      BY <1>2, <1>11, <1>14, <1>15
    <2>2. new[k] = IF k \in (off + 1)..(off + c.tot) THEN c.byte
                   ELSE IF k \in (off + c.tot + 1)..(off + (c.tot + m)) THEN Unknown
                   ELSE old[k]
      BY <1>9, <1>12, <1>13, <1>14, <2>1
    <2>3. ~ (k \in (off + 1)..(off + c.tot) /\ k \in (off + c.tot + 1)..(off + (c.tot + m)))
      BY <1>7, <1>14, <2>1
    <2> QED BY <2>2, <2>3
  <1>17. Store0!Written(old, new, off, c.tot + m, c.tot, c.byte)
    BY <1>15, <1>16 DEF Store0!Written
  <1>18. Wrote(f)
    BY <1>9, <1>14, <1>17 DEF Wrote, old, new, max
  <1> QED BY <1>4, <1>18 DEF Called

LEMMA TruncReturnViews ==
    ASSUME ByteInv, BlockInv', NEW f \in Files, TruncReturn(f)
    PROVE  ByteInv' /\ Called(f)
  <1>1. loose' = [loose EXCEPT ![f] = {}] /\ Ending(f, 0)
    BY TruncReturnEnds DEF ByteInv, TruncReturn
  <1>2. DOMAIN loose' = Files /\ \A g \in Files : g # f => loose'[g] = loose[g]
    BY <1>1 DEF ByteInv
  <1>3. /\ ByteInv' /\ Now(f)' = Content(data', ip'[f], loose'[f])
        /\ \A g \in Files : g # f => Now(g)' = Now(g)
        /\ disk'.content \in {disk.content, [g \in Files |-> Now(g)']}
    BY <1>1, <1>2, EndViews
  <1>4. ip'[f].size = 0
    BY <1>1, EndFacts DEF ByteInv
  <1>5. Now(f)' = <<>>
    BY <1>3, <1>4 DEF Content
  <1> QED BY <1>3, <1>5 DEF Called

LEMMA CrashViews ==
    ASSUME ByteInv, BlockInv', Crash
    PROVE  /\ ByteInv' /\ disk' = disk
           /\ disk.content = [g \in Files |-> Now(g)']
  <1>1. /\ data' = disk.data /\ disk' = disk /\ call' = [f \in Files |-> NoCall]
        /\ ip' = disk.dinode
        /\ DOMAIN loose' = Files
    BY DEF Crash
  <1>2. ASSUME NEW g \in Files PROVE Views(g)'
    <2>1. call'[g].op = "none"
      BY <1>1, NoCallType
    <2>2. Steady(g)'
      BY <1>1 DEF Steady, Byte
    <2> QED BY <2>1, <2>2 DEF Views, Reading, Writing
  <1>3. ASSUME NEW g \in Files
        PROVE  Now(g)' = Content(disk.data, disk.dinode[g], Lost(disk.content[g]))
    <2>1. ~ InOp(g)'
      BY <1>1, NoCallType DEF InOp
    <2>2. loose'[g] = Lost(disk.content[g])
      BY DEF Crash, Lost
    <2> QED BY <1>1, <2>1, <2>2 DEF Now
  <1>4. disk.content = [g \in Files |-> Now(g)']
    BY <1>3 DEF ByteInv, Saved
  <1> QED BY <1>1, <1>2, <1>4, SavedKept DEF ByteInv

LEMMA InitViews == Init => ByteInv
  <1> SUFFICES ASSUME Init PROVE ByteInv
    OBVIOUS
  <1>1. BlockInv
    BY InitOK
  <1>2. ASSUME NEW f \in Files PROVE ip[f].size = 0 /\ call[f].op = "none"
    BY NoCallType DEF Init, NewInode
  <1>3. ASSUME NEW f \in Files PROVE Views(f)
    <2>1. Reach(f) = {}
      BY <1>2 DEF Reach
    <2> QED BY <1>2, <2>1 DEF Views, Steady, Reading, Writing
  <1>4. Saved
    <2>1. disk.content = [f \in Files |-> <<>>] /\ disk.dinode = ip
      BY DEF Init
    <2>2. ASSUME NEW f \in Files, NEW u PROVE Content(disk.data, disk.dinode[f], u) = <<>>
      BY <1>2, <2>1 DEF Content
    <2> QED BY <2>1, <2>2 DEF Saved
  <1> QED BY <1>1, <1>3, <1>4 DEF ByteInv, Init

LEMMA StutterViews ==
    ASSUME ByteInv, BlockInv', UNCHANGED vars
    PROVE  ByteInv' /\ Unseen
  <1>1. UNCHANGED <<data, logged, ip, disk, call, loose>>
    BY DEF vars, cache
  <1>2. ASSUME NEW g \in Files PROVE Views(g)' /\ Now(g)' = Now(g)
    <2>1. Reach(g)' = Reach(g)
      BY <1>1, SameReach
    <2>2. Similar(g)
      BY <1>1, <2>1, SimilarSame
    <2> QED BY <1>1, <2>2, ViewsKept DEF ByteInv
  <1> QED BY <1>1, <1>2, SavedKept DEF ByteInv, Unseen

LEMMA StepViews ==
    ASSUME ByteInv, NEW f \in Files, Step(f)
    PROVE  ByteInv' /\ (Unseen \/ Called(f))
  <1>1. BlockInv'
    BY StepOK DEF ByteInv
  <1>2. CASE Program(f) \/ TruncCall(f)
    BY <1>1, <1>2, CallsBegin
  <1>3. CASE BmapInode(f) \/ BmapIndirect(f)
    <2>1. PICK s \in 0..MAXFILE, b \in Blocks \ bitmap : Allocation(f, s, b)
      BY <1>3, BmapInodeAllocates, BmapIndirectAllocates DEF ByteInv
    <2>2. loose' = loose
      BY <1>3 DEF BmapInode, BmapIndirect
    <2> QED BY <1>1, <2>1, <2>2, BmapViews
  <1>4. CASE BmapFull(f) \/ Reload(f) \/ ReadBlock(f) \/ ReadReturn(f)
    BY <1>1, <1>4, BmapFullViews, ReloadViews, ReadBlockViews, ReadReturnViews
  <1>5. CASE WriteBlock(f) \/ WriteFails(f) \/ WriteReturn(f)
    BY <1>1, <1>5, WriteBlockViews, WriteFailsViews, WriteReturnViews
  <1>6. CASE Trunc(f)
    BY <1>1, <1>6, TruncViews, TruncReturnViews DEF Trunc
  <1> QED BY <1>2, <1>3, <1>4, <1>5, <1>6 DEF Step, Bmap

LEMMA ByteInvariant == Spec => []ByteInv
  <1>1. ByteInv /\ [Next]_vars => ByteInv'
    <2> SUFFICES ASSUME ByteInv, [Next]_vars PROVE ByteInv'
      OBVIOUS
    <2>1. BlockInv
      BY DEF ByteInv
    <2>2. CASE Crash
      BY <2>1, <2>2, CrashRecovers, CrashViews
    <2>3. CASE \E b \in Blocks : Evict(b)
      BY <2>1, <2>3, EvictQuiet, EvictViews
    <2>4. CASE \E f \in Files : Step(f)
      BY <2>4, StepViews
    <2>5. CASE UNCHANGED vars
      BY <2>1, <2>5, StutterOK, StutterViews
    <2> QED BY <2>2, <2>3, <2>4, <2>5 DEF Next
  <1> QED BY <1>1, InitViews, PTL DEF Spec

(* readi delivers the bytes of the file and never has to allocate, and no  *)
(* call comes to a block number that bmap panics for.                      *)
THEOREM ReadsDeliver == Spec => []ReadsBack
  <1>1. ByteInv => ReadsBack
    <2> SUFFICES ASSUME ByteInv, NEW f \in Files
                 PROVE  /\ Looping(f) => Bn(f) < MAXFILE
                        /\ call[f].op = "read" =>
                             /\ call[f].off <= ip[f].size
                             /\ \A k \in 1..call[f].tot :
                                  call[f].old[call[f].off - call[f].tot + k]
                                    \in {call[f].got[k], Unknown}
                             /\ Looping(f) => Mapped(f) # 0
      BY DEF ReadsBack
    <2>1. Looping(f) => Bn(f) < MAXFILE /\ (call[f].op = "read" => Mapped(f) # 0)
      BY InLoop DEF ByteInv
    <2>2. call[f].op = "read" => call[f].off <= ip[f].size
      <3>1. call[f] \in CallType /\ ip[f].size \in Nat /\ CallOK(f)
        BY DEF ByteInv, BlockInv, Types, StoreType, Inode
      <3> QED BY <3>1 DEF CallOK, CallType
    <2> QED BY <2>1, <2>2 DEF ByteInv, Views, Reading
  <1> QED BY <1>1, ByteInvariant, PTL

(***************************************************************************)
(* The refinement of FileStore.                                            *)
(***************************************************************************)
LEMMA StoreDefs ==
    /\ Contents = [f \in Files |-> Now(f)]
    /\ Contents' = [f \in Files |-> Now(f)']
    /\ Store0!Crash <=> Contents' = disk.content /\ disk'.content = disk.content
    /\ \A f \in Files : Called(f) => Store0!Call(f)
  <1>1. Contents = [f \in Files |-> Now(f)] /\ Contents' = [f \in Files |-> Now(f)']
    BY DEF Contents, Now
  <1>2. Store0!Crash <=> Contents' = disk.content /\ disk'.content = disk.content
    BY DEF Store0!Crash
  <1>3. ASSUME NEW f \in Files, Called(f) PROVE Store0!Call(f)
    <2>1. \A g \in Files : Contents[g] = Now(g) /\ Contents'[g] = Now(g)'
      BY <1>1
    <2>2. \A g \in Files \ {f} : Contents'[g] = Contents[g]
      BY <1>3, <2>1 DEF Called
    <2>3. Store0!Commit
      BY <1>1, <1>3 DEF Called, Store0!Commit
    <2>4. Wrote(f) => Store0!Write(f)
      BY <2>1 DEF Wrote, Store0!Write
    <2>5. Now(f)' = <<>> => Store0!Truncate(f)
      BY <2>1 DEF Store0!Truncate
    <2> QED BY <1>3, <2>2, <2>3, <2>4, <2>5 DEF Called, Store0!Call
  <1> QED BY <1>1, <1>2, <1>3

(* readi, writei and itrunc, with bmap, the log and the cache below them,  *)
(* keep the promises of FileStore: a file is a sequence of bytes that only *)
(* its own calls change, and a crash brings back what was committed.       *)
THEOREM FilesAsPromised == Spec => ImplementsFileStore
  <1>1. Init => Store0!FileInit
    <2> SUFFICES ASSUME Init PROVE Store0!FileInit
      OBVIOUS
    <2>1. ASSUME NEW f \in Files PROVE Now(f) = <<>>
      <3>1. call[f].op = "none" /\ ip[f].size = 0
        BY NoCallType DEF Init, NewInode
      <3>2. Content(data, ip[f], loose[f]) = <<>>
        BY <3>1 DEF Content
      <3> QED BY <3>1, <3>2 DEF Now, InOp
    <2>2. Contents = [f \in Files |-> <<>>]
      BY <2>1, StoreDefs
    <2>3. disk.content = [f \in Files |-> <<>>]
      BY DEF Init
    <2> QED BY <2>2, <2>3 DEF Store0!FileInit
  <1>2. ByteInv /\ [Next]_vars => [Store0!FileNext]_<<Contents, disk.content>>
    <2> SUFFICES ASSUME ByteInv, [Next]_vars
                 PROVE  Store0!FileNext \/ UNCHANGED <<Contents, disk.content>>
      OBVIOUS
    <2>1. BlockInv
      BY DEF ByteInv
    <2>2. Unseen => UNCHANGED <<Contents, disk.content>>
      BY StoreDefs DEF Unseen
    <2>3. CASE Crash
      <3>1. disk' = disk /\ disk.content = [g \in Files |-> Now(g)']
        BY <2>1, <2>3, CrashRecovers, CrashViews
      <3>2. Store0!Crash
        BY <3>1, StoreDefs
      <3> QED BY <3>2 DEF Store0!FileNext
    <2>4. CASE \E b \in Blocks : Evict(b)
      BY <2>1, <2>2, <2>4, EvictQuiet, EvictViews
    <2>5. CASE \E f \in Files : Step(f)
      <3>1. PICK f \in Files : Unseen \/ Called(f)
        BY <2>5, StepViews
      <3>2. Called(f) => Store0!FileNext
        BY StoreDefs DEF Store0!FileNext
      <3> QED BY <2>2, <3>1, <3>2
    <2>6. CASE UNCHANGED vars
      BY <2>1, <2>2, <2>6, StutterOK, StutterViews
    <2> QED BY <2>3, <2>4, <2>5, <2>6 DEF Next
  <1> QED BY <1>1, <1>2, ByteInvariant, PTL DEF Spec, ImplementsFileStore, Store0!FileSpec

=============================================================================
