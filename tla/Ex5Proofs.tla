------------------------------ MODULE Ex5Proofs ------------------------------
(* Proofs about the two programs of ex5: CopyTree, for any source tree,    *)
(* any failures and any limit of the kernel on links, and, in the second   *)
(* half, XvInode, for any number of processes, names, inodes and entries   *)
(* of the inode table.                                                     *)
EXTENDS CopyTree, XvInode, FiniteSetTheorems, SequenceTheorems, WellFoundedInduction, TLAPS

(***************************************************************************)
(* The recursive functions of CopyTree.  A function on 0..m defined from   *)
(* its value before is the one that has this value at every place.         *)
(***************************************************************************)

(* A set of numbers that is not empty has a least one. *)
LEMMA LeastNumber ==
    ASSUME NEW T, T \subseteq Nat, T # {}
    PROVE  \E x \in T : \A y \in T : x <= y
  <1> DEFINE R == OpToRel(<, Nat)
  <1>1. IsWellFoundedOn(R, Nat)
    BY NatLessThanWellFounded
  <1> HIDE DEF R
  <1>2. PICK x \in T : \A y \in T : ~ (<<y, x>> \in R)
    BY <1>1, WFMin
  <1>3. \A y \in T : ~ (y < x)
    <2> SUFFICES ASSUME NEW y \in T, y < x PROVE FALSE
      OBVIOUS
    <2>1. <<y, x>> \in R
      BY DEF R, OpToRel
    <2> QED BY <1>2, <2>1
  <1> QED BY <1>3

(* Where the links that start at n lead to, step by step. *)
Hop(n) == IF IsLink(n) THEN target[n] ELSE n
IsChain(n, m, at) == at = [k \in 0..m |-> IF k = 0 THEN n ELSE Hop(at[k - 1])]

LEMMA ChainExists ==
    ASSUME NEW n, NEW m \in Nat
    PROVE  \E at : IsChain(n, m, at)
  <1> DEFINE T == {i \in Nat : ~ \E at : IsChain(n, i, at)}
  <1> SUFFICES ASSUME T # {} PROVE FALSE
    OBVIOUS
  <1>1. PICK i \in T : \A j \in T : i <= j
    <2>1. T \subseteq Nat
      OBVIOUS
    <2> HIDE DEF T
    <2> QED BY <2>1, LeastNumber
  <1>2. CASE i = 0
    <2>1. IsChain(n, 0, [k \in 0..0 |-> n])
      BY DEF IsChain
    <2> QED BY <1>2, <2>1
  <1>3. CASE i # 0
    <2>1. i - 1 \in Nat /\ i - 1 \notin T
      BY <1>1, <1>3
    <2>2. PICK at : IsChain(n, i - 1, at)
      BY <2>1
    <2> DEFINE new == [k \in 0..i |-> IF k = i THEN Hop(at[i - 1]) ELSE at[k]]
    <2>3. ASSUME NEW k \in 0..i
          PROVE  new[k] = IF k = 0 THEN n ELSE Hop(new[k - 1])
      BY <1>3, <2>2 DEF IsChain
    <2>4. IsChain(n, i, new)
      BY <2>3 DEF IsChain
    <2> QED BY <2>4
  <1> QED BY <1>2, <1>3

LEMMA ChainIs ==
    ASSUME NEW n
    PROVE  IsChain(n, N, Chain(n))
  <1>1. \E at : IsChain(n, N, at)
    BY ChainExists, CopyAssumption
  <1>2. Chain(n) = CHOOSE at : IsChain(n, N, at)
    BY DEF Chain, IsChain, Hop
  <1> QED BY <1>1, <1>2

(* What the sources of all runs have in common; Init chooses it and no     *)
(* step changes it.                                                        *)
SourceOK ==
    /\ kind \in [Nodes -> {"dir", "file", "link"}]
    /\ kind[Root] = "dir"
    /\ up \in [Nodes -> 0..(N - 1)]
    /\ target \in [Nodes -> Nodes \union {Nowhere}]

(* Once the chain has left the links it stays where it is. *)
LEMMA ChainStays ==
    ASSUME NEW n, NEW k \in 0..N, ~ IsLink(Chain(n)[k])
    PROVE  Chain(n)[N] = Chain(n)[k]
  <1> DEFINE at == Chain(n)
             T == {j \in Nat : k <= j /\ j <= N /\ at[j] # at[k]}
  <1>1. N \in Nat /\ k \in Nat /\ k <= N
    BY CopyAssumption
  <1>2. \A j \in 0..N : j # 0 => at[j] = Hop(at[j - 1])
    BY ChainIs DEF IsChain
  <1>3. ~ IsLink(at[k])
    OBVIOUS
  <1> HIDE DEF at
  <1> SUFFICES ASSUME at[N] # at[k] PROVE FALSE
    BY DEF at
  <1>4. N \in T /\ T \subseteq Nat
    BY <1>1
  <1>5. PICK j \in T : \A i \in T : j <= i
    <2> HIDE DEF T
    <2> QED BY <1>4, LeastNumber
  <1>6. j # k /\ j - 1 \in Nat /\ k <= j - 1 /\ j \in 0..N
    BY <1>1, <1>5
  <1>7. at[j - 1] = at[k]
    BY <1>1, <1>5, <1>6
  <1>8. at[j] = at[k]
    BY <1>2, <1>3, <1>6, <1>7 DEF Hop
  <1> QED BY <1>5, <1>8

LEMMA HopsType ==
    ASSUME NEW n
    PROVE  Hops(n) \in Nat
  <1> DEFINE L == {k \in 0..(N - 1) : IsLink(Chain(n)[k])}
  <1>1. IsFiniteSet(0..(N - 1))
    BY CopyAssumption, FS_Interval
  <1>2. IsFiniteSet(L)
    BY <1>1, FS_Subset
  <1>3. Cardinality(L) \in Nat
    BY <1>2, FS_CardinalityType
  <1> QED BY <1>3 DEF Hops

(* With fewer than N links on the way the chain has an end. *)
LEMMA FewHops ==
    ASSUME NEW n, Hops(n) < N
    PROVE  ~ IsLink(Final(n))
  <1>1. CASE IsLink(n)
    <2> DEFINE L == {k \in 0..(N - 1) : IsLink(Chain(n)[k])}
    <2>1. IsFiniteSet(0..(N - 1)) /\ Cardinality(0..(N - 1)) = N
      BY CopyAssumption, FS_Interval
    <2>2. L # 0..(N - 1)
      <3>1. Hops(n) = Cardinality(L)
        BY <1>1 DEF Hops
      <3>2. Hops(n) # N
        BY HopsType, CopyAssumption
      <3> QED BY <2>1, <3>1, <3>2, Zenon
    <2>3. PICK k \in 0..(N - 1) : ~ IsLink(Chain(n)[k])
      BY <2>2
    <2>4. k \in 0..N
      BY CopyAssumption
    <2>5. Chain(n)[N] = Chain(n)[k]
      BY <2>3, <2>4, ChainStays
    <2> QED BY <1>1, <2>3, <2>5 DEF Final
  <1>2. CASE ~ IsLink(n)
    BY <1>2 DEF Final
  <1> QED BY <1>1, <1>2

(* A chain of links stays among the nodes. *)
LEMMA FinalType ==
    ASSUME SourceOK, NEW n \in Nodes
    PROVE  Final(n) \in Nodes \union {Nowhere}
  <1> DEFINE at == Chain(n)
             T == {j \in Nat : j <= N /\ at[j] \notin Nodes \union {Nowhere}}
  <1>1. N \in Nat
    BY CopyAssumption
  <1>2. at[0] = n /\ \A j \in 0..N : j # 0 => at[j] = Hop(at[j - 1])
    BY <1>1, ChainIs DEF IsChain
  <1>3. at[N] = Chain(n)[N]
    OBVIOUS
  <1> HIDE DEF at
  <1>4. ASSUME at[N] \notin Nodes \union {Nowhere} PROVE FALSE
    <2>1. N \in T /\ T \subseteq Nat
      BY <1>1, <1>4
    <2>2. PICK j \in T : \A i \in T : j <= i
      <3> HIDE DEF T
      <3> QED BY <2>1, LeastNumber
    <2>3. j # 0 /\ j - 1 \in Nat /\ j \in 0..N /\ j - 1 < j
      BY <1>1, <1>2, <2>2
    <2>4. at[j - 1] \in Nodes \union {Nowhere}
      BY <1>1, <2>2, <2>3
    <2>5. at[j] \in Nodes \union {Nowhere}
      BY <1>2, <2>3, <2>4 DEF Hop, IsLink, SourceOK
    <2> QED BY <2>2, <2>5
  <1> QED BY <1>3, <1>4 DEF Final

LEMMA FollowIs ==
    ASSUME SourceOK, NEW n \in Nodes, NEW links, Follow(n, links) # Nowhere
    PROVE  /\ Follow(n, links) = Final(n)
           /\ Final(n) \in Nodes
           /\ kind[Final(n)] \in {"dir", "file"}
           /\ links + Hops(n) <= MAXSYMLINKS
  <1>1. Follow(n, links) = Final(n) /\ Hops(n) < N /\ links + Hops(n) <= MAXSYMLINKS
    BY DEF Follow
  <1>2. Final(n) \in Nodes
    BY <1>1, FinalType
  <1>3. ~ IsLink(Final(n))
    BY <1>1, FewHops
  <1> QED BY <1>1, <1>2, <1>3 DEF IsLink, SourceOK, Nodes, Nowhere

LEMMA FollowNoLink ==
    ASSUME SourceOK, NEW n \in Nodes, kind[n] # "link", NEW links \in Nat, links <= MAXSYMLINKS
    PROVE  Follow(n, links) = n /\ Final(n) = n /\ Hops(n) = 0
  BY CopyAssumption DEF Follow, Final, Hops, IsLink

(***************************************************************************)
(* The links on a path.                                                    *)
(***************************************************************************)
IsSum(path, m, sum) == sum = [k \in 0..m |-> IF k = 0 THEN 0 ELSE sum[k - 1] + Hops(path[k])]

LEMMA SumExists ==
    ASSUME NEW path, NEW m \in Nat
    PROVE  \E sum : IsSum(path, m, sum)
  <1> DEFINE T == {i \in Nat : ~ \E sum : IsSum(path, i, sum)}
  <1> SUFFICES ASSUME T # {} PROVE FALSE
    OBVIOUS
  <1>1. PICK i \in T : \A j \in T : i <= j
    <2>1. T \subseteq Nat
      OBVIOUS
    <2> HIDE DEF T
    <2> QED BY <2>1, LeastNumber
  <1>2. CASE i = 0
    <2>1. IsSum(path, 0, [k \in 0..0 |-> 0])
      BY DEF IsSum
    <2> QED BY <1>2, <2>1
  <1>3. CASE i # 0
    <2>1. i - 1 \in Nat /\ i - 1 \notin T
      BY <1>1, <1>3
    <2>2. PICK sum : IsSum(path, i - 1, sum)
      BY <2>1
    <2> DEFINE new == [k \in 0..i |-> IF k = i THEN sum[i - 1] + Hops(path[i]) ELSE sum[k]]
    <2>3. ASSUME NEW k \in 0..i
          PROVE  new[k] = IF k = 0 THEN 0 ELSE new[k - 1] + Hops(path[k])
      BY <1>3, <2>2 DEF IsSum
    <2>4. IsSum(path, i, new)
      BY <2>3 DEF IsSum
    <2> QED BY <2>4
  <1> QED BY <1>2, <1>3

(* Two such sums that see the same nodes are the same. *)
LEMMA SumsAgree ==
    ASSUME NEW p, NEW q, NEW m \in Nat, NEW l \in Nat, m <= l, NEW f, NEW g,
           IsSum(p, m, f), IsSum(q, l, g), \A k \in 1..m : p[k] = q[k]
    PROVE  f[m] = g[m]
  <1> DEFINE T == {i \in Nat : i <= m /\ f[i] # g[i]}
  <1> SUFFICES ASSUME f[m] # g[m] PROVE FALSE
    OBVIOUS
  <1>1. m \in T /\ T \subseteq Nat
    OBVIOUS
  <1>2. PICK i \in T : \A j \in T : i <= j
    <2> HIDE DEF T
    <2> QED BY <1>1, LeastNumber
  <1>3. /\ f[0] = 0 /\ g[0] = 0
        /\ \A k \in 1..m : f[k] = f[k - 1] + Hops(p[k]) /\ g[k] = g[k - 1] + Hops(q[k])
    BY DEF IsSum
  <1>4. i \in 1..m /\ i - 1 \in Nat /\ i - 1 <= m
    BY <1>2, <1>3
  <1>5. f[i - 1] = g[i - 1]
    BY <1>2, <1>4
  <1>6. f[i] = g[i]
    BY <1>3, <1>4, <1>5
  <1> QED BY <1>2, <1>6

LEMMA LinksToIs ==
    ASSUME NEW path \in Seq(Nodes)
    PROVE  \E sum : IsSum(path, Len(path), sum) /\ LinksTo(path) = sum[Len(path)]
  <1> DEFINE s == CHOOSE sum : IsSum(path, Len(path), sum)
  <1>1. Len(path) \in Nat
    OBVIOUS
  <1>2. \E sum : IsSum(path, Len(path), sum)
    BY <1>1, SumExists
  <1>3. IsSum(path, Len(path), s)
    BY <1>2
  <1>4. LinksTo(path) = s[Len(path)]
    BY DEF LinksTo, IsSum
  <1> QED BY <1>3, <1>4

LEMMA LinksToEmpty == LinksTo(<<>>) = 0
  <1>1. <<>> \in Seq(Nodes) /\ Len(<<>>) = 0
    OBVIOUS
  <1>2. PICK sum : IsSum(<<>>, 0, sum) /\ LinksTo(<<>>) = sum[0]
    BY <1>1, LinksToIs
  <1> QED BY <1>2 DEF IsSum

LEMMA LinksToAppend ==
    ASSUME NEW path \in Seq(Nodes), NEW n \in Nodes
    PROVE  LinksTo(Append(path, n)) = LinksTo(path) + Hops(n)
  <1> DEFINE l == Len(path)
             q == Append(path, n)
  <1>1. /\ l \in Nat /\ q \in Seq(Nodes) /\ Len(q) = l + 1 /\ q[l + 1] = n
        /\ \A k \in 1..l : path[k] = q[k]
    OBVIOUS
  <1>2. PICK f : IsSum(path, l, f) /\ LinksTo(path) = f[l]
    BY LinksToIs
  <1> HIDE DEF q
  <1>3. PICK g : IsSum(q, l + 1, g) /\ LinksTo(q) = g[l + 1]
    BY <1>1, LinksToIs
  <1> HIDE DEF l
  <1>4. f[l] = g[l]
    <2>1. l + 1 \in Nat /\ l <= l + 1
      BY <1>1
    <2> QED BY <1>1, <1>2, <1>3, <2>1, SumsAgree
  <1>5. g[l + 1] = g[l] + Hops(q[l + 1])
    BY <1>1, <1>3 DEF IsSum
  <1> QED BY <1>1, <1>2, <1>3, <1>4, <1>5 DEF q

(***************************************************************************)
(* The invariant.                                                          *)
(***************************************************************************)
Frame == [path : Seq(Nodes), links : Nat, todo : SUBSET Nodes]

(* A call of copy_directory works on a directory that it has made; the     *)
(* links of its source path are those the path goes through, and the       *)
(* kernel has followed them.                                               *)
FrameOK(fr) ==
    /\ DirAt(fr.path)
    /\ fr.links = LinksTo(fr.path)
    /\ fr.links <= MAXSYMLINKS
    /\ fr.todo \subseteq Entries(Final(NodeAt(fr.path)))
    /\ copy_symlinks => kind[NodeAt(fr.path)] = "dir"

Frames(s) ==
    /\ s \in Seq(Frame)
    /\ \A i \in 1..Len(s) : FrameOK(s[i])

(* What CopiesOnly says of an object at a path. *)
ModeFor(t) == IF copy_permissions THEN mode[t] ELSE DefaultMode

IsCopy(path, object) ==
    LET n == NodeAt(path)
        t == Final(n)
        m == ModeFor(t)
    IN  \/ kind[n] = "link" /\ copy_symlinks /\ object = [type |-> "link", to |-> target[n]]
        \/ kind[t] = "dir" /\ object = [type |-> "dir", mode |-> m \ umask]
        \/ kind[t] = "file" /\ object = [type |-> "file", of |-> t, whole |-> TRUE, mode |-> m]
        \/ /\ path \in failed /\ object.type = "file" /\ object.of = t
           /\ object.mode \in {DefaultMode, m}
           /\ kind[t] = "dir" => ~ object.whole

Placed(path) == SourcePath(path) /\ (path # <<>> => DirAt(Front(path)))

Copies ==
    /\ DOMAIN dst \subseteq Seq(Nodes)
    /\ \A path \in DOMAIN dst : Placed(path) /\ (IsCopy(path, dst[path]) \/ Copying(path))

(* The file that copy_file has made and not yet left. *)
FileSteps == {"write", "chmod"}
FileOf(t, w, m) == [type |-> "file", of |-> t, whole |-> w, mode |-> m]

DraftOK(path, w) ==
    /\ w \in BOOLEAN
    /\ path \in DOMAIN dst /\ dst[path] = FileOf(Final(file), w, DefaultMode)
    /\ w => kind[Final(file)] = "file"
    /\ w = FALSE => pc = "write" \/ path \in failed
    /\ kind[Final(file)] = "dir" => path \in failed

Drafting ==
    pc \in FileSteps =>
      /\ stack # <<>> /\ file \in Nodes
      /\ Follow(file, Top.links) = Final(file)
      /\ pc = "chmod" => copy_permissions
      /\ \E w : DraftOK(PathOf(file), w)

TreeInv ==
    /\ SourceOK
    /\ copy_symlinks \in BOOLEAN /\ copy_permissions \in BOOLEAN
    /\ Copies
    /\ Frames(stack)
    /\ Drafting

(* Every entry of a directory copied has been dealt with or will be. *)
Handled(path, n) ==
    \/ Append(path, n) \in DOMAIN dst \union failed
    \/ ~ copy_symlinks /\ Follow(n, LinksTo(path)) = Nowhere
    \/ copy_permissions /\ "w" \notin dst[path].mode

Pending(s, path, n) == \E i \in 1..Len(s) : s[i].path = path /\ n \in s[i].todo

Complete ==
    \A path \in DOMAIN dst \ failed :
      dst[path].type = "dir" =>
        \A n \in Entries(Final(NodeAt(path))) : Handled(path, n) \/ Pending(stack, path, n)

MainBegins ==
    IF pc = "main" THEN stack = <<>> ELSE <<>> \in DOMAIN dst \union failed

EndInv == Complete /\ MainBegins /\ (pc = "exited" => stack = <<>>)

(***************************************************************************)
(* What steps have in common: the source stays, the destination grows,     *)
(* and only files change in it.                                            *)
(***************************************************************************)
Grows ==
    /\ UNCHANGED <<source, flags>>
    /\ failed \subseteq failed'
    /\ DOMAIN dst \subseteq DOMAIN dst'
    /\ \A q \in DOMAIN dst : \/ dst'[q] = dst[q]
                             \/ dst[q].type = "file" /\ dst'[q].type = "file"

LEMMA SourceKept ==
    ASSUME UNCHANGED <<source, flags>>
    PROVE  /\ kind' = kind /\ up' = up /\ mode' = mode /\ target' = target
           /\ copy_symlinks' = copy_symlinks /\ copy_permissions' = copy_permissions
           /\ SourceOK => SourceOK'
           /\ \A n : Final(n)' = Final(n) /\ Hops(n)' = Hops(n) /\ Entries(n)' = Entries(n)
           /\ \A n, l : Follow(n, l)' = Follow(n, l)
           /\ \A p : LinksTo(p)' = LinksTo(p) /\ NodeAt(p)' = NodeAt(p)
           /\ \A p : SourcePath(p)' <=> SourcePath(p)
  <1>1. kind' = kind /\ up' = up /\ mode' = mode /\ target' = target
    BY DEF source
  <1>2. copy_symlinks' = copy_symlinks /\ copy_permissions' = copy_permissions
    BY DEF flags
  <1>3. SourceOK => SourceOK'
    BY <1>1 DEF SourceOK
  <1>4. \A n : Chain(n)' = Chain(n) /\ (IsLink(n)' <=> IsLink(n))
    BY <1>1 DEF Chain, IsLink
  <1>5. \A n : Final(n)' = Final(n) /\ Entries(n)' = Entries(n)
    BY <1>1, <1>4 DEF Final, Entries
  <1>6. ASSUME NEW n PROVE Hops(n)' = Hops(n)
    <2>1. {k \in 0..(N - 1) : IsLink(Chain(n)[k])}' = {k \in 0..(N - 1) : IsLink(Chain(n)[k])}
      BY <1>4
    <2> QED BY <1>4, <2>1 DEF Hops
  <1>7. \A n, l : Follow(n, l)' = Follow(n, l)
    BY <1>5, <1>6 DEF Follow
  <1>8. \A p : LinksTo(p)' = LinksTo(p)
    BY <1>6 DEF LinksTo
  <1>9. \A p : NodeAt(p)' = NodeAt(p)
    BY DEF NodeAt
  <1>10. \A p : SourcePath(p)' <=> SourcePath(p)
    BY <1>1, <1>2, <1>5 DEF SourcePath, NodeAt
  <1> QED BY <1>1, <1>2, <1>3, <1>5, <1>6, <1>7, <1>8, <1>9, <1>10

LEMMA PathGrows ==
    ASSUME NEW path \in Seq(Nodes), NEW n \in Nodes, SourcePath(path),
           up[n] = Final(NodeAt(path)), copy_symlinks => kind[NodeAt(path)] = "dir"
    PROVE  /\ Append(path, n) \in Seq(Nodes) /\ Append(path, n) # <<>>
           /\ NodeAt(Append(path, n)) = n
           /\ Front(Append(path, n)) = path
           /\ SourcePath(Append(path, n))
  <1> DEFINE q == Append(path, n)
             l == Len(path)
  <1>1. /\ l \in Nat /\ q \in Seq(Nodes) /\ Len(q) = l + 1 /\ q[l + 1] = n /\ q # <<>>
        /\ \A k \in 1..l : q[k] = path[k]
    OBVIOUS
  <1>2. ASSUME NEW i \in 1..(l + 1)
        PROVE  SubSeq(q, 1, i - 1) = SubSeq(path, 1, i - 1)
    <2>1. i - 1 \in Nat /\ i - 1 <= l
      BY <1>1
    <2> QED BY <1>1, <2>1
  <1>3. SubSeq(path, 1, l) = path
    OBVIOUS
  <1>4. Front(q) = path
    BY <1>1, <1>2, <1>3 DEF Front
  <1>5. NodeAt(q) = n
    BY <1>1 DEF NodeAt, Last
  <1>6. SourcePath(q)
    <2> SUFFICES ASSUME NEW i \in 1..(l + 1)
                 PROVE  LET before == SubSeq(path, 1, i - 1)
                        IN  /\ up[q[i]] = Final(NodeAt(before))
                            /\ copy_symlinks => kind[NodeAt(before)] = "dir"
      BY <1>1, <1>2 DEF SourcePath
    <2>1. CASE i = l + 1
      <3>1. i - 1 = l
        BY <1>1, <2>1
      <3>2. SubSeq(path, 1, i - 1) = path /\ q[i] = n
        BY <1>1, <1>3, <2>1, <3>1
      <3> HIDE DEF q, l
      <3> QED BY <3>2
    <2>2. CASE i # l + 1
      <3>1. i \in 1..l /\ q[i] = path[i]
        BY <1>1, <2>2
      <3> QED BY <3>1 DEF SourcePath
    <2> QED BY <2>1, <2>2
  <1> QED BY <1>1, <1>4, <1>5, <1>6

LEMMA FramesKept ==
    ASSUME Grows, NEW CONSTANT s, Frames(s)
    PROVE  Frames(s)'
  <1>1. UNCHANGED <<source, flags>>
    BY DEF Grows
  <1>2. ASSUME NEW i \in 1..Len(s) PROVE FrameOK(s[i])'
    <2>1. FrameOK(s[i])
      BY DEF Frames
    <2>2. DirAt(s[i].path)'
      BY <2>1 DEF FrameOK, DirAt, Grows
    <2> QED BY <1>1, <2>1, <2>2, SourceKept DEF FrameOK
  <1> QED BY <1>2 DEF Frames, Frame

(* Objects that are there stay copies. *)
LEMMA CopyStays ==
    ASSUME Grows, NEW CONSTANT q \in DOMAIN dst, dst'[q] = dst[q], Placed(q)
    PROVE  Placed(q)' /\ (IsCopy(q, dst[q]) => IsCopy(q, dst[q])')
  <1>1. UNCHANGED <<source, flags>> /\ q \in DOMAIN dst'
    BY DEF Grows
  <1>2. Placed(q)'
    BY <1>1, SourceKept DEF Placed, DirAt, Grows
  <1>3. ModeFor(Final(NodeAt(q)))' = ModeFor(Final(NodeAt(q)))
    BY <1>1, SourceKept DEF ModeFor
  <1>4. IsCopy(q, dst[q]) => IsCopy(q, dst[q])'
    BY <1>1, <1>3, SourceKept DEF IsCopy, Grows
  <1> QED BY <1>2, <1>4

LEMMA MakeGrows ==
    ASSUME UNCHANGED <<source, flags>>, failed \subseteq failed',
           NEW path, path \notin DOMAIN dst, NEW object, Make(path, object)
    PROVE  /\ Grows
           /\ DOMAIN dst' = DOMAIN dst \union {path}
           /\ dst'[path] = object
           /\ \A q \in DOMAIN dst : dst'[q] = dst[q]
  BY DEF Grows, Make

LEMMA MakeCopies ==
    ASSUME Copies, pc \notin FileSteps, UNCHANGED <<source, flags>>, failed \subseteq failed',
           NEW CONSTANT path \in Seq(Nodes), path \notin DOMAIN dst, NEW object,
           Make(path, object), Placed(path), IsCopy(path, object) \/ Copying(path)'
    PROVE  Copies' /\ Grows
  <1>1. /\ Grows
        /\ DOMAIN dst' = DOMAIN dst \union {path}
        /\ dst'[path] = object
        /\ \A q \in DOMAIN dst : dst'[q] = dst[q]
    BY MakeGrows
  <1>2. DOMAIN dst' \subseteq Seq(Nodes)
    BY <1>1 DEF Copies
  <1>3. Placed(path)'
    BY <1>1, SourceKept DEF Placed, DirAt, Grows
  <1>4. IsCopy(path, dst[path])' \/ Copying(path)'
    <2>1. ModeFor(Final(NodeAt(path)))' = ModeFor(Final(NodeAt(path)))
      BY SourceKept DEF ModeFor
    <2> SUFFICES ASSUME IsCopy(path, object) PROVE IsCopy(path, dst[path])'
      OBVIOUS
    <2> QED BY <1>1, <2>1, SourceKept DEF IsCopy
  <1>5. ASSUME NEW q \in DOMAIN dst PROVE Placed(q)' /\ IsCopy(q, dst[q])'
    <2>1. Placed(q) /\ IsCopy(q, dst[q])
      BY DEF Copies, Copying, FileSteps
    <2> QED BY <1>1, <2>1, CopyStays
  <1> QED BY <1>1, <1>2, <1>3, <1>4, <1>5 DEF Copies

(* Nothing is made, and copy_file is not at work or goes on as it is. *)
SameFile ==
    \/ pc \notin FileSteps /\ pc' \notin FileSteps
    \/ UNCHANGED <<pc, file, stack>>

LEMMA SameCopies ==
    ASSUME Copies, Grows, dst' = dst, SameFile
    PROVE  Copies'
  <1>1. ASSUME NEW q PROVE Copying(q) => Copying(q)'
    BY DEF SameFile, Copying, FileSteps, PathOf, Top
  <1>2. ASSUME NEW CONSTANT q \in DOMAIN dst
        PROVE  Placed(q)' /\ (IsCopy(q, dst[q])' \/ Copying(q)')
    <2>1. Placed(q) /\ (IsCopy(q, dst[q]) \/ Copying(q))
      BY DEF Copies
    <2>2. dst'[q] = dst[q]
      OBVIOUS
    <2> QED BY <1>1, <2>1, <2>2, CopyStays
  <1> QED BY <1>2 DEF Copies

LEMMA SameDraft ==
    ASSUME Drafting, Grows, dst' = dst, SameFile
    PROVE  Drafting'
  <1> SUFFICES ASSUME pc' \in FileSteps PROVE Drafting'
    BY DEF Drafting
  <1>1. pc' = pc /\ file' = file /\ stack' = stack /\ pc \in FileSteps
    BY DEF SameFile
  <1>2. Top' = Top /\ PathOf(file)' = PathOf(file)
    BY <1>1 DEF Top, PathOf
  <1>3. Follow(file, Top.links)' = Follow(file, Top.links) /\ Final(file)' = Final(file)
    BY <1>1, <1>2, SourceKept DEF Grows
  <1>4. PICK w : DraftOK(PathOf(file), w)
    BY <1>1 DEF Drafting
  <1>5. DraftOK(PathOf(file), w)'
    BY <1>1, <1>2, <1>3, <1>4, SourceKept DEF DraftOK, Grows
  <1> QED BY <1>1, <1>3, <1>5, SourceKept DEF Drafting, Grows

(***************************************************************************)
(* The stack.                                                              *)
(***************************************************************************)

(* The call on top of the stack. *)
LEMMA TopFrame ==
    ASSUME TreeInv, stack # <<>>
    PROVE  /\ Len(stack) \in 1..Len(stack)
           /\ Top = stack[Len(stack)]
           /\ Top \in Frame /\ FrameOK(Top)
  <1>1. stack \in Seq(Frame)
    BY DEF TreeInv, Frames
  <1>2. Len(stack) \in 1..Len(stack)
    BY <1>1
  <1>3. Top = stack[Len(stack)]
    BY DEF Top, Last
  <1>4. Top \in Frame /\ FrameOK(Top)
    BY <1>1, <1>2, <1>3 DEF TreeInv, Frames
  <1> QED BY <1>2, <1>3, <1>4

LEMMA AtTop ==
    ASSUME TreeInv, NEW n, Readdir(n)
    PROVE  /\ Len(stack) \in 1..Len(stack)
           /\ Top = stack[Len(stack)]
           /\ Top \in Frame /\ FrameOK(Top)
           /\ n \in Nodes /\ n \in Top.todo
  BY TopFrame DEF Readdir, Frame

(* The file that is being copied. *)
LEMMA DraftPath ==
    ASSUME TreeInv, pc \in FileSteps
    PROVE  /\ stack # <<>> /\ file \in Nodes /\ NodeAt(PathOf(file)) = file
           /\ PathOf(file) \in Seq(Nodes) /\ PathOf(file) \in DOMAIN dst
  <1>1. stack # <<>> /\ file \in Nodes /\ PathOf(file) \in DOMAIN dst
    BY DEF TreeInv, Drafting, DraftOK
  <1>2. Top.path \in Seq(Nodes)
    BY <1>1, TopFrame DEF Frame
  <1>3. /\ Append(Top.path, file) # <<>> /\ Append(Top.path, file) \in Seq(Nodes)
        /\ Last(Append(Top.path, file)) = file
    BY <1>1, <1>2 DEF Last
  <1> QED BY <1>1, <1>3 DEF NodeAt, PathOf

LEMMA CopiesAre == TreeInv => CopiesOnly
  <1> SUFFICES ASSUME TreeInv, Copies, Drafting, NEW path \in DOMAIN dst
               PROVE  LET n == NodeAt(path)
                          t == Final(n)
                          m == ModeFor(t)
                      IN  \/ kind[n] = "link" /\ copy_symlinks
                             /\ dst[path] = [type |-> "link", to |-> target[n]]
                          \/ /\ kind[t] = "dir" /\ dst[path].type = "dir"
                             /\ m \ umask \subseteq dst[path].mode /\ dst[path].mode \subseteq m
                          \/ kind[t] = "file" /\ dst[path] = FileOf(t, TRUE, m)
                          \/ /\ Copying(path) \/ path \in failed
                             /\ dst[path].type = "file" /\ dst[path].of = t
                             /\ dst[path].mode \in {DefaultMode, m}
                             /\ kind[t] = "dir" => path \in failed /\ ~ dst[path].whole
    BY DEF TreeInv, Copies, CopiesOnly, Placed, ModeFor, FileOf
  <1>1. CASE IsCopy(path, dst[path])
    BY <1>1 DEF IsCopy, FileOf
  <1>2. CASE Copying(path)
    <2>1. PICK w : DraftOK(path, w)
      BY <1>2 DEF Drafting, Copying, FileSteps
    <2>2. NodeAt(path) = file
      BY <1>2, DraftPath DEF Copying, FileSteps
    <2>3. /\ dst[path].type = "file" /\ dst[path].of = Final(file)
          /\ dst[path].mode = DefaultMode /\ dst[path].whole = w
      BY <2>1 DEF DraftOK, FileOf
    <2> QED BY <1>2, <2>1, <2>2, <2>3 DEF DraftOK
  <1> QED BY <1>1, <1>2 DEF Copies

LEMMA OthersAre ==
    ASSUME TreeInv, NEW n, Readdir(n)
    PROVE  /\ Frames(Others(n)) /\ Others(n) # <<>>
           /\ Last(Others(n)).path = Top.path /\ Last(Others(n)).links = Top.links
           /\ \A path, k : Pending(stack, path, k) =>
                Pending(Others(n), path, k) \/ (path = Top.path /\ k = n)
  <1> DEFINE l == Len(stack)
             o == Others(n)
             fr == [stack[l] EXCEPT !.todo = @ \ {n}]
  <1>1. /\ l \in 1..l /\ Top = stack[l] /\ stack[l] \in Frame /\ FrameOK(stack[l])
    BY AtTop
  <1>2. stack \in Seq(Frame) /\ l \in Nat /\ \A i \in 1..l : FrameOK(stack[i])
    BY DEF TreeInv, Frames
  <1>3. /\ fr \in Frame /\ fr.path = stack[l].path /\ fr.links = stack[l].links
        /\ fr.todo = stack[l].todo \ {n}
    BY <1>1 DEF Frame
  <1>4. FrameOK(fr)
    BY <1>1, <1>3 DEF FrameOK
  <1>5. o = [stack EXCEPT ![l] = fr]
    BY DEF Others
  <1> HIDE DEF o, fr
  <1>6. /\ o \in Seq(Frame) /\ Len(o) = l
        /\ \A i \in 1..l : o[i] = IF i = l THEN fr ELSE stack[i]
    BY <1>1, <1>2, <1>3, <1>5
  <1> HIDE DEF l
  <1>7. Frames(o)
    BY <1>2, <1>4, <1>6 DEF Frames
  <1>8. ASSUME NEW path, NEW k, Pending(stack, path, k)
        PROVE  Pending(o, path, k) \/ (path = Top.path /\ k = n)
    BY <1>1, <1>3, <1>6, <1>8 DEF Pending, l
  <1>9. o # <<>> /\ Last(o).path = Top.path /\ Last(o).links = Top.links
    BY <1>1, <1>3, <1>6 DEF Last
  <1> QED BY <1>7, <1>8, <1>9 DEF o

LEMMA Pushed ==
    ASSUME NEW CONSTANT s \in Seq(Frame), NEW CONSTANT fr \in Frame
    PROVE  /\ Append(s, fr) \in Seq(Frame)
           /\ \A i \in 1..Len(Append(s, fr)) :
                (i \in 1..Len(s) /\ Append(s, fr)[i] = s[i]) \/ Append(s, fr)[i] = fr
           /\ \A path, k : Pending(s, path, k) => Pending(Append(s, fr), path, k)
           /\ \A k \in fr.todo : Pending(Append(s, fr), fr.path, k)
  <1> DEFINE q == Append(s, fr)
             l == Len(s)
  <1>1. /\ l \in Nat /\ q \in Seq(Frame) /\ Len(q) = l + 1
        /\ \A i \in 1..l : q[i] = s[i]
        /\ q[l + 1] = fr
    OBVIOUS
  <1> HIDE DEF q, l
  <1>2. \A i \in 1..(l + 1) : (i \in 1..l /\ q[i] = s[i]) \/ q[i] = fr
    <2> SUFFICES ASSUME NEW i \in 1..(l + 1) PROVE (i \in 1..l /\ q[i] = s[i]) \/ q[i] = fr
      OBVIOUS
    <2>1. i \in 1..l \/ i = l + 1
      BY <1>1
    <2> QED BY <1>1, <2>1
  <1>3. \A path, k : Pending(s, path, k) => Pending(q, path, k)
    BY <1>1 DEF Pending, l
  <1>4. \A k \in fr.todo : Pending(q, fr.path, k)
    BY <1>1 DEF Pending
  <1> QED BY <1>1, <1>2, <1>3, <1>4 DEF q, l

(***************************************************************************)
(* The steps.                                                              *)
(***************************************************************************)

(* What a call of copy_directory for node n is given. *)
Asked(n, links, path) ==
    /\ n \in Nodes /\ links \in Nat /\ path \in Seq(Nodes)
    /\ NodeAt(path) = n /\ Placed(path)
    /\ LinksTo(path) = links + Hops(n)
    /\ Follow(n, links) # Nowhere
    /\ kind[Follow(n, links)] = "dir"
    /\ copy_symlinks => kind[n] = "dir"

LEMMA EntersKeeps ==
    ASSUME TreeInv, UNCHANGED <<source, flags>>, pc \notin FileSteps, pc' \notin FileSteps,
           NEW CONSTANT n, NEW CONSTANT links, NEW CONSTANT path, NEW CONSTANT callers,
           Asked(n, links, path), Frames(callers),
           EnterDirectory(n, links, path, callers)
    PROVE  /\ TreeInv' /\ Grows
           /\ DOMAIN dst' = DOMAIN dst \union {path}
           /\ \A q, k : Pending(callers, q, k) => Pending(stack', q, k)
           /\ path \in failed' \/ \A k \in Entries(Final(n)) : Pending(stack', path, k)
  <1> DEFINE d == Follow(n, links)
             object == [type |-> "dir",
                        mode |-> IF copy_permissions THEN mode[d] \ umask ELSE DefaultMode]
             fr == [path |-> path, links |-> links + Hops(n), todo |-> Entries(d)]
  <1>1. SourceOK /\ Copies
    BY DEF TreeInv
  <1>2. d = Final(n) /\ d \in Nodes /\ kind[d] = "dir" /\ links + Hops(n) <= MAXSYMLINKS
    BY <1>1, FollowIs DEF Asked
  <1>3. Make(path, object) /\ path \notin DOMAIN dst /\ failed \subseteq failed'
    BY DEF EnterDirectory, Creatable, Fails
  <1>4. IsCopy(path, object)
    <2>1. object = [type |-> "dir", mode |-> ModeFor(d) \ umask]
      BY DEF ModeFor, DefaultMode, umask
    <2> QED BY <1>2, <2>1 DEF IsCopy, Asked
  <1>5. /\ Copies' /\ Grows
        /\ DOMAIN dst' = DOMAIN dst \union {path} /\ dst'[path] = object
    <2>1. path \in Seq(Nodes) /\ Placed(path)
      BY DEF Asked
    <2> HIDE DEF object
    <2>2. /\ DOMAIN dst' = DOMAIN dst \union {path}
          /\ dst'[path] = object
      BY <1>3, MakeGrows
    <2>3. Copies' /\ Grows
      BY <1>1, <1>3, <1>4, <2>1, MakeCopies
    <2> QED BY <2>2, <2>3
  <1>6. SourceOK' /\ copy_symlinks' \in BOOLEAN /\ copy_permissions' \in BOOLEAN
    BY <1>1, SourceKept DEF TreeInv
  <1>7. Frames(callers)'
    BY <1>5, FramesKept
  <1>8. CASE stack' = callers /\ path \in failed'
    BY <1>5, <1>6, <1>7, <1>8 DEF TreeInv, Drafting
  <1>9. CASE stack' = Append(callers, fr)
    <2>1. fr \in Frame
      BY HopsType DEF Frame, Asked, Entries
    <2>2. PICK new \in Frame : new = fr
      BY <2>1
    <2>3. FrameOK(new)'
      <3>1. DirAt(path)'
        BY <1>5 DEF DirAt
      <3> QED BY <1>2, <2>2, <3>1, SourceKept DEF FrameOK, Asked
    <2>4. /\ callers \in Seq(Frame) /\ \A i \in 1..Len(callers) : FrameOK(callers[i])'
      BY <1>7 DEF Frames, Frame
    <2>5. stack' = Append(callers, new)
      BY <1>9, <2>2
    <2>6. Frames(stack)'
      BY <2>3, <2>4, <2>5, Pushed DEF Frames, Frame
    <2>7. /\ \A q, k : Pending(callers, q, k) => Pending(stack', q, k)
          /\ \A k \in new.todo : Pending(stack', new.path, k)
      BY <2>4, <2>5, Pushed
    <2>8. new.path = path /\ new.todo = Entries(Final(n))
      BY <1>2, <2>2
    <2> QED BY <1>5, <1>6, <2>6, <2>7, <2>8 DEF TreeInv, Drafting
  <1> QED BY <1>8, <1>9 DEF EnterDirectory, Fails

LEMMA SkipKeeps ==
    ASSUME TreeInv, UNCHANGED <<source, flags, dst>>, failed \subseteq failed',
           NEW CONSTANT s, Frames(s), stack' = s, SameFile
    PROVE  TreeInv' /\ Grows
  <1>1. Grows
    BY DEF Grows
  <1>2. SourceOK' /\ copy_symlinks' \in BOOLEAN /\ copy_permissions' \in BOOLEAN
    BY SourceKept DEF TreeInv
  <1>3. Copies' /\ Drafting'
    BY <1>1, SameCopies, SameDraft DEF TreeInv
  <1>4. Frames(s)'
    BY <1>1, FramesKept
  <1> QED BY <1>1, <1>2, <1>3, <1>4 DEF TreeInv

(* The path of an entry. *)
LEMMA EntryPath ==
    ASSUME TreeInv, NEW n, Readdir(n)
    PROVE  /\ PathOf(n) \in Seq(Nodes) /\ PathOf(n) # <<>>
           /\ PathOf(n) = Append(Top.path, n) /\ Front(PathOf(n)) = Top.path
           /\ NodeAt(PathOf(n)) = n
           /\ Placed(PathOf(n))
           /\ LinksTo(PathOf(n)) = LinksTo(Top.path) + Hops(n)
           /\ Top.path \in DOMAIN dst /\ DirAt(Top.path)
           /\ Top.links = LinksTo(Top.path) /\ Top.links \in Nat /\ Top.links <= MAXSYMLINKS
  <1>1. Top \in Frame /\ FrameOK(Top) /\ n \in Nodes /\ n \in Top.todo
    BY AtTop
  <1>2. Top.path \in Seq(Nodes) /\ Top.links \in Nat
    BY <1>1 DEF Frame
  <1>3. DirAt(Top.path) /\ Top.path \in DOMAIN dst /\ SourcePath(Top.path)
    BY <1>1 DEF FrameOK, DirAt, TreeInv, Copies, Placed
  <1>4. up[n] = Final(NodeAt(Top.path))
    BY <1>1 DEF FrameOK, Entries
  <1>5. /\ Append(Top.path, n) \in Seq(Nodes) /\ Append(Top.path, n) # <<>>
        /\ NodeAt(Append(Top.path, n)) = n
        /\ Front(Append(Top.path, n)) = Top.path
        /\ SourcePath(Append(Top.path, n))
    <2>1. copy_symlinks => kind[NodeAt(Top.path)] = "dir"
      BY <1>1 DEF FrameOK
    <2> QED BY <1>1, <1>2, <1>3, <1>4, <2>1, PathGrows
  <1>6. LinksTo(Append(Top.path, n)) = LinksTo(Top.path) + Hops(n)
    BY <1>1, <1>2, LinksToAppend
  <1>7. Top.links = LinksTo(Top.path) /\ Top.links <= MAXSYMLINKS
    BY <1>1 DEF FrameOK
  <1> QED BY <1>2, <1>3, <1>5, <1>6, <1>7 DEF PathOf, Placed

LEMMA EntryAsked ==
    ASSUME TreeInv, NEW n, Readdir(n), IsDir(n)
    PROVE  Asked(n, Top.links, PathOf(n))
  <1>1. n \in Nodes /\ SourceOK
    BY AtTop DEF TreeInv
  <1>2. Follow(n, Top.links) # Nowhere /\ kind[Follow(n, Top.links)] = "dir"
    <2>1. CASE kind[n] = "dir"
      <3>1. Follow(n, Top.links) = n
        BY <1>1, <2>1, EntryPath, FollowNoLink
      <3> QED BY <1>1, <2>1, <3>1 DEF Nodes, Nowhere
    <2>2. CASE kind[n] # "dir"
      BY <2>2 DEF IsDir
    <2> QED BY <2>1, <2>2
  <1>3. copy_symlinks => kind[n] = "dir"
    BY DEF IsDir
  <1> QED BY <1>1, <1>2, <1>3, EntryPath DEF Asked

(* The entry has been dealt with, and only that. *)
Dealt(n) ==
    /\ TreeInv' /\ Grows /\ pc' \in {"copy", "write"}
    /\ \A path, k : Pending(stack, path, k) =>
         Pending(stack', path, k) \/ (path = Top.path /\ k = n)
    /\ Handled(Top.path, n) \/ Append(Top.path, n) \in DOMAIN dst' \union failed'
    /\ \A path \in DOMAIN dst' \ DOMAIN dst :
         \/ path \in failed' \/ dst'[path].type # "dir"
         \/ \A k \in Entries(Final(NodeAt(path))) : Pending(stack', path, k)

(* Where nothing can be made, there is something, or -p has taken away     *)
(* the permission.                                                         *)
LEMMA NotCreatable ==
    ASSUME TreeInv, NEW n, Readdir(n), ~ Creatable(PathOf(n))
    PROVE  Handled(Top.path, n)
  <1>1. PathOf(n) \in DOMAIN dst \/ "w" \notin dst[Top.path].mode
    BY EntryPath DEF Creatable
  <1>2. CASE PathOf(n) \in DOMAIN dst
    BY <1>2, EntryPath DEF Handled
  <1>3. CASE "w" \notin dst[Top.path].mode
    <2>1. IsCopy(Top.path, dst[Top.path]) /\ dst[Top.path].type = "dir"
      <3>1. ~ Copying(Top.path)
        BY DEF Readdir, Copying
      <3> QED BY <3>1, EntryPath DEF TreeInv, Copies, DirAt
    <2>2. dst[Top.path].mode = ModeFor(Final(NodeAt(Top.path))) \ umask
      BY <2>1 DEF IsCopy
    <2>3. copy_permissions
      BY <1>3, <2>2 DEF ModeFor, DefaultMode, umask
    <2> QED BY <1>3, <2>3 DEF Handled
  <1> QED BY <1>1, <1>2, <1>3

(* An entry for which nothing is made. *)
LEMMA SkipDealt ==
    ASSUME TreeInv, NEW n, Readdir(n), UNCHANGED <<source, flags, pc, file, dst>>,
           stack' = Others(n), failed \subseteq failed',
           Handled(Top.path, n) \/ PathOf(n) \in failed'
    PROVE  Dealt(n)
  <1>1. PICK s : s = Others(n)
    OBVIOUS
  <1>2. Frames(s) /\ stack' = s
    BY <1>1, OthersAre
  <1>3. SameFile /\ pc' = "copy"
    BY DEF Readdir, SameFile, FileSteps
  <1>4. TreeInv' /\ Grows
    BY <1>2, <1>3, SkipKeeps
  <1> QED BY <1>3, <1>4, OthersAre, EntryPath DEF Dealt

(* An entry for which a link, or a file that is empty yet, is made. *)
Drafted(n, object) ==
    /\ pc' = "write" /\ file' = n
    /\ object = FileOf(Final(n), FALSE, DefaultMode)
    /\ Follow(n, Top.links) = Final(n)
    /\ kind[Final(n)] = "dir" => PathOf(n) \in failed'

LEMMA MakeDealt ==
    ASSUME TreeInv, NEW n, Readdir(n), UNCHANGED <<source, flags>>,
           stack' = Others(n), failed \subseteq failed', Creatable(PathOf(n)),
           NEW object, Make(PathOf(n), object), object.type # "dir",
           (pc' = "copy" /\ IsCopy(PathOf(n), object)) \/ Drafted(n, object)
    PROVE  Dealt(n)
  <1>1. PICK s : s = Others(n)
    OBVIOUS
  <1>2. Frames(s) /\ stack' = s
    BY <1>1, OthersAre
  <1>3. PICK path : path = PathOf(n)
    OBVIOUS
  <1>4. /\ path \in Seq(Nodes) /\ path \notin DOMAIN dst /\ Make(path, object)
        /\ Placed(path) /\ NodeAt(path) = n
    BY <1>3, EntryPath DEF Creatable
  <1>5. Top'.path = Top.path /\ Top'.links = Top.links /\ stack' # <<>>
    BY OthersAre DEF Top
  <1>6. pc \notin FileSteps /\ n \in Nodes
    BY AtTop DEF Readdir, FileSteps
  <1>7. Drafted(n, object) => Copying(path)'
    BY <1>3, <1>5 DEF Drafted, Copying, PathOf
  <1>8. IsCopy(path, object) \/ Copying(path)'
    BY <1>3, <1>7
  <1>9. Copies' /\ Grows
    BY <1>4, <1>6, <1>8, MakeCopies DEF TreeInv
  <1>10. DOMAIN dst' = DOMAIN dst \union {path} /\ dst'[path] = object
    BY <1>4, MakeGrows
  <1>11. Frames(stack)'
    BY <1>2, <1>9, FramesKept
  <1>12. SourceOK' /\ copy_symlinks' \in BOOLEAN /\ copy_permissions' \in BOOLEAN
    BY SourceKept DEF TreeInv
  <1>13. Append(Top.path, n) \in DOMAIN dst'
    BY <1>3, <1>10, EntryPath
  <1>14. Drafting'
    <2>1. CASE pc' = "copy"
      BY <2>1 DEF Drafting, FileSteps
    <2>2. CASE Drafted(n, object)
      <3>1. file' = n /\ pc' = "write" /\ Final(n)' = Final(n) /\ kind' = kind
        BY <2>2, SourceKept DEF Drafted
      <3>2. PathOf(file)' = path
        BY <1>3, <1>5, <3>1 DEF PathOf
      <3>3. Follow(file, Top.links)' = Final(file)'
        BY <1>5, <2>2, <3>1, SourceKept DEF Drafted
      <3>4. dst'[path] = FileOf(Final(n), FALSE, DefaultMode)
        BY <1>10, <2>2 DEF Drafted
      <3>5. kind[Final(n)] = "dir" => path \in failed'
        BY <1>3, <2>2 DEF Drafted
      <3>6. DraftOK(path, FALSE)'
        BY <1>10, <3>1, <3>4, <3>5 DEF DraftOK, FileOf
      <3>7. DraftOK(PathOf(file), FALSE)'
        BY <3>2, <3>6 DEF DraftOK
      <3> QED BY <1>5, <1>6, <3>1, <3>3, <3>7 DEF Drafting
    <2> QED BY <2>1, <2>2
  <1>15. pc' \in {"copy", "write"}
    BY DEF Drafted
  <1> QED BY <1>9, <1>10, <1>11, <1>12, <1>13, <1>14, <1>15, OthersAre DEF Dealt, TreeInv

LEMMA EntryDirectoryDealt ==
    ASSUME TreeInv, NEW n, EntryDirectory(n)
    PROVE  Dealt(n)
  <1>1. Readdir(n) /\ IsDir(n) /\ UNCHANGED <<source, flags, pc, file>>
    BY DEF EntryDirectory
  <1>2. CASE EnterFails(PathOf(n), Others(n))
    <2>1. stack' = Others(n) /\ dst' = dst /\ failed \subseteq failed'
      BY <1>2 DEF EnterFails, Fails
    <2>2. Handled(Top.path, n) \/ PathOf(n) \in failed'
      BY <1>1, <1>2, NotCreatable DEF EnterFails, Fails
    <2> QED BY <1>1, <2>1, <2>2, SkipDealt
  <1>3. CASE EnterDirectory(n, Top.links, PathOf(n), Others(n))
    <2>1. PICK links, path, callers :
            links = Top.links /\ path = PathOf(n) /\ callers = Others(n)
      OBVIOUS
    <2>2. /\ EnterDirectory(n, links, path, callers)
          /\ Asked(n, links, path) /\ Frames(callers)
      BY <1>1, <1>3, <2>1, EntryAsked, OthersAre
    <2>3. /\ TreeInv' /\ Grows
          /\ DOMAIN dst' = DOMAIN dst \union {path}
          /\ \A q, k : Pending(callers, q, k) => Pending(stack', q, k)
          /\ path \in failed' \/ \A k \in Entries(Final(n)) : Pending(stack', path, k)
      BY <1>1, <2>2, EntersKeeps DEF Readdir, FileSteps
    <2>4. NodeAt(path) = n /\ pc' = "copy"
      BY <1>1, <2>2 DEF Asked, Readdir
    <2>5. Append(Top.path, n) = path
      BY <1>1, <2>1, EntryPath
    <2> QED BY <1>1, <2>1, <2>3, <2>4, <2>5, OthersAre DEF Dealt
  <1> QED BY <1>2, <1>3 DEF EntryDirectory

LEMMA CopyLinkDealt ==
    ASSUME TreeInv, NEW n, CopyLink(n)
    PROVE  Dealt(n)
  <1> DEFINE object == [type |-> "link", to |-> target[n]]
  <1>1. /\ Readdir(n) /\ UNCHANGED <<source, flags>> /\ stack' = Others(n)
        /\ failed \subseteq failed' /\ Creatable(PathOf(n)) /\ Make(PathOf(n), object)
        /\ kind[n] = "link" /\ copy_symlinks /\ pc' = "copy"
    BY DEF CopyLink, Readdir
  <1>2. IsCopy(PathOf(n), object) /\ object.type # "dir"
    BY <1>1, EntryPath DEF IsCopy
  <1> HIDE DEF object
  <1> QED BY <1>1, <1>2, MakeDealt

LEMMA OpenFileDealt ==
    ASSUME TreeInv, NEW n, OpenFile(n)
    PROVE  Dealt(n)
  <1>1. /\ Readdir(n) /\ UNCHANGED <<source, flags>> /\ stack' = Others(n)
        /\ failed \subseteq failed' /\ Creatable(PathOf(n))
        /\ kind[n] = "link" => ~ copy_symlinks
        /\ Follow(n, Top.links) # Nowhere
        /\ IsDir(n) => PathOf(n) \in failed'
        /\ pc' = "write" /\ file' = n
    BY DEF OpenFile, Fails
  <1>2. n \in Nodes /\ SourceOK
    BY <1>1, AtTop DEF TreeInv
  <1>3. Follow(n, Top.links) = Final(n)
    BY <1>1, <1>2, FollowIs
  <1>4. kind[Final(n)] = "dir" => IsDir(n)
    <2>1. CASE kind[n] = "link"
      BY <1>1, <1>3, <2>1 DEF IsDir
    <2>2. CASE kind[n] # "link"
      <3>1. Final(n) = n
        BY <2>2 DEF Final, IsLink
      <3> QED BY <3>1 DEF IsDir
    <2> QED BY <2>1, <2>2
  <1> DEFINE object == FileOf(Final(n), FALSE, DefaultMode)
  <1>5. Make(PathOf(n), object)
    BY <1>3 DEF OpenFile, FileOf
  <1>6. object.type # "dir"
    BY DEF FileOf
  <1>7. Drafted(n, object)
    BY <1>1, <1>3, <1>4 DEF Drafted
  <1> HIDE DEF object
  <1> QED BY <1>1, <1>5, <1>6, <1>7, MakeDealt

LEMMA CopyNothingDealt ==
    ASSUME TreeInv, NEW n, CopyNothing(n)
    PROVE  Dealt(n)
  <1>1. /\ Readdir(n) /\ UNCHANGED <<source, flags, pc, file, dst>> /\ stack' = Others(n)
        /\ failed \subseteq failed'
    BY DEF CopyNothing
  <1>2. Handled(Top.path, n)
    <2>1. CASE ~ Creatable(PathOf(n))
      BY <1>1, <2>1, NotCreatable
    <2>2. CASE ~ copy_symlinks /\ Follow(n, Top.links) = Nowhere
      BY <1>1, <2>2, EntryPath DEF Handled
    <2> QED BY <2>1, <2>2 DEF CopyNothing
  <1> QED BY <1>1, <1>2, SkipDealt

LEMMA EntryFailsDealt ==
    ASSUME TreeInv, NEW n, EntryFails(n)
    PROVE  Dealt(n)
  <1>1. /\ Readdir(n) /\ UNCHANGED <<source, flags, pc, file, dst>> /\ stack' = Others(n)
        /\ failed \subseteq failed' /\ PathOf(n) \in failed'
    BY DEF EntryFails, Fails
  <1> QED BY <1>1, SkipDealt

(* A return from copy_directory, with all entries of the directory done. *)
LEMMA ReturnKeeps ==
    ASSUME TreeInv, Return
    PROVE  /\ TreeInv' /\ Grows /\ pc' = pc /\ dst' = dst
           /\ \A path, k : Pending(stack, path, k) => Pending(stack', path, k)
  <1> DEFINE l == Len(stack)
  <1>1. /\ stack \in Seq(Frame) /\ stack # <<>> /\ stack[l].todo = {}
        /\ \A i \in 1..l : FrameOK(stack[i])
        /\ UNCHANGED <<source, flags, pc, dst, failed>> /\ stack' = Front(stack)
        /\ SameFile
    BY DEF Return, TreeInv, Frames, Top, Last, SameFile, FileSteps
  <1>2. PICK s : s = Front(stack)
    OBVIOUS
  <1>3. l \in Nat /\ l >= 1
    BY <1>1
  <1>4. s \in Seq(Frame) /\ Len(s) = l - 1 /\ \A i \in 1..(l - 1) : s[i] = stack[i]
    <2>1. s = SubSeq(stack, 1, l - 1)
      BY <1>2 DEF Front
    <2> DEFINE m == l - 1
    <2>2. m \in 0..Len(stack)
      BY <1>3
    <2> HIDE DEF m
    <2>3. SubSeq(stack, 1, m) \in Seq(Frame) /\ Len(SubSeq(stack, 1, m)) = m
      BY <1>1, <2>2
    <2>4. \A i \in 1..m : SubSeq(stack, 1, m)[i] = stack[i]
      BY <1>1, <2>2
    <2> QED BY <2>1, <2>3, <2>4 DEF m
  <1> HIDE DEF l
  <1>5. Frames(s)
    BY <1>1, <1>3, <1>4 DEF Frames
  <1>6. TreeInv' /\ Grows
    BY <1>1, <1>2, <1>5, SkipKeeps
  <1>7. ASSUME NEW path, NEW k, Pending(stack, path, k) PROVE Pending(s, path, k)
    <2>1. PICK i \in 1..l : stack[i].path = path /\ k \in stack[i].todo
      BY <1>7 DEF Pending, l
    <2>2. i # l
      BY <1>1, <2>1
    <2>3. i \in 1..(l - 1)
      BY <1>3, <2>2
    <2> QED BY <1>4, <2>1, <2>3 DEF Pending
  <1> QED BY <1>1, <1>2, <1>6, <1>7

LEMMA MainKeeps ==
    ASSUME TreeInv, MainBegins, Main
    PROVE  /\ TreeInv' /\ Grows
           /\ <<>> \in DOMAIN dst' \union failed'
           /\ \A path \in DOMAIN dst' \ DOMAIN dst :
                path \in failed' \/ \A k \in Entries(Final(NodeAt(path))) : Pending(stack', path, k)
  <1>1. /\ UNCHANGED <<source, flags>> /\ SourceOK /\ SameFile
        /\ pc \notin FileSteps /\ pc' \notin FileSteps
    BY DEF Main, TreeInv, SameFile, FileSteps
  <1>2. Frames(<<>>)
    BY DEF Frames
  <1>3. CASE EnterFails(<<>>, <<>>)
    <2>1. stack' = <<>> /\ dst' = dst /\ failed \subseteq failed'
      BY <1>3 DEF EnterFails, Fails
    <2>2. <<>> \in DOMAIN dst' \union failed'
      BY <1>3, <2>1 DEF EnterFails, Fails, Creatable
    <2> QED BY <1>1, <1>2, <2>1, <2>2, SkipKeeps
  <1>4. CASE EnterDirectory(Root, 0, <<>>, <<>>)
    <2>1. Asked(Root, 0, <<>>)
      <3>1. Root \in Nodes /\ kind[Root] = "dir"
        BY <1>1, CopyAssumption DEF SourceOK, Nodes, Root
      <3>2. Follow(Root, 0) = Root /\ Hops(Root) = 0
        BY <1>1, <3>1, CopyAssumption, FollowNoLink
      <3>3. NodeAt(<<>>) = Root /\ Placed(<<>>)
        BY DEF NodeAt, Placed, SourcePath
      <3> QED BY <3>1, <3>2, <3>3, LinksToEmpty DEF Asked, Root, Nowhere
    <2>2. PICK n : n = Root
      OBVIOUS
    <2>3. Asked(n, 0, <<>>) /\ EnterDirectory(n, 0, <<>>, <<>>) /\ NodeAt(<<>>) = n
      BY <1>4, <2>1, <2>2 DEF NodeAt
    <2>4. PICK path, links : path = <<>> /\ links = 0
      OBVIOUS
    <2>5. /\ Asked(n, links, path) /\ EnterDirectory(n, links, path, path)
          /\ NodeAt(path) = n /\ Frames(path)
      BY <1>2, <2>3, <2>4
    <2>6. /\ TreeInv' /\ Grows
          /\ DOMAIN dst' = DOMAIN dst \union {path}
          /\ path \in failed' \/ \A k \in Entries(Final(n)) : Pending(stack', path, k)
      BY <1>1, <2>5, EntersKeeps
    <2> QED BY <2>4, <2>5, <2>6
  <1> QED BY <1>3, <1>4 DEF Main

(***************************************************************************)
(* The theorems.                                                           *)
(***************************************************************************)
LEMMA TreeInit == Init => TreeInv
  <1> SUFFICES ASSUME Init PROVE TreeInv
    OBVIOUS
  <1>1. SourceOK /\ copy_symlinks \in BOOLEAN /\ copy_permissions \in BOOLEAN
    BY DEF Init, SourceOK
  <1>2. DOMAIN dst = {} /\ stack = <<>>
    BY DEF Init
  <1>3. Drafting
    BY DEF Init, Drafting, FileSteps
  <1> QED BY <1>1, <1>2, <1>3 DEF TreeInv, Copies, Frames

LEMMA TreeStutters ==
    ASSUME TreeInv, UNCHANGED <<source, flags, dst, stack, failed>>, SameFile
    PROVE  TreeInv' /\ Grows
  <1>1. PICK s : s = stack
    OBVIOUS
  <1>2. Frames(s) /\ stack' = s
    BY <1>1 DEF TreeInv
  <1> QED BY <1>2, SkipKeeps

LEMMA EntrySteps ==
    ASSUME TreeInv, NEW n, \/ EntryFails(n) \/ EntryDirectory(n)
                           \/ CopyLink(n) \/ OpenFile(n) \/ CopyNothing(n)
    PROVE  Readdir(n) /\ Dealt(n)
  <1>1. Readdir(n)
    BY DEF EntryFails, EntryDirectory, CopyLink, OpenFile, CopyNothing
  <1> QED BY <1>1, EntryFailsDealt, EntryDirectoryDealt, CopyLinkDealt, OpenFileDealt,
             CopyNothingDealt

(* A step of copy_file leaves the file as a copy, as one at which a call   *)
(* failed, or goes on to its mode.                                         *)
Leaves(path, t, w, m) ==
    /\ pc' = "copy"
    /\ \/ w = TRUE /\ m = ModeFor(t) /\ kind[t] = "file"
       \/ /\ path \in failed' /\ m \in {DefaultMode, ModeFor(t)}
          /\ kind[t] = "dir" => w = FALSE

GoesOn(path, t, w, m) ==
    /\ pc' = "chmod" /\ file' = file /\ m = DefaultMode /\ copy_permissions
    /\ w => kind[t] = "file"
    /\ w = FALSE => path \in failed'

LEMMA FileKeeps ==
    ASSUME TreeInv, pc \in FileSteps, UNCHANGED <<source, flags, stack>>,
           failed \subseteq failed',
           NEW CONSTANT path, path = PathOf(file), NEW CONSTANT t, t = Final(file),
           NEW CONSTANT w \in BOOLEAN, NEW CONSTANT m,
           DOMAIN dst' = DOMAIN dst, \A q \in DOMAIN dst : q # path => dst'[q] = dst[q],
           dst'[path] = FileOf(t, w, m),
           Leaves(path, t, w, m) \/ GoesOn(path, t, w, m)
    PROVE  TreeInv' /\ Grows
  <1>1. /\ stack # <<>> /\ file \in Nodes /\ NodeAt(path) = file
        /\ path \in Seq(Nodes) /\ path \in DOMAIN dst
    BY DraftPath
  <1>2. PICK v : DraftOK(path, v)
    BY DEF TreeInv, Drafting
  <1>3. dst[path].type = "file" /\ dst'[path].type = "file"
    BY <1>2 DEF DraftOK, FileOf
  <1>4. Grows
    BY <1>3 DEF Grows
  <1>5. UNCHANGED <<source, flags>>
    OBVIOUS
  <1>6. Frames(stack)'
    <2>1. PICK s : s = stack
      OBVIOUS
    <2>2. Frames(s) /\ stack' = s
      BY <2>1 DEF TreeInv
    <2> QED BY <1>4, <2>2, FramesKept
  <1>7. ASSUME NEW CONSTANT q \in DOMAIN dst, q # path
        PROVE  Placed(q)' /\ IsCopy(q, dst[q])'
    <2>1. Placed(q) /\ IsCopy(q, dst[q])
      BY <1>7 DEF TreeInv, Copies, Copying
    <2>2. dst'[q] = dst[q]
      BY <1>7
    <2> QED BY <1>4, <2>1, <2>2, CopyStays
  <1>8. Placed(path)'
    <2>1. Placed(path)
      BY <1>1 DEF TreeInv, Copies
    <2>2. \A q \in DOMAIN dst : DirAt(q) => DirAt(q)'
      BY <1>4 DEF Grows, DirAt
    <2> QED BY <1>5, <2>1, <2>2, SourceKept DEF Placed, DirAt
  <1>9. /\ Final(NodeAt(path))' = t /\ kind' = kind /\ ModeFor(t)' = ModeFor(t)
        /\ Top' = Top
    BY <1>1, <1>5, SourceKept DEF ModeFor, Top
  <1>10. CASE Leaves(path, t, w, m)
    <2>1. IsCopy(path, dst[path])'
      <3>1. /\ dst'[path].type = "file" /\ dst'[path].of = t
            /\ dst'[path].mode = m /\ dst'[path].whole = w
        BY DEF FileOf
      <3>2. CASE w = TRUE /\ m = ModeFor(t) /\ kind[t] = "file"
        <4>1. dst'[path] = [type |-> "file", of |-> t, whole |-> TRUE, mode |-> ModeFor(t)]
          BY <3>2 DEF FileOf
        <4> QED BY <1>9, <3>2, <4>1 DEF IsCopy
      <3>3. CASE /\ path \in failed' /\ m \in {DefaultMode, ModeFor(t)}
                 /\ kind[t] = "dir" => w = FALSE
        BY <1>9, <3>1, <3>3 DEF IsCopy
      <3> QED BY <1>10, <3>2, <3>3 DEF Leaves
    <2>2. Drafting'
      BY <1>10 DEF Leaves, Drafting, FileSteps
    <2>3. Copies'
      BY <1>1, <1>7, <1>8, <2>1 DEF Copies, TreeInv
    <2> QED BY <1>4, <1>5, <1>6, <2>2, <2>3, SourceKept DEF TreeInv
  <1>11. CASE GoesOn(path, t, w, m)
    <2>1. PathOf(file)' = path
      BY <1>9, <1>11 DEF GoesOn, PathOf
    <2>2. Copying(path)'
      BY <1>11, <2>1 DEF GoesOn, Copying
    <2>3. Copies'
      BY <1>1, <1>7, <1>8, <2>2 DEF Copies, TreeInv
    <2>4. file' = file /\ Final(file)' = t /\ Follow(file, Top.links)' = t
      BY <1>5, <1>9, <1>11, SourceKept DEF GoesOn, TreeInv, Drafting
    <2>5. DraftOK(path, w)'
      BY <1>1, <1>2, <1>9, <1>11, <2>4 DEF GoesOn, DraftOK
    <2>6. DraftOK(PathOf(file), w)'
      BY <2>1, <2>5 DEF DraftOK
    <2>7. Drafting'
      BY <1>1, <1>5, <1>11, <2>4, <2>6, SourceKept DEF Drafting, GoesOn
    <2> QED BY <1>4, <1>5, <1>6, <2>3, <2>7, SourceKept DEF TreeInv
  <1> QED BY <1>10, <1>11

LEMMA CopyLoopKeeps ==
    ASSUME TreeInv, CopyLoop
    PROVE  TreeInv' /\ Grows /\ pc' \in {"copy", "chmod"}
  <1>1. pc \in FileSteps /\ pc = "write" /\ UNCHANGED <<source, flags, stack>>
    BY DEF CopyLoop, FileSteps
  <1>2. PICK path, t : path = PathOf(file) /\ t = Final(file)
    OBVIOUS
  <1>3. PICK w : DraftOK(path, w)
    BY <1>1, <1>2 DEF TreeInv, Drafting
  <1>4. /\ w \in BOOLEAN /\ path \in DOMAIN dst /\ dst[path] = FileOf(t, w, DefaultMode)
        /\ w => kind[t] = "file"
        /\ kind[t] = "dir" => path \in failed
    BY <1>2, <1>3 DEF DraftOK
  <1>5. dst[path].of = t
    BY <1>4 DEF FileOf
  <1>6. copy_permissions \in BOOLEAN
    BY DEF TreeInv
  <1>7. CASE kind[t] = "file" /\ dst' = [dst EXCEPT ![path].whole = TRUE]
             /\ CloseFile /\ failed' = failed
    <2> DEFINE u == TRUE
    <2>1. /\ DOMAIN dst' = DOMAIN dst /\ \A q \in DOMAIN dst : q # path => dst'[q] = dst[q]
          /\ dst'[path] = [dst[path] EXCEPT !.whole = u]
      BY <1>4, <1>7
    <2>2. dst'[path] = FileOf(t, u, DefaultMode)
      <3> HIDE DEF u
      <3> QED BY <1>4, <2>1 DEF FileOf
    <2>3. Leaves(path, t, u, DefaultMode) \/ GoesOn(path, t, u, DefaultMode)
      <3>1. CASE copy_permissions
        BY <1>7, <3>1 DEF CloseFile, GoesOn
      <3>2. CASE ~ copy_permissions
        BY <1>7, <3>2 DEF CloseFile, LeaveFile, Leaves, ModeFor
      <3> QED BY <3>1, <3>2, Zenon
    <2>4. TreeInv' /\ Grows
      <3>1. failed \subseteq failed' /\ u \in BOOLEAN
        BY <1>7
      <3> HIDE DEF u
      <3> QED BY <1>1, <1>2, <2>1, <2>2, <2>3, <3>1, FileKeeps
    <2> QED BY <2>3, <2>4 DEF Leaves, GoesOn
  <1>8. CASE Fails(path) /\ (CloseFile \/ LeaveFile) /\ dst' = dst
    <2>1. failed \subseteq failed' /\ path \in failed'
      BY <1>8 DEF Fails
    <2>2. /\ DOMAIN dst' = DOMAIN dst /\ \A q \in DOMAIN dst : q # path => dst'[q] = dst[q]
          /\ dst'[path] = FileOf(t, w, DefaultMode)
      BY <1>4, <1>8
    <2>3. kind[t] = "dir" => w = FALSE
      BY <1>4
    <2>4. Leaves(path, t, w, DefaultMode) \/ GoesOn(path, t, w, DefaultMode)
      BY <1>4, <1>8, <2>1, <2>3 DEF CloseFile, LeaveFile, Leaves, GoesOn
    <2>5. TreeInv' /\ Grows
      BY <1>1, <1>2, <1>4, <2>1, <2>2, <2>4, FileKeeps
    <2> QED BY <2>4, <2>5 DEF Leaves, GoesOn
  <1> QED BY <1>2, <1>5, <1>7, <1>8 DEF CopyLoop

LEMMA CopyModeKeeps ==
    ASSUME TreeInv, CopyMode
    PROVE  TreeInv' /\ Grows /\ pc' = "copy"
  <1>1. pc \in FileSteps /\ pc = "chmod" /\ UNCHANGED <<source, flags, stack>> /\ pc' = "copy"
    BY DEF CopyMode, FileSteps, LeaveFile
  <1>2. PICK path, t : path = PathOf(file) /\ t = Final(file)
    OBVIOUS
  <1>3. PICK w : DraftOK(path, w)
    BY <1>1, <1>2 DEF TreeInv, Drafting
  <1>4. /\ w \in BOOLEAN /\ path \in DOMAIN dst /\ dst[path] = FileOf(t, w, DefaultMode)
        /\ w => kind[t] = "file"
        /\ w = FALSE => path \in failed
    BY <1>1, <1>2, <1>3 DEF DraftOK
  <1>5. FileMode(file) = ModeFor(t)
    BY <1>1, <1>2 DEF FileMode, ModeFor, TreeInv, Drafting
  <1>6. kind[t] = "dir" => w = FALSE
    BY <1>4
  <1>7. CASE dst' = [dst EXCEPT ![path].mode = FileMode(file)] /\ failed' = failed
    <2>1. PICK m : m = ModeFor(t)
      OBVIOUS
    <2>2. /\ DOMAIN dst' = DOMAIN dst /\ \A q \in DOMAIN dst : q # path => dst'[q] = dst[q]
          /\ dst'[path] = [dst[path] EXCEPT !.mode = m]
      BY <1>4, <1>5, <1>7, <2>1
    <2>3. dst'[path] = FileOf(t, w, m)
      BY <1>4, <2>2 DEF FileOf
    <2>4. Leaves(path, t, w, m)
      BY <1>1, <1>4, <1>6, <1>7, <2>1 DEF Leaves
    <2>5. failed \subseteq failed'
      BY <1>7
    <2> QED BY <1>1, <1>2, <1>4, <2>2, <2>3, <2>4, <2>5, FileKeeps
  <1>8. CASE Fails(path) /\ dst' = dst
    <2>1. failed \subseteq failed' /\ path \in failed'
      BY <1>8 DEF Fails
    <2>2. /\ DOMAIN dst' = DOMAIN dst /\ \A q \in DOMAIN dst : q # path => dst'[q] = dst[q]
          /\ dst'[path] = FileOf(t, w, DefaultMode)
      BY <1>4, <1>8
    <2>3. Leaves(path, t, w, DefaultMode)
      BY <1>1, <1>6, <2>1 DEF Leaves
    <2> QED BY <1>1, <1>2, <1>4, <2>1, <2>2, <2>3, FileKeeps
  <1> QED BY <1>2, <1>7, <1>8 DEF CopyMode

LEMMA TreeSteps ==
    ASSUME TreeInv, MainBegins, [Next]_vars
    PROVE  TreeInv' /\ Grows
  <1>1. CASE Main
    BY <1>1, MainKeeps
  <1>2. CASE Return
    BY <1>2, ReturnKeeps
  <1>3. CASE Exit \/ Ended \/ UNCHANGED vars
    <2>1. UNCHANGED <<source, flags, dst, stack, failed>> /\ SameFile
      BY <1>3 DEF Exit, Ended, vars, SameFile, FileSteps
    <2> QED BY <2>1, TreeStutters
  <1>4. CASE CopyLoop \/ CopyMode
    BY <1>4, CopyLoopKeeps, CopyModeKeeps
  <1>5. ASSUME NEW n, \/ EntryFails(n) \/ EntryDirectory(n)
                      \/ CopyLink(n) \/ OpenFile(n) \/ CopyNothing(n)
        PROVE  TreeInv' /\ Grows
    BY <1>5, EntrySteps DEF Dealt
  <1> QED BY <1>1, <1>2, <1>3, <1>4, <1>5 DEF Next

LEMMA MainInit == Init => MainBegins /\ (pc = "exited" => stack = <<>>)
  BY DEF Init, MainBegins

(* The parts of EndInv that say where the program is. *)
LEMMA MainSteps ==
    ASSUME TreeInv, MainBegins, pc = "exited" => stack = <<>>, [Next]_vars
    PROVE  MainBegins' /\ (pc' = "exited" => stack' = <<>>)
  <1>1. CASE Main
    BY <1>1, MainKeeps DEF Main, MainBegins
  <1>2. CASE Return
    BY <1>2, ReturnKeeps DEF Return, MainBegins, Grows
  <1>3. CASE Exit \/ Ended \/ UNCHANGED vars
    BY <1>3 DEF Exit, Ended, vars, MainBegins
  <1>4. CASE CopyLoop \/ CopyMode
    <2>1. Grows /\ pc' \in {"copy", "chmod"} /\ pc # "main"
      BY <1>4, CopyLoopKeeps, CopyModeKeeps DEF CopyLoop, CopyMode
    <2> QED BY <2>1 DEF MainBegins, Grows
  <1>5. ASSUME NEW n, \/ EntryFails(n) \/ EntryDirectory(n)
                      \/ CopyLink(n) \/ OpenFile(n) \/ CopyNothing(n)
        PROVE  MainBegins' /\ (pc' = "exited" => stack' = <<>>)
    BY <1>5, EntrySteps DEF Dealt, Readdir, MainBegins, Grows
  <1> QED BY <1>1, <1>2, <1>3, <1>4, <1>5 DEF Next

(* Complete is kept by a step that loses only what it deals with, and      *)
(* leaves the entries of a new directory to do.                            *)
LEMMA CompleteKept ==
    ASSUME Complete, TreeInv, Grows,
           \A path \in DOMAIN dst, k \in Nodes :
             Pending(stack, path, k) => Pending(stack', path, k) \/ Handled(path, k)
                                        \/ Append(path, k) \in DOMAIN dst' \union failed',
           \A path \in DOMAIN dst' \ DOMAIN dst :
             \/ path \in failed' \/ dst'[path].type # "dir"
             \/ \A k \in Entries(Final(NodeAt(path))) : Pending(stack', path, k)
    PROVE  Complete'
  <1> SUFFICES ASSUME NEW path \in DOMAIN dst', path \notin failed', dst'[path].type = "dir",
                      NEW k \in Entries(Final(NodeAt(path)))
               PROVE  Handled(path, k)' \/ Pending(stack', path, k)
    BY SourceKept DEF Complete, Grows, Pending
  <1>1. k \in Nodes
    BY DEF Entries
  <1>2. CASE path \notin DOMAIN dst
    BY <1>2
  <1>3. CASE path \in DOMAIN dst
    <2>1. Handled(path, k) \/ Pending(stack, path, k)
      BY <1>3 DEF Complete, Grows
    <2>2. \/ Pending(stack', path, k) \/ Handled(path, k)
          \/ Append(path, k) \in DOMAIN dst' \union failed'
      BY <1>1, <1>3, <2>1
    <2>3. Handled(path, k) => Handled(path, k)'
      BY <1>3, SourceKept DEF Handled, Grows
    <2> QED BY <2>2, <2>3 DEF Handled
  <1> QED BY <1>2, <1>3

LEMMA CompleteSteps ==
    ASSUME TreeInv, EndInv, [Next]_vars
    PROVE  Complete'
  <1>1. Complete /\ MainBegins
    BY DEF EndInv
  <1>2. CASE Main
    <2>1. stack = <<>>
      BY <1>1, <1>2 DEF MainBegins, Main
    <2>2. \A path, k : ~ Pending(stack, path, k)
      BY <2>1 DEF Pending
    <2> QED BY <1>1, <1>2, <2>2, MainKeeps, CompleteKept
  <1>3. CASE Return
    BY <1>1, <1>3, ReturnKeeps, CompleteKept
  <1>4. CASE Exit \/ Ended \/ UNCHANGED vars
    <2>1. UNCHANGED <<source, flags, dst, stack, failed>> /\ SameFile
      BY <1>4 DEF Exit, Ended, vars, SameFile, FileSteps
    <2>2. Grows
      BY <2>1, TreeStutters
    <2> QED BY <1>1, <2>1, <2>2, CompleteKept
  <1>5. ASSUME NEW n, \/ EntryFails(n) \/ EntryDirectory(n)
                      \/ CopyLink(n) \/ OpenFile(n) \/ CopyNothing(n)
        PROVE  Complete'
    <2>1. Dealt(n)
      BY <1>5, EntrySteps
    <2> QED BY <1>1, <2>1, CompleteKept DEF Dealt
  <1>6. CASE CopyLoop \/ CopyMode
    <2>1. Grows /\ stack' = stack
      BY <1>6, CopyLoopKeeps, CopyModeKeeps DEF CopyLoop, CopyMode
    <2>2. DOMAIN dst' = DOMAIN dst
      BY <1>6 DEF CopyLoop, CopyMode
    <2> QED BY <1>1, <2>1, <2>2, CompleteKept
  <1> QED BY <1>2, <1>3, <1>4, <1>5, <1>6 DEF Next

LEMMA TreeInvariant == Spec => [](TreeInv /\ EndInv)
  <1>1. Init => TreeInv /\ EndInv
    <2>1. Init => Complete
      BY DEF Init, Complete
    <2> QED BY <2>1, TreeInit, MainInit DEF EndInv
  <1>2. TreeInv /\ EndInv /\ [Next]_vars => (TreeInv /\ EndInv)'
    BY TreeSteps, MainSteps, CompleteSteps DEF EndInv
  <1> QED BY <1>1, <1>2, PTL DEF Spec

(* Whatever the source holds, links in circles included, whatever calls    *)
(* fail and wherever the program is stopped, copytree has put nothing into *)
(* the destination but copies, where the source has the originals: links   *)
(* with their text, files whole and, with -p, with their mode, except the  *)
(* one being copied and those at which a call failed; directories with the *)
(* mode asked for or less, by what umask clears.                           *)
THEOREM OnlyCopies == Spec => []CopiesOnly
  <1>1. TreeInv => CopiesOnly
    BY CopiesAre
  <1> QED BY <1>1, TreeInvariant, PTL

(* When copytree has ended, every entry of every directory that it could   *)
(* open is in the destination, except those that a call failed for, links  *)
(* that lead nowhere, and entries of directories that -p made read-only.   *)
THEOREM AllCopied == Spec => []NothingLeftOut
  <1>1. EndInv => NothingLeftOut
    <2> SUFFICES ASSUME EndInv, pc = "exited" PROVE NothingLeftOut
      BY DEF NothingLeftOut
    <2>1. stack = <<>> /\ <<>> \in DOMAIN dst \union failed /\ Complete
      BY DEF EndInv, MainBegins
    <2>2. \A path, k : ~ Pending(stack, path, k)
      BY <2>1 DEF Pending
    <2> QED BY <2>1, <2>2 DEF NothingLeftOut, Complete, Handled
  <1> QED BY <1>1, TreeInvariant, PTL

(***************************************************************************)
(* XvInode.                                                                *)
(***************************************************************************)

(* The places of a call: where its ip points to an entry, where it holds   *)
(* the lock of that inode, where it has freed the inode, where it has      *)
(* allocated an inode that has no name yet, and where nlink is ahead of    *)
(* the directory or behind it.                                             *)
Pointing == {"ilock", "locked", "ilock_new", "init", "dirlink", "link", "bad", "undo",
             "unlink", "iput", "free", "invalidate", "drop"}
Locking == {"locked", "init", "dirlink", "undo", "unlink", "free", "invalidate"}
Leaving == {"invalidate", "drop"}
Creating == {"iget", "ilock_new", "init", "dirlink"}
Linking == {"link", "bad", "undo", "unlink", "dirlink"}

(* The arguments of a call are of their types until they are used last,    *)
(* and the places of create and link belong to these calls.                *)
CallOK(p) ==
    /\ place[p] \in Places \ {"idle", "iput", "free", "invalidate", "drop"} => Name(p) \in Names
    /\ place[p] \in Creating => Is(p, "create") /\ call[p][4] \in Inums
    /\ place[p] \in {"link", "bad", "undo"} => Is(p, "link")
    /\ place[p] = "namei" => ~ Is(p, "unlink")
    /\ Is(p, "link") => Arg(p) \in Names
    /\ Is(p, "chmod") => Arg(p) \in SUBSET {"r", "w", "x"}

Calls == call = [p \in Procs |-> call[p]] /\ \A p \in Procs : CallOK(p)

(* The local ip is set exactly inside the calls that have an inode. *)
Pointers == \A p \in Procs : ip[p] # 0 <=> place[p] \in Pointing

(* ref counts the pointers to an entry (see RefCounts). *)
IpTo(e) == {p \in Procs : ip[p] = e}
FdTo(e) == {p \in Procs : fd[p] = e}
Exact == \A e \in Slots : ref[e] = Cardinality(IpTo(e)) + Cardinality(FdTo(e))

(* Entries in use have an inode, and different ones different inodes. *)
Table ==
    /\ \A e \in Slots : ref[e] > 0 => inum[e] \in Inums
    /\ \A e, f \in Slots : ref[e] > 0 /\ ref[f] > 0 /\ inum[e] = inum[f] => e = f

(* The lock of an entry is held by the call that works on the inode, which *)
(* has read it.                                                            *)
Locks ==
    /\ \A e \in Slots, p \in Procs : lock[e] = p <=> ip[p] = e /\ place[p] \in Locking
    /\ \A p \in Procs : place[p] \in Locking => valid[ip[p]]

(* What an entry holds of an inode is what is on disk, and allocated,      *)
(* unless the entry is being given up.                                     *)
Coherent ==
    \A e \in Slots :
      ref[e] > 0 /\ valid[e] /\ (\A p \in Procs : place[p] = "invalidate" => ip[p] # e)
        => data[e] = disk[inum[e]] /\ data[e].type # 0

(* Every pointer to an inode, open file and name is one of an allocated    *)
(* inode, apart from the calls that have freed it.                         *)
Alive ==
    /\ \A p \in Procs : place[p] \in Pointing \ Leaving => disk[inum[ip[p]]].type # 0
    /\ \A p \in Procs : fd[p] # 0 => disk[inum[fd[p]]].type # 0
    /\ \A n \in Names : dir[n] # 0 => disk[dir[n]].type # 0

(* Nobody but q reaches inode i: it has no name and no open file, and      *)
(* other calls that point to it have freed it before q allocated it.       *)
Unused(q, i) ==
    /\ disk[i].type # 0
    /\ \A n \in Names : dir[n] # i
    /\ \A p \in Procs : fd[p] # 0 => inum[fd[p]] # i
    /\ \A p \in Procs \ {q} : place[p] \in Pointing \ Leaving => inum[ip[p]] # i

(* An inode that create allocated is its own until it has a name. *)
Fresh ==
    \A q \in Procs : place[q] \in Creating =>
      /\ Unused(q, call[q][4])
      /\ place[q] # "iget" => inum[ip[q]] = call[q][4]

(* create and unlink hold the directory between looking a name up and      *)
(* changing it, so that what they found stays true.                        *)
DirHeld ==
    \A p \in Procs :
      /\ place[p] \in Creating => dirlock = p /\ dir[Name(p)] = 0
      /\ place[p] \in {"ilock", "locked"} /\ Is(p, "unlink") =>
           dirlock = p /\ dir[Name(p)] = inum[ip[p]]

(* The inode that iput frees is referenced by nobody else. *)
Freeing == \A p \in Procs : place[p] = "free" => ref[ip[p]] = 1 /\ data[ip[p]].nlink = 0

(* The inductive invariant. *)
InodeInv ==
    /\ TypeOK /\ Calls /\ Pointers /\ Exact /\ Table /\ Locks /\ Coherent /\ Alive /\ Fresh
    /\ DirHeld /\ Freeing /\ LinkCounts

(* A set with one more member. *)
LEMMA CountMore ==
    ASSUME NEW S, IsFiniteSet(S), NEW x, x \notin S, NEW T, T = S \union {x}
    PROVE  Cardinality(T) = Cardinality(S) + 1 /\ Cardinality(S) \in Nat /\ Cardinality(T) \in Nat
  <1>1. Cardinality(S \union {x}) = Cardinality(S) + 1 /\ IsFiniteSet(S \union {x})
    BY FS_AddElement
  <1>2. Cardinality(S) \in Nat /\ Cardinality(T) \in Nat
    BY <1>1, FS_CardinalityType
  <1> QED BY <1>1, <1>2

(* The least size of a set with one member, or with two. *)
LEMMA CountHas ==
    ASSUME NEW S, IsFiniteSet(S), NEW x \in S
    PROVE  Cardinality(S) >= 1 /\ (\A y \in S : y # x => Cardinality(S) >= 2)
  <1>1. Cardinality(S) = Cardinality(S \ {x}) + 1 /\ Cardinality(S \ {x}) \in Nat
    <2>1. IsFiniteSet(S \ {x}) /\ x \notin S \ {x} /\ S = (S \ {x}) \union {x}
      BY FS_Subset
    <2> QED BY <2>1, CountMore
  <1>2. ASSUME NEW y \in S, y # x
        PROVE  Cardinality(S \ {x}) >= 1
    <2>1. IsFiniteSet(S \ {x}) /\ y \in S \ {x}
      BY FS_Subset, <1>2
    <2>2. Cardinality(S \ {x}) # 0
      BY <2>1, FS_EmptySet
    <2> QED BY <2>2, <1>1
  <1> QED BY <1>1, <1>2

(* All sets that are counted are finite. *)
LEMMA Finite ==
    /\ \A e : IsFiniteSet(IpTo(e)) /\ Cardinality(IpTo(e)) \in Nat
    /\ \A e : IsFiniteSet(FdTo(e)) /\ Cardinality(FdTo(e)) \in Nat
    /\ \A i : IsFiniteSet(LinksPending(i)) /\ Cardinality(LinksPending(i)) \in Nat
    /\ \A i : /\ IsFiniteSet({n \in Names : dir[n] = i})
              /\ Cardinality({n \in Names : dir[n] = i}) \in Nat
  <1>1. \A e : IpTo(e) \subseteq Procs /\ FdTo(e) \subseteq Procs /\ LinksPending(e) \subseteq Procs
    BY DEF IpTo, FdTo, LinksPending, At
  <1>2. \A T : T \subseteq Procs => IsFiniteSet(T) /\ Cardinality(T) \in Nat
    BY InodeAssumption, FS_Subset, FS_CardinalityType
  <1>3. \A T : T \subseteq Names => IsFiniteSet(T) /\ Cardinality(T) \in Nat
    BY InodeAssumption, FS_Subset, FS_CardinalityType
  <1>4. \A i : {n \in Names : dir[n] = i} \subseteq Names
    OBVIOUS
  <1> QED BY <1>1, <1>2, <1>3, <1>4

(* A pointer to an entry is counted, and a count of one is of one pointer. *)
LEMMA Referenced ==
    ASSUME InodeInv
    PROVE  /\ \A p \in Procs : ip[p] # 0 => ip[p] \in Slots /\ ref[ip[p]] > 0
           /\ \A p \in Procs : fd[p] # 0 => fd[p] \in Slots /\ ref[fd[p]] > 0
           /\ \A p, q \in Procs : ip[p] # 0 /\ ref[ip[p]] = 1 =>
                /\ q # p => ip[q] # ip[p]
                /\ fd[q] # ip[p]
  <1> USE DEF InodeInv
  <1>0. \A p \in Procs : ip[p] \in Slots \union {0} /\ fd[p] \in Slots \union {0}
    BY DEF TypeOK
  <1>1. ASSUME NEW p \in Procs, ip[p] # 0
        PROVE  ip[p] \in Slots /\ ref[ip[p]] > 0
    <2>1. ip[p] \in Slots /\ p \in IpTo(ip[p])
      BY <1>0, <1>1 DEF IpTo
    <2>2. Cardinality(IpTo(ip[p])) >= 1
      BY <2>1, Finite, CountHas
    <2> QED BY <2>1, <2>2, Finite DEF Exact
  <1>2. ASSUME NEW p \in Procs, fd[p] # 0
        PROVE  fd[p] \in Slots /\ ref[fd[p]] > 0
    <2>1. fd[p] \in Slots /\ p \in FdTo(fd[p])
      BY <1>0, <1>2 DEF FdTo
    <2>2. Cardinality(FdTo(fd[p])) >= 1
      BY <2>1, Finite, CountHas
    <2> QED BY <2>1, <2>2, Finite DEF Exact
  <1>3. ASSUME NEW p \in Procs, NEW q \in Procs, ip[p] # 0, ref[ip[p]] = 1
        PROVE  /\ q # p => ip[q] # ip[p]
               /\ fd[q] # ip[p]
    <2>1. PICK e \in Slots : e = ip[p]
      BY <1>0, <1>3
    <2>2. p \in IpTo(e)
      BY <2>1 DEF IpTo
    <2>3. Cardinality(IpTo(e)) >= 1 /\ (\A y \in IpTo(e) : y # p => Cardinality(IpTo(e)) >= 2)
      BY <2>2, Finite, CountHas
    <2>4. Cardinality(IpTo(e)) + Cardinality(FdTo(e)) = 1
      BY <2>1, <1>3 DEF Exact
    <2>5. Cardinality(IpTo(e)) = 1 /\ Cardinality(FdTo(e)) = 0
      BY <2>3, <2>4, Finite
    <2>6. FdTo(e) = {}
      BY <2>5, Finite, FS_EmptySet
    <2>7. ASSUME q # p PROVE ip[q] # e
      BY <2>3, <2>5, <2>7 DEF IpTo
    <2> QED BY <2>1, <2>6, <2>7 DEF FdTo
  <1> QED BY <1>1, <1>2, <1>3

(* A process that holds the lock of its inode works on what is on disk. *)
LEMMA Held ==
    ASSUME InodeInv, NEW p \in Procs, place[p] \in Locking \ {"invalidate"}
    PROVE  /\ ip[p] \in Slots /\ ref[ip[p]] > 0 /\ inum[ip[p]] \in Inums
           /\ lock[ip[p]] = p
           /\ data[ip[p]] = disk[inum[ip[p]]]
           /\ data[ip[p]] \in Inodes
           /\ data[ip[p]].type # 0
           /\ \A q \in Procs : q # p /\ place[q] \in Locking => ip[q] # ip[p]
  <1> USE DEF InodeInv
  <1>1. place[p] \in Pointing /\ place[p] \notin Leaving
    BY DEF Locking, Pointing, Leaving
  <1>2. ip[p] \in Slots /\ ref[ip[p]] > 0
    BY <1>1, Referenced DEF Pointers
  <1>3. lock[ip[p]] = p /\ valid[ip[p]]
    BY <1>2 DEF Locks
  <1>4. \A q \in Procs : q # p /\ place[q] \in Locking => ip[q] # ip[p]
    BY <1>2, <1>3 DEF Locks
  <1>5. inum[ip[p]] \in Inums
    BY <1>2 DEF Table
  <1>6. \A q \in Procs : place[q] = "invalidate" => ip[q] # ip[p]
    BY <1>4 DEF Locking
  <1>7. data[ip[p]] = disk[inum[ip[p]]]
    BY <1>2, <1>3, <1>6 DEF Coherent
  <1>8. data[ip[p]] \in Inodes
    BY <1>2 DEF TypeOK
  <1>9. disk[inum[ip[p]]].type # 0
    BY <1>1 DEF Alive
  <1> QED BY <1>2, <1>3, <1>4, <1>5, <1>7, <1>8, <1>9

(* An inode whose nlink is 0 has no name; an inode with a name, or with a  *)
(* call between a name and the count, has a positive nlink.                *)
LEMMA LinkBounds ==
    ASSUME InodeInv, NEW i \in Inums, disk[i].type # 0
    PROVE  /\ \A n \in Names : dir[n] = i => disk[i].nlink >= 1
           /\ \A p \in Procs : place[p] \in Linking /\ inum[ip[p]] = i => disk[i].nlink >= 1
  <1> DEFINE A == {n \in Names : dir[n] = i}
  <1>1. disk[i].nlink = Cardinality(A) + Cardinality(LinksPending(i))
    BY DEF InodeInv, LinkCounts
  <1>2. Cardinality(A) \in Nat /\ Cardinality(LinksPending(i)) \in Nat /\ IsFiniteSet(A)
          /\ IsFiniteSet(LinksPending(i))
    BY Finite
  <1>3. ASSUME NEW n \in Names, dir[n] = i
        PROVE  disk[i].nlink >= 1
    <2>1. n \in A
      BY <1>3
    <2>2. Cardinality(A) >= 1
      BY <2>1, <1>2, CountHas
    <2> HIDE DEF A
    <2> QED BY <2>2, <1>1, <1>2
  <1>4. ASSUME NEW p \in Procs, place[p] \in Linking, inum[ip[p]] = i
        PROVE  disk[i].nlink >= 1
    <2>1. p \in LinksPending(i)
      BY <1>4 DEF LinksPending, At, Linking
    <2>2. Cardinality(LinksPending(i)) >= 1
      BY <2>1, <1>2, CountHas
    <2> HIDE DEF A
    <2> QED BY <2>2, <1>1, <1>2
  <1> QED BY <1>3, <1>4

(* What happens to a count when one member comes or goes. *)
LEMMA CountStep ==
    ASSUME NEW S, IsFiniteSet(S), NEW T, NEW x, \A y : y # x => (y \in S <=> y \in T)
    PROVE  /\ Cardinality(S) \in Nat /\ Cardinality(T) \in Nat
           /\ (x \in S <=> x \in T) => Cardinality(T) = Cardinality(S)
           /\ x \in S /\ x \notin T => Cardinality(S) = Cardinality(T) + 1
           /\ x \notin S /\ x \in T => Cardinality(T) = Cardinality(S) + 1
  <1>1. CASE x \in S <=> x \in T
    <2>1. S = T
      BY <1>1
    <2> QED BY <2>1, <1>1, FS_CardinalityType
  <1>2. CASE x \in S /\ x \notin T
    <2>1. T \subseteq S /\ S = T \union {x}
      BY <1>2
    <2>2. IsFiniteSet(T)
      BY <2>1, FS_Subset
    <2> QED BY <1>2, <2>1, <2>2, CountMore
  <1>3. CASE x \notin S /\ x \in T
    <2>1. T = S \union {x}
      BY <1>3
    <2> QED BY <1>3, <2>1, CountMore
  <1> QED BY <1>1, <1>2, <1>3

(* The steps that change the inode on disk. *)
Writes(p, from, to, new) ==
    /\ Goto(p, from, to)
    /\ iupdate(p, new)
    /\ lock' = IF to \in Locking THEN lock ELSE [lock EXCEPT ![ip[p]] = NoProc]
    /\ UNCHANGED <<dir, dirlock, entries, local, ip>>

(* Such a step keeps the invariant if it changes nlink as much as the      *)
(* calls between name and count, which it joins or leaves.                 *)
LEMMA WritesKeep ==
    ASSUME InodeInv, NEW p \in Procs, NEW from, NEW to, NEW new \in Inodes,
           Writes(p, from, to, new), new.type # 0,
           \/ from = "init" /\ to = "dirlink"
           \/ from = "locked" /\ to = "link" /\ Is(p, "link")
           \/ from \in {"dirlink", "locked", "undo", "unlink"} /\ to = "iput",
           new.nlink + (IF from \in Linking THEN 1 ELSE 0)
             = data[ip[p]].nlink + (IF to \in Linking THEN 1 ELSE 0)
    PROVE  InodeInv'
  <1> DEFINE e == ip[p]
             i == inum[e]
  <1>0. /\ place[p] = from /\ place[p] \in Locking \ {"invalidate"}
        /\ from \in Locking \ {"invalidate", "free"}
    BY DEF Writes, Goto, Locking
  <1>1. e \in Slots /\ ref[e] > 0 /\ i \in Inums /\ lock[e] = p /\ data[e] = disk[i]
    BY <1>0, Held
  <1>2. \A q \in Procs : q # p /\ place[q] \in Locking => ip[q] # e
    BY <1>0, Held
  <1>3. /\ place \in [Procs -> Places] /\ disk \in [Inums -> Inodes] /\ data \in [Slots -> Inodes]
        /\ lock \in [Slots -> Procs \union {NoProc}]
    BY DEF InodeInv, TypeOK
  <1>4. to \in Pointing \ Leaving /\ to \in Places /\ from \in Pointing \ Leaving
    BY <1>0 DEF Pointing, Leaving, Places, Locking
  <1>5. /\ place' = [place EXCEPT ![p] = to]
        /\ data' = [data EXCEPT ![e] = new]
        /\ disk' = [disk EXCEPT ![i] = new]
        /\ lock' = IF to \in Locking THEN lock ELSE [lock EXCEPT ![e] = NoProc]
        /\ dir' = dir /\ dirlock' = dirlock /\ inum' = inum /\ ref' = ref /\ valid' = valid
        /\ call' = call /\ fd' = fd /\ ip' = ip
    BY DEF Writes, Goto, iupdate, entries, local
  <1>6. place'[p] = to /\ \A q \in Procs : q # p => place'[q] = place[q]
    BY <1>3, <1>5
  <1>7. disk'[i] = new /\ \A j \in Inums : j # i => disk'[j] = disk[j]
    BY <1>1, <1>3, <1>5
  <1>8. data'[e] = new /\ \A f \in Slots : f # e => data'[f] = data[f]
    BY <1>1, <1>3, <1>5
  <1> HIDE DEF e, i
  <1>11. TypeOK'
    BY <1>1, <1>3, <1>4, <1>5 DEF InodeInv, TypeOK
  <1>12. Calls'
    BY <1>0, <1>4, <1>5, <1>6 DEF InodeInv, Calls, CallOK, Name, Is, Arg, Creating, Places
  <1>13. Pointers'
    BY <1>0, <1>4, <1>5, <1>6 DEF InodeInv, Pointers
  <1>14. Exact'
    BY <1>5 DEF InodeInv, Exact, IpTo, FdTo
  <1>15. Table'
    BY <1>5 DEF InodeInv, Table
  <1>16. Locks'
    BY <1>0, <1>1, <1>2, <1>3, <1>5, <1>6, InodeAssumption DEF InodeInv, Locks, Locking, e
  <1>17. Coherent'
    BY <1>0, <1>1, <1>5, <1>6, <1>7, <1>8 DEF InodeInv, Coherent, Table, i
  <1>18. Alive'
    BY <1>0, <1>4, <1>5, <1>6, <1>7 DEF InodeInv, Alive, TypeOK
  <1>19. Fresh'
    BY <1>0, <1>4, <1>5, <1>6, <1>7 DEF InodeInv, Fresh, Unused, Creating, Calls, CallOK
  <1>20. DirHeld'
    BY <1>0, <1>4, <1>5, <1>6 DEF InodeInv, DirHeld, Creating, Name, Is
  <1>21. Freeing'
    BY <1>0, <1>2, <1>5, <1>6, <1>8 DEF InodeInv, Freeing, Locking
  <1>22. LinkCounts'
    <2> SUFFICES ASSUME NEW j \in Inums, disk'[j].type # 0
                 PROVE  disk'[j].nlink = Cardinality({n \in Names : dir[n] = j})
                                          + Cardinality(LinksPending(j)')
      BY <1>5 DEF LinkCounts
    <2>1. \A q : q # p => (q \in LinksPending(j) <=> q \in LinksPending(j)')
      BY <1>5, <1>6 DEF LinksPending, At
    <2>2. /\ p \in LinksPending(j) <=> from \in Linking /\ i = j
          /\ p \in LinksPending(j)' <=> to \in Linking /\ i = j
      BY <1>0, <1>5, <1>6 DEF LinksPending, At, Linking, i, e
    <2>3. disk[j].type # 0
      BY <1>1, <1>7, <1>0, Held DEF i, e
    <2>4. disk[j].nlink = Cardinality({n \in Names : dir[n] = j}) + Cardinality(LinksPending(j))
      BY <2>3 DEF InodeInv, LinkCounts
    <2> DEFINE c == Cardinality({n \in Names : dir[n] = j})
               a == Cardinality(LinksPending(j))
               b == Cardinality(LinksPending(j)')
    <2>5. c \in Nat
      BY Finite
    <2>6. /\ a \in Nat /\ b \in Nat
          /\ (p \in LinksPending(j) <=> p \in LinksPending(j)') => b = a
          /\ p \in LinksPending(j) /\ p \notin LinksPending(j)' => a = b + 1
          /\ p \notin LinksPending(j) /\ p \in LinksPending(j)' => b = a + 1
      BY <2>1, Finite, CountStep
    <2>7. /\ j # i => disk'[j].nlink = disk[j].nlink
          /\ j = i => disk'[j].nlink = new.nlink /\ disk[j].nlink = data[e].nlink
      BY <1>1, <1>7
    <2>8. new.nlink \in Nat /\ disk[j].nlink \in Nat
      BY <1>3 DEF Inodes
    <2>9. new.nlink + (IF from \in Linking THEN 1 ELSE 0)
             = data[e].nlink + (IF to \in Linking THEN 1 ELSE 0)
      BY DEF e
    <2> HIDE DEF a, b, c
    <2>10. disk[j].nlink = c + a
      BY <2>4 DEF a, c
    <2>11. disk'[j].nlink = c + b
      BY <2>2, <2>5, <2>6, <2>7, <2>8, <2>9, <2>10
    <2> QED BY <2>11 DEF b, c
  <1> QED
    BY <1>11, <1>12, <1>13, <1>14, <1>15, <1>16, <1>17, <1>18, <1>19, <1>20, <1>21, <1>22
    DEF InodeInv

(* The fields of an inode after a store to one of them. *)
LEMMA StoreNlink ==
    ASSUME NEW r \in Inodes, r.type # 0, NEW n \in Nat
    PROVE  \E s \in Inodes : s = [r EXCEPT !.nlink = n] /\ s.nlink = n /\ s.type # 0
  <1>1. /\ [r EXCEPT !.nlink = n] \in Inodes
        /\ [r EXCEPT !.nlink = n].nlink = n
        /\ [r EXCEPT !.nlink = n].type = r.type
    BY DEF Inodes, T_FILE
  <1> QED BY <1>1

(* The same for chmod. *)
LEMMA StorePermissions ==
    ASSUME NEW r \in Inodes, r.type # 0, NEW a \in SUBSET {"r", "w", "x"}
    PROVE  \E s \in Inodes : s = [r EXCEPT !.permissions = a] /\ s.nlink = r.nlink /\ s.type # 0
  <1>1. /\ [r EXCEPT !.permissions = a] \in Inodes
        /\ [r EXCEPT !.permissions = a].nlink = r.nlink
        /\ [r EXCEPT !.permissions = a].type = r.type
    BY DEF Inodes, T_FILE
  <1> QED BY <1>1

(* The same for iput, which clears the type. *)
LEMMA StoreType ==
    ASSUME NEW r \in Inodes
    PROVE  \E s \in Inodes : s = [r EXCEPT !.type = 0] /\ s.nlink = r.nlink /\ s.type = 0
  <1>1. /\ [r EXCEPT !.type = 0] \in Inodes
        /\ [r EXCEPT !.type = 0].nlink = r.nlink
        /\ [r EXCEPT !.type = 0].type = 0
    BY DEF Inodes, T_FILE
  <1> QED BY <1>1

(* The nlink of an inode that its create has not entered yet. *)
LEMMA NewLinks ==
    ASSUME InodeInv, NEW p \in Procs, place[p] \in {"init", "dirlink"}
    PROVE  data[ip[p]].nlink = IF place[p] = "dirlink" THEN 1 ELSE 0
  <1>1. PICK i \in Inums : i = inum[ip[p]]
    BY Held DEF Locking
  <1>2. i = call[p][4] /\ Unused(p, i)
    BY <1>1 DEF InodeInv, Fresh, Creating
  <1>3. data[ip[p]] = disk[i]
    BY <1>1, Held DEF Locking
  <1>4. {n \in Names : dir[n] = i} = {}
    BY <1>2 DEF Unused
  <1>5. disk[i].nlink = Cardinality({}) + Cardinality(LinksPending(i))
    BY <1>2, <1>4 DEF InodeInv, LinkCounts, Unused
  <1>6. LinksPending(i) = IF place[p] = "dirlink" THEN {p} ELSE {}
    BY <1>1, <1>2 DEF Unused, LinksPending, At, Pointing, Leaving
  <1>7. Cardinality({}) = 0 /\ Cardinality({p}) = 1
    BY FS_EmptySet, FS_Singleton
  <1> QED BY <1>3, <1>5, <1>6, <1>7

(* create gives its inode the first link. *)
LEMMA CreateInitKeeps ==
    ASSUME InodeInv, NEW p \in Procs, CreateInit(p)
    PROVE  InodeInv'
  <1>1. place[p] = "init"
    BY DEF CreateInit, Goto
  <1>2. data[ip[p]].nlink = 0 /\ data[ip[p]] \in Inodes /\ data[ip[p]].type # 0
    BY <1>1, NewLinks, Held DEF Locking
  <1>3. PICK new \in Inodes : new = Nlink(p, 1) /\ new.nlink = 1 /\ new.type # 0
    BY <1>2, StoreNlink DEF Nlink
  <1>4. Writes(p, "init", "dirlink", new)
    BY <1>3 DEF CreateInit, Writes, Locking
  <1>5. new.nlink + (IF "init" \in Linking THEN 1 ELSE 0)
          = data[ip[p]].nlink + (IF "dirlink" \in Linking THEN 1 ELSE 0)
    BY <1>2, <1>3 DEF Linking
  <1> QED BY <1>3, <1>4, <1>5, WritesKeep

(* create takes that link back when it has no room for the name. *)
LEMMA CreateFailTakesBack ==
    ASSUME InodeInv, NEW p \in Procs, CreateFail(p)
    PROVE  InodeInv'
  <1>1. place[p] = "dirlink"
    BY DEF CreateFail, Goto
  <1>2. data[ip[p]].nlink = 1 /\ data[ip[p]] \in Inodes /\ data[ip[p]].type # 0
    BY <1>1, NewLinks, Held DEF Locking
  <1>3. PICK new \in Inodes : new = Nlink(p, 0) /\ new.nlink = 0 /\ new.type # 0
    BY <1>2, StoreNlink DEF Nlink
  <1>4. Writes(p, "dirlink", "iput", new)
    BY <1>3 DEF CreateFail, Writes, Locking, iunlock
  <1>5. new.nlink + (IF "dirlink" \in Linking THEN 1 ELSE 0)
          = data[ip[p]].nlink + (IF "iput" \in Linking THEN 1 ELSE 0)
    BY <1>2, <1>3 DEF Linking
  <1> QED BY <1>3, <1>4, <1>5, WritesKeep

(* chmod leaves the links alone. *)
LEMMA ChmodKeeps ==
    ASSUME InodeInv, NEW p \in Procs, Chmod(p)
    PROVE  InodeInv'
  <1>1. place[p] = "locked" /\ Arg(p) \in SUBSET {"r", "w", "x"}
    BY DEF Chmod, Goto, InodeInv, Calls, CallOK
  <1>2. data[ip[p]] \in Inodes /\ data[ip[p]].type # 0
    BY <1>1, Held DEF Locking
  <1>3. PICK r \in Inodes, a \in SUBSET {"r", "w", "x"} : r = data[ip[p]] /\ a = Arg(p)
    BY <1>1, <1>2
  <1>4. r.type # 0
    BY <1>2, <1>3
  <1>5. PICK new \in Inodes : new = [r EXCEPT !.permissions = a] /\ new.nlink = r.nlink
                              /\ new.type # 0
    BY <1>4, StorePermissions
  <1>6. Writes(p, "locked", "iput", new)
    BY <1>3, <1>5 DEF Chmod, Writes, Locking, iunlock
  <1>7. new.nlink + (IF "locked" \in Linking THEN 1 ELSE 0)
          = data[ip[p]].nlink + (IF "iput" \in Linking THEN 1 ELSE 0)
    BY <1>3, <1>5 DEF Linking
  <1> QED BY <1>5, <1>6, <1>7, WritesKeep

(* link counts the link before it enters the name. *)
LEMMA LinkIncKeeps ==
    ASSUME InodeInv, NEW p \in Procs, LinkInc(p)
    PROVE  InodeInv'
  <1>1. place[p] = "locked" /\ Is(p, "link")
    BY DEF LinkInc, Goto
  <1>2. data[ip[p]] \in Inodes /\ data[ip[p]].type # 0
    BY <1>1, Held DEF Locking
  <1>3. PICK k \in Nat : k = data[ip[p]].nlink
    BY <1>2 DEF Inodes
  <1>4. PICK new \in Inodes : new = Nlink(p, k + 1) /\ new.nlink = k + 1 /\ new.type # 0
    BY <1>2, StoreNlink DEF Nlink
  <1>5. Writes(p, "locked", "link", new)
    BY <1>3, <1>4 DEF LinkInc, Writes, Locking, iunlock
  <1>6. new.nlink + (IF "locked" \in Linking THEN 1 ELSE 0)
          = data[ip[p]].nlink + (IF "link" \in Linking THEN 1 ELSE 0)
    BY <1>3, <1>4 DEF Linking
  <1> QED BY <1>1, <1>4, <1>5, <1>6, WritesKeep

(* A call that takes a link back finds one. *)
LEMMA TakenBack ==
    ASSUME InodeInv, NEW p \in Procs, NEW from \in {"undo", "unlink"}, Goto(p, from, "iput"),
           iupdate(p, Nlink(p, data[ip[p]].nlink - 1)), iunlock(p),
           UNCHANGED <<dir, dirlock, entries, local, ip>>
    PROVE  InodeInv'
  <1>1. place[p] = from /\ place[p] \in Locking \ {"invalidate"} /\ place[p] \in Linking
    BY DEF Goto, Locking, Linking
  <1>2. data[ip[p]] \in Inodes /\ data[ip[p]].type # 0
    BY <1>1, Held
  <1>3. PICK i \in Inums : i = inum[ip[p]] /\ data[ip[p]] = disk[i]
    BY <1>1, Held
  <1>4. disk[i].nlink >= 1
    BY <1>1, <1>2, <1>3, LinkBounds
  <1>5. PICK k \in Nat : k = data[ip[p]].nlink /\ k - 1 \in Nat
    BY <1>2, <1>3, <1>4 DEF Inodes
  <1>6. PICK new \in Inodes : new = Nlink(p, k - 1) /\ new.nlink = k - 1 /\ new.type # 0
    BY <1>2, <1>5, StoreNlink DEF Nlink
  <1>7. Writes(p, from, "iput", new)
    BY <1>5, <1>6 DEF Writes, Locking, iunlock
  <1>8. new.nlink + (IF from \in Linking THEN 1 ELSE 0)
          = data[ip[p]].nlink + (IF "iput" \in Linking THEN 1 ELSE 0)
    BY <1>5, <1>6 DEF Linking
  <1> QED BY <1>6, <1>7, <1>8, WritesKeep

(* link takes its link back. *)
LEMMA LinkUndoKeeps ==
    ASSUME InodeInv, NEW p \in Procs, LinkUndo(p)
    PROVE  InodeInv'
  BY TakenBack DEF LinkUndo

(* unlink takes the link of the name that it erased. *)
LEMMA UnlinkDecKeeps ==
    ASSUME InodeInv, NEW p \in Procs, UnlinkDec(p)
    PROVE  InodeInv'
  BY TakenBack DEF UnlinkDec

(* A step that leaves the inodes, the directory and all pointers alone. *)
Quiet(p, from, to, c) ==
    /\ Goto(p, from, to)
    /\ call' = [call EXCEPT ![p] = c]
    /\ ip' = ip
    /\ UNCHANGED <<disk, dir, dirlock, entries, data, lock, fd>>

(* Such a step keeps the invariant. *)
LEMMA QuietKeeps ==
    ASSUME InodeInv, NEW p \in Procs, NEW from, NEW to, NEW c, Quiet(p, from, to, c),
           \/ from \in {"idle", "namei", "parent"} /\ to \in {"idle", "namei", "parent"}
           \/ from = "link" /\ to = "bad",
           CallOK(p)'
    PROVE  InodeInv'
  <1>1. /\ place[p] = from
        /\ place' = [place EXCEPT ![p] = to] /\ call' = [call EXCEPT ![p] = c]
        /\ disk' = disk /\ dir' = dir /\ dirlock' = dirlock /\ inum' = inum /\ ref' = ref
        /\ valid' = valid /\ data' = data /\ lock' = lock /\ fd' = fd /\ ip' = ip
    BY DEF Quiet, Goto, entries
  <1>2. place \in [Procs -> Places] /\ to \in Places
    BY DEF InodeInv, TypeOK, Places
  <1>3. place'[p] = to /\ \A q \in Procs : q # p => place'[q] = place[q] /\ call'[q] = call[q]
    BY <1>1, <1>2 DEF InodeInv, Calls
  <1>4. from \in Pointing <=> to \in Pointing
    BY DEF Pointing
  <1>5. from \in Linking <=> to \in Linking
    BY DEF Linking
  <1>6. /\ from \notin Leaving \union Locking \union Creating
        /\ to \notin Leaving \union Locking \union Creating
    BY DEF Leaving, Locking, Creating
  <1>7. \A q \in Procs : (place'[q] \in Pointing <=> place[q] \in Pointing)
          /\ (place'[q] \in Leaving <=> place[q] \in Leaving)
          /\ (place'[q] \in Linking <=> place[q] \in Linking)
          /\ (place'[q] \in Locking <=> place[q] \in Locking)
    BY <1>1, <1>3, <1>4, <1>5, <1>6
  <1>11. TypeOK'
    BY <1>1, <1>2 DEF InodeInv, TypeOK
  <1>12. Calls'
    <2>1. call' = [q \in Procs |-> call'[q]]
      BY <1>1 DEF InodeInv, Calls
    <2>2. \A q \in Procs : q # p => CallOK(q)'
      BY <1>3 DEF InodeInv, Calls, CallOK, Name, Is, Arg
    <2> QED BY <2>1, <2>2 DEF Calls
  <1>13. Pointers'
    BY <1>1, <1>7 DEF InodeInv, Pointers
  <1>14. Exact'
    BY <1>1 DEF InodeInv, Exact, IpTo, FdTo
  <1>15. Table'
    BY <1>1 DEF InodeInv, Table
  <1>16. Locks'
    BY <1>1, <1>7 DEF InodeInv, Locks
  <1>17. Coherent'
    BY <1>1, <1>3, <1>6 DEF InodeInv, Coherent, Leaving
  <1>18. Alive'
    BY <1>1, <1>7 DEF InodeInv, Alive
  <1>19. Fresh'
    BY <1>1, <1>3, <1>6, <1>7 DEF InodeInv, Fresh, Unused
  <1>20. DirHeld'
    BY <1>1, <1>3, <1>6 DEF InodeInv, DirHeld, Name, Is
  <1>21. Freeing'
    BY <1>1, <1>3 DEF InodeInv, Freeing
  <1>22. LinkCounts'
    <2>1. \A i : LinksPending(i)' = LinksPending(i)
      BY <1>1, <1>7 DEF LinksPending, At, Linking
    <2> QED BY <1>1, <2>1 DEF InodeInv, LinkCounts
  <1> QED
    BY <1>11, <1>12, <1>13, <1>14, <1>15, <1>16, <1>17, <1>18, <1>19, <1>20, <1>21, <1>22
    DEF InodeInv

(* The start of a call. *)
LEMMA BeginKeeps ==
    ASSUME InodeInv, NEW p \in Procs, NEW c, NEW to, Begin(p, c, to),
           \/ \E n \in Names, m \in OpenModes : c = <<"create", n, m>> /\ to = "parent"
           \/ \E n \in Names, m \in OpenModes : c = <<"open", n, m>> /\ to = "namei"
           \/ \E n \in Names, m \in Permissions : c = <<"chmod", n, m>> /\ to = "namei"
           \/ \E n \in Names : c = <<"getperm", n>> /\ to = "namei"
           \/ \E n, new \in Names : c = <<"link", n, new>> /\ to = "namei"
           \/ \E n \in Names : c = <<"unlink", n>> /\ to = "parent"
    PROVE  InodeInv'
  <1>1. Quiet(p, "idle", to, c)
    BY DEF Begin, Quiet
  <1>2. place'[p] = to /\ to \in {"namei", "parent"}
    BY DEF Begin, Goto, InodeInv, TypeOK
  <1>3. call'[p] = c
    BY DEF Begin, InodeInv, Calls
  <1>4. c[2] \in Names /\ (to = "namei" => c[1] # "unlink") /\ (c[1] = "link" => c[3] \in Names)
          /\ (c[1] = "chmod" => c[3] \in SUBSET {"r", "w", "x"})
    <2>1. CASE \E n \in Names, m \in OpenModes : c = <<"create", n, m>> /\ to = "parent"
      BY <2>1
    <2>2. CASE \E n \in Names, m \in OpenModes : c = <<"open", n, m>> /\ to = "namei"
      BY <2>2
    <2>3. CASE \E n \in Names, m \in Permissions : c = <<"chmod", n, m>> /\ to = "namei"
      <3>1. PICK n \in Names, m \in Permissions : c = <<"chmod", n, m>>
        BY <2>3
      <3>2. m \in SUBSET {"r", "w", "x"}
        BY InodeAssumption
      <3>3. c[1] = "chmod" /\ c[2] = n /\ c[3] = m
        BY <3>1
      <3> QED BY <3>2, <3>3
    <2>4. CASE \E n \in Names : c = <<"getperm", n>> /\ to = "namei"
      BY <2>4
    <2>5. CASE \E n, new \in Names : c = <<"link", n, new>> /\ to = "namei"
      BY <2>5
    <2>6. CASE \E n \in Names : c = <<"unlink", n>> /\ to = "parent"
      BY <2>6
    <2> QED BY <2>1, <2>2, <2>3, <2>4, <2>5, <2>6
  <1>5. CallOK(p)'
    BY <1>2, <1>3, <1>4 DEF CallOK, Name, Is, Arg, Creating
  <1> QED BY <1>1, <1>2, <1>5, QuietKeeps

(* A call that finds no name, or no inode for it. *)
LEMMA GivesUp ==
    ASSUME InodeInv, NEW p \in Procs, NEW from \in {"namei", "parent"}, SysReturn(p, from),
           UNCHANGED <<disk, dir, dirlock, entries, data, lock, fd>>
    PROVE  InodeInv'
  <1>1. place[p] = from /\ place'[p] = "idle"
    BY DEF SysReturn, Goto, InodeInv, TypeOK
  <1>2. ip[p] = 0
    BY <1>1 DEF InodeInv, Pointers, Pointing
  <1>3. ip' = ip
    BY <1>2 DEF SysReturn, InodeInv, TypeOK
  <1>4. Quiet(p, from, "idle", Idle)
    BY <1>3 DEF SysReturn, Quiet
  <1>5. call'[p] = Idle
    BY DEF SysReturn, InodeInv, Calls
  <1>6. Idle[1] = "none"
    BY DEF Idle
  <1>7. CallOK(p)'
    BY <1>1, <1>5, <1>6 DEF CallOK, Is, Creating
  <1> QED BY <1>4, <1>7, QuietKeeps

(* link finds that it cannot enter the name. *)
LEMMA LinkBadKeeps ==
    ASSUME InodeInv, NEW p \in Procs, LinkBad(p)
    PROVE  InodeInv'
  <1>1. place[p] = "link" /\ place'[p] = "bad" /\ call' = call
    BY DEF LinkBad, Goto, local, InodeInv, TypeOK
  <1>2. call' = [call EXCEPT ![p] = call[p]]
    BY <1>1 DEF InodeInv, Calls
  <1>3. Quiet(p, "link", "bad", call[p])
    BY <1>2 DEF LinkBad, Quiet, local
  <1>4. CallOK(p)'
    BY <1>1 DEF InodeInv, Calls, CallOK, Name, Is, Arg, Creating, Places
  <1> QED BY <1>3, <1>4, QuietKeeps

(* A step that takes or drops the lock of the inode, with what ilock reads. *)
Turns(p, from, to, v, d) ==
    /\ Goto(p, from, to)
    /\ lock' = [lock EXCEPT ![ip[p]] = IF to \in Locking THEN p ELSE NoProc]
    /\ data' = [data EXCEPT ![ip[p]] = d]
    /\ valid' = [valid EXCEPT ![ip[p]] = v]
    /\ UNCHANGED <<disk, dir, dirlock, inum, ref, local, ip>>

(* Such a step keeps the invariant if what it reads is on disk. *)
LEMMA TurnsKeep ==
    ASSUME InodeInv, NEW p \in Procs, NEW from, NEW to, NEW v \in BOOLEAN, NEW d \in Inodes,
           Turns(p, from, to, v, d),
           \/ from = "ilock" /\ to = "locked" /\ v /\ lock[ip[p]] = NoProc /\ d = disk[inum[ip[p]]]
           \/ from = "ilock_new" /\ to = "init" /\ v /\ lock[ip[p]] = NoProc /\ d = disk[inum[ip[p]]]
           \/ from = "bad" /\ to = "undo" /\ v /\ lock[ip[p]] = NoProc /\ d = disk[inum[ip[p]]]
           \/ from = "iput" /\ to = "free" /\ v /\ lock[ip[p]] = NoProc /\ d = disk[inum[ip[p]]]
                /\ d.nlink = 0 /\ ref[ip[p]] = 1
           \/ from = "locked" /\ to = "iput" /\ d = disk[inum[ip[p]]]
           \/ from = "invalidate" /\ to = "drop" /\ ~ v
    PROVE  InodeInv'
  <1> DEFINE e == ip[p]
             i == inum[e]
  <1>0. place[p] = from /\ from \in Pointing /\ to \in Pointing /\ to \in Places
    BY DEF Turns, Goto, Pointing, Places
  <1>1. e \in Slots /\ ref[e] > 0 /\ i \in Inums
    BY <1>0, Referenced DEF InodeInv, Pointers, Table
  <1>2. \A q \in Procs : q # p /\ place[q] \in Locking => ip[q] # e
    <2>1. CASE lock[e] = NoProc
      BY <1>1, <2>1, InodeAssumption DEF InodeInv, Locks
    <2>2. CASE from \in Locking
      BY <1>0, <1>1, <2>2 DEF InodeInv, Locks
    <2> QED BY <2>1, <2>2 DEF Locking
  <1>3. /\ place \in [Procs -> Places] /\ data \in [Slots -> Inodes]
        /\ lock \in [Slots -> Procs \union {NoProc}] /\ valid \in [Slots -> BOOLEAN]
    BY DEF InodeInv, TypeOK
  <1>4. /\ place' = [place EXCEPT ![p] = to]
        /\ lock' = [lock EXCEPT ![e] = IF to \in Locking THEN p ELSE NoProc]
        /\ data' = [data EXCEPT ![e] = d]
        /\ valid' = [valid EXCEPT ![e] = v]
        /\ disk' = disk /\ dir' = dir /\ dirlock' = dirlock /\ inum' = inum /\ ref' = ref
        /\ call' = call /\ fd' = fd /\ ip' = ip
    BY DEF Turns, Goto, local
  <1>5. place'[p] = to /\ \A q \in Procs : q # p => place'[q] = place[q]
    BY <1>3, <1>4
  <1>6. data'[e] = d /\ (valid'[e] <=> v)
          /\ \A f \in Slots : f # e => data'[f] = data[f] /\ (valid'[f] <=> valid[f])
    BY <1>1, <1>3, <1>4
  <1>7. /\ from \in Leaving <=> to \in Leaving
        /\ from \in Linking <=> to \in Linking
        /\ to \in Creating => from \in Creating
        /\ place[p] # "iget" /\ place'[p] # "iget"
    BY <1>5 DEF Leaving, Linking, Creating, Turns, Goto
  <1> HIDE DEF e, i
  <1>11. TypeOK'
    BY <1>0, <1>1, <1>3, <1>4, InodeAssumption DEF InodeInv, TypeOK
  <1>12. Calls'
    BY <1>0, <1>4, <1>5 DEF InodeInv, Calls, CallOK, Name, Is, Arg, Creating, Places
  <1>13. Pointers'
    BY <1>0, <1>4, <1>5 DEF InodeInv, Pointers
  <1>14. Exact'
    BY <1>4 DEF InodeInv, Exact, IpTo, FdTo
  <1>15. Table'
    BY <1>4 DEF InodeInv, Table
  <1>16. Locks'
    <2>1. \A q \in Procs : q # p => (place'[q] \in Locking <=> place[q] \in Locking)
      BY <1>5
    <2>2. to \in Locking => v
      BY DEF Locking
    <2>3. /\ lock'[e] = IF to \in Locking THEN p ELSE NoProc
          /\ \A f \in Slots : f # e => lock'[f] = lock[f]
      BY <1>1, <1>3, <1>4
    <2>4. \A f \in Slots, q \in Procs : lock'[f] = q <=> ip'[q] = f /\ place'[q] \in Locking
      BY <1>1, <1>2, <1>4, <1>5, <2>1, <2>3, InodeAssumption DEF InodeInv, Locks, e
    <2>5. \A q \in Procs : place'[q] \in Locking => valid'[ip'[q]]
      <3> SUFFICES ASSUME NEW q \in Procs, place'[q] \in Locking PROVE valid'[ip[q]]
        BY <1>4
      <3>1. CASE q = p
        BY <3>1, <1>5, <1>6, <2>2 DEF e
      <3>2. CASE q # p
        <4>1. place[q] \in Locking /\ ip[q] # e /\ valid[ip[q]]
          BY <3>2, <2>1, <1>2 DEF InodeInv, Locks
        <4>2. ip[q] \in Slots
          BY <4>1, Referenced DEF InodeInv, Pointers, Locking, Pointing
        <4> QED BY <4>1, <4>2, <1>6
      <3> QED BY <3>1, <3>2
    <2> QED BY <2>4, <2>5 DEF Locks
  <1>17. Coherent'
    <2>1. from \notin Leaving => disk[i].type # 0
      BY <1>0 DEF InodeInv, Alive, i, e
    <2>2. v => d = disk[i] /\ d.type # 0
      BY <2>1 DEF Leaving, i, e
    <2>3. \A q \in Procs : place[q] = "invalidate" /\ q # p => place'[q] = "invalidate"
      BY <1>5
    <2>4. \A f \in Slots : f # e => ip[p] # f
      BY DEF e
    <2> SUFFICES ASSUME NEW f \in Slots, ref[f] > 0, valid'[f],
                        \A q \in Procs : place'[q] = "invalidate" => ip[q] # f
                 PROVE  data'[f] = disk[inum[f]] /\ data'[f].type # 0
      BY <1>4 DEF Coherent
    <2>5. CASE f = e
      BY <2>5, <1>6, <2>2 DEF i
    <2>6. CASE f # e
      <3>1. valid[f] /\ data'[f] = data[f]
        BY <2>6, <1>6
      <3>2. \A q \in Procs : place[q] = "invalidate" => ip[q] # f
        BY <2>3, <2>4, <2>6
      <3> QED BY <3>1, <3>2 DEF InodeInv, Coherent
    <2> QED BY <2>5, <2>6
  <1>18. Alive'
    BY <1>0, <1>4, <1>5, <1>7 DEF InodeInv, Alive
  <1>19. Fresh'
    BY <1>0, <1>4, <1>5, <1>7 DEF InodeInv, Fresh, Unused
  <1>20. DirHeld'
    BY <1>0, <1>4, <1>5, <1>7 DEF InodeInv, DirHeld, Name, Is
  <1>21. Freeing'
    BY <1>0, <1>1, <1>2, <1>4, <1>5, <1>6, Referenced
    DEF InodeInv, Freeing, Locking, Pointers, Pointing, e
  <1>22. LinkCounts'
    <2>1. \A q \in Procs : place'[q] \in Linking <=> place[q] \in Linking
      BY <1>0, <1>5, <1>7
    <2>2. \A j : LinksPending(j)' = LinksPending(j)
      BY <1>4, <2>1 DEF LinksPending, At, Linking
    <2> QED BY <1>4, <2>2 DEF InodeInv, LinkCounts
  <1> QED
    BY <1>11, <1>12, <1>13, <1>14, <1>15, <1>16, <1>17, <1>18, <1>19, <1>20, <1>21, <1>22
    DEF InodeInv

(* ilock reads the inode, or finds in the entry what is on disk. *)
LEMMA IlockKeeps ==
    ASSUME InodeInv, NEW p \in Procs, NEW from, NEW to, ilock(p, from, to),
           <<from, to>> \in {<<"ilock", "locked">>, <<"ilock_new", "init">>, <<"bad", "undo">>}
    PROVE  InodeInv'
  <1>1. place[p] = from /\ from \in Pointing /\ to \in Locking
    BY DEF ilock, Goto, Pointing, Locking
  <1>2. ip[p] \in Slots /\ ref[ip[p]] > 0 /\ inum[ip[p]] \in Inums
    BY <1>1, Referenced DEF InodeInv, Pointers, Table
  <1>3. lock[ip[p]] = NoProc
    BY DEF ilock
  <1>4. \A q \in Procs : place[q] = "invalidate" => ip[q] # ip[p]
    BY <1>2, <1>3, InodeAssumption DEF InodeInv, Locks, Locking
  <1>5. PICK d \in Inodes : d = disk[inum[ip[p]]]
    BY <1>2 DEF InodeInv, TypeOK
  <1>6. valid[ip[p]] => data[ip[p]] = d
    BY <1>2, <1>4, <1>5 DEF InodeInv, Coherent
  <1>7. (IF valid[ip[p]] THEN data[ip[p]] ELSE disk[inum[ip[p]]]) = d
    BY <1>5, <1>6
  <1>8. data' = [data EXCEPT ![ip[p]] = d]
    BY <1>7 DEF ilock
  <1>9. Turns(p, from, to, TRUE, d)
    BY <1>1, <1>8 DEF ilock, Turns
  <1> QED BY <1>3, <1>5, <1>9, TurnsKeep

(* iunlock at the end of a call that has only read the inode. *)
LEMMA UnlockKeeps ==
    ASSUME InodeInv, NEW p \in Procs, Unlock(p, "locked")
    PROVE  InodeInv'
  <1>1. place[p] = "locked" /\ place[p] \in Locking \ {"invalidate"}
    BY DEF Unlock, Goto, Locking
  <1>2. ip[p] \in Slots /\ data[ip[p]] = disk[inum[ip[p]]]
    BY <1>1, Held
  <1>3. PICK d \in Inodes : d = data[ip[p]]
    BY <1>1, Held
  <1>4. PICK v \in BOOLEAN : v = valid[ip[p]]
    BY <1>2 DEF InodeInv, TypeOK
  <1>5. data = [data EXCEPT ![ip[p]] = d] /\ valid = [valid EXCEPT ![ip[p]] = v]
    BY <1>3, <1>4 DEF InodeInv, TypeOK
  <1>6. Turns(p, "locked", "iput", v, d)
    BY <1>5 DEF Unlock, Turns, iunlock, entries, Locking
  <1> QED BY <1>2, <1>3, <1>6, TurnsKeep

(* iput takes the lock of an inode that nobody else has. *)
LEMMA IputLastKeeps ==
    ASSUME InodeInv, NEW p \in Procs, IputLast(p)
    PROVE  InodeInv'
  <1>1. /\ place[p] = "iput" /\ place[p] \in Pointing
        /\ lock[ip[p]] = NoProc /\ ref[ip[p]] = 1 /\ valid[ip[p]] /\ data[ip[p]].nlink = 0
    BY DEF IputLast, LastRef, Goto, Pointing
  <1>2. ip[p] \in Slots /\ ref[ip[p]] > 0
    BY <1>1, Referenced DEF InodeInv, Pointers
  <1>3. \A q \in Procs : place[q] = "invalidate" => ip[q] # ip[p]
    BY <1>1, <1>2, InodeAssumption DEF InodeInv, Locks, Locking
  <1>4. PICK d \in Inodes : d = data[ip[p]]
    BY <1>2 DEF InodeInv, TypeOK
  <1>5. d = disk[inum[ip[p]]]
    BY <1>1, <1>2, <1>3, <1>4 DEF InodeInv, Coherent
  <1>6. data = [data EXCEPT ![ip[p]] = d] /\ valid = [valid EXCEPT ![ip[p]] = TRUE]
    BY <1>1, <1>4 DEF InodeInv, TypeOK
  <1>7. Turns(p, "iput", "free", TRUE, d)
    BY <1>6 DEF IputLast, Turns, entries, Locking
  <1> QED BY <1>1, <1>4, <1>5, <1>7, TurnsKeep

(* iput gives the entry up, before somebody else can lock it. *)
LEMMA IputInvalidateKeeps ==
    ASSUME InodeInv, NEW p \in Procs, IputInvalidate(p)
    PROVE  InodeInv'
  <1>1. place[p] = "invalidate" /\ place[p] \in Pointing
    BY DEF IputInvalidate, Goto, Pointing
  <1>2. ip[p] \in Slots
    BY <1>1, Referenced DEF InodeInv, Pointers
  <1>3. PICK d \in Inodes : d = data[ip[p]]
    BY <1>2 DEF InodeInv, TypeOK
  <1>4. data = [data EXCEPT ![ip[p]] = d]
    BY <1>3 DEF InodeInv, TypeOK
  <1>5. Turns(p, "invalidate", "drop", FALSE, d)
    BY <1>4 DEF IputInvalidate, Turns, iunlock, Locking
  <1> QED BY <1>5, TurnsKeep

(* When the type is cleared nobody else can reach the inode. *)
LEMMA IputFreeKeeps ==
    ASSUME InodeInv, NEW p \in Procs, IputFree(p)
    PROVE  InodeInv'
  <1> DEFINE e == ip[p]
             i == inum[e]
  <1>0. /\ place[p] = "free" /\ place[p] \in Locking \ {"invalidate"}
        /\ place[p] \in Pointing \ Leaving
    BY DEF IputFree, Goto, Locking, Pointing, Leaving
  <1>1. /\ e \in Slots /\ ref[e] > 0 /\ i \in Inums /\ lock[e] = p
        /\ data[e] = disk[i] /\ disk[i].type # 0
    BY <1>0, Held
  <1>2. \A q \in Procs : q # p /\ place[q] \in Locking => ip[q] # e
    BY <1>0, Held
  <1>3. ref[e] = 1 /\ data[e].nlink = 0
    BY <1>0 DEF InodeInv, Freeing
  <1>4. PICK new \in Inodes : new = [data[e] EXCEPT !.type = 0] /\ new.type = 0
    BY <1>0, Held, StoreType
  <1>5. /\ place' = [place EXCEPT ![p] = "invalidate"]
        /\ data' = [data EXCEPT ![e] = new]
        /\ disk' = [disk EXCEPT ![i] = new]
        /\ lock' = lock /\ dir' = dir /\ dirlock' = dirlock /\ inum' = inum /\ ref' = ref
        /\ valid' = valid /\ call' = call /\ fd' = fd /\ ip' = ip
    BY <1>4 DEF IputFree, Goto, iupdate, entries, local
  <1>6. /\ place \in [Procs -> Places] /\ disk \in [Inums -> Inodes] /\ data \in [Slots -> Inodes]
        /\ "invalidate" \in Places
    BY DEF InodeInv, TypeOK, Places
  <1>7. place'[p] = "invalidate" /\ \A q \in Procs : q # p => place'[q] = place[q]
    BY <1>5, <1>6
  <1>8. disk'[i] = new /\ \A j \in Inums : j # i => disk'[j] = disk[j]
    BY <1>1, <1>5, <1>6
  <1>9. data'[e] = new /\ \A f \in Slots : f # e => data'[f] = data[f]
    BY <1>1, <1>5, <1>6
  <1>10. \A n \in Names : dir[n] # i
    BY <1>1, <1>3, LinkBounds
  <1>11. \A q \in Procs : /\ q # p /\ ip[q] # 0 => inum[ip[q]] # i
                          /\ fd[q] # 0 => inum[fd[q]] # i
    <2> SUFFICES ASSUME NEW q \in Procs
                 PROVE  /\ q # p /\ ip[q] # 0 => inum[ip[q]] # i
                        /\ fd[q] # 0 => inum[fd[q]] # i
      OBVIOUS
    <2>1. (q # p => ip[q] # e) /\ fd[q] # e
      BY <1>0, <1>1, <1>3, Referenced DEF InodeInv, Pointers
    <2>2. ip[q] # 0 => ip[q] \in Slots /\ ref[ip[q]] > 0
      BY Referenced
    <2>3. fd[q] # 0 => fd[q] \in Slots /\ ref[fd[q]] > 0
      BY Referenced
    <2> QED BY <1>1, <2>1, <2>2, <2>3 DEF InodeInv, Table
  <1>12. \A q \in Procs : place[q] \in Creating => call[q][4] # i /\ call[q][4] \in Inums
    BY <1>0 DEF InodeInv, Fresh, Unused, Creating, Calls, CallOK
  <1>13. /\ "invalidate" \notin Creating \union Linking
         /\ "invalidate" \in Pointing \cap Leaving \cap Locking
         /\ "free" \notin Creating \union Linking
    BY DEF Creating, Linking, Pointing, Leaving, Locking
  <1> HIDE DEF e, i
  <1>21. TypeOK'
    BY <1>1, <1>5, <1>6 DEF InodeInv, TypeOK
  <1>22. Calls'
    BY <1>0, <1>5, <1>7 DEF InodeInv, Calls, CallOK, Name, Is, Arg, Creating, Places
  <1>23. Pointers'
    BY <1>0, <1>5, <1>7, <1>13 DEF InodeInv, Pointers
  <1>24. Exact'
    BY <1>5 DEF InodeInv, Exact, IpTo, FdTo
  <1>25. Table'
    BY <1>5 DEF InodeInv, Table
  <1>26. Locks'
    BY <1>0, <1>5, <1>7, <1>13 DEF InodeInv, Locks
  <1>27. Coherent'
    BY <1>0, <1>1, <1>5, <1>7, <1>8, <1>9 DEF InodeInv, Coherent, Table, i, e
  <1>28. Alive'
    <2>1. \A q \in Procs : place'[q] \in Pointing \ Leaving => disk'[inum'[ip'[q]]].type # 0
      <3> SUFFICES ASSUME NEW q \in Procs, place'[q] \in Pointing \ Leaving
                   PROVE  disk'[inum[ip[q]]].type # 0
        BY <1>5
      <3>1. q # p /\ place[q] \in Pointing \ Leaving
        BY <1>7, <1>13
      <3>2. ip[q] # 0 /\ disk[inum[ip[q]]].type # 0
        BY <3>1 DEF InodeInv, Pointers, Alive
      <3>3. inum[ip[q]] \in Inums /\ inum[ip[q]] # i
        BY <3>1, <3>2, <1>11, Referenced DEF InodeInv, Table
      <3> QED BY <3>2, <3>3, <1>8
    <2>2. \A q \in Procs : fd'[q] # 0 => disk'[inum'[fd'[q]]].type # 0
      <3> SUFFICES ASSUME NEW q \in Procs, fd[q] # 0 PROVE disk'[inum[fd[q]]].type # 0
        BY <1>5
      <3>1. inum[fd[q]] \in Inums /\ inum[fd[q]] # i
        BY <1>11, Referenced DEF InodeInv, Table
      <3> QED BY <3>1, <1>8 DEF InodeInv, Alive
    <2>3. \A n \in Names : dir'[n] # 0 => disk'[dir'[n]].type # 0
      BY <1>5, <1>8, <1>10 DEF InodeInv, Alive, TypeOK
    <2> QED BY <2>1, <2>2, <2>3 DEF Alive
  <1>29. Fresh'
    BY <1>5, <1>7, <1>8, <1>12, <1>13 DEF InodeInv, Fresh, Unused
  <1>30. DirHeld'
    BY <1>5, <1>7, <1>13 DEF InodeInv, DirHeld, Name, Is
  <1>31. Freeing'
    BY <1>2, <1>5, <1>7, <1>9, Referenced DEF InodeInv, Freeing, Locking, Pointers, Pointing
  <1>32. LinkCounts'
    <2>1. \A q \in Procs : place'[q] \in Linking <=> place[q] \in Linking
      BY <1>0, <1>7, <1>13
    <2>2. \A j : LinksPending(j)' = LinksPending(j)
      BY <1>5, <2>1 DEF LinksPending, At, Linking
    <2> QED BY <1>4, <1>5, <1>8, <2>2 DEF InodeInv, LinkCounts
  <1> QED
    BY <1>21, <1>22, <1>23, <1>24, <1>25, <1>26, <1>27, <1>28, <1>29, <1>30, <1>31, <1>32
    DEF InodeInv

(* A name is entered for, or taken from, the inode of a call. *)
Renames(p, from, to, n, i) ==
    /\ Goto(p, from, to)
    /\ dir' = [dir EXCEPT ![n] = i]
    /\ dirlock' = NoProc
    /\ UNCHANGED <<disk, entries, data, lock, local, ip>>

(* Such a step keeps the invariant: the name comes or goes when the call   *)
(* leaves or joins those between name and count.                           *)
LEMMA RenamesKeep ==
    ASSUME InodeInv, NEW p \in Procs, NEW from, NEW to, NEW n \in Names, NEW i,
           Renames(p, from, to, n, i), dirlock \in {p, NoProc},
           \/ /\ from = "dirlink" /\ to = "locked" /\ Is(p, "create")
              /\ i = inum[ip[p]] /\ dir[n] = 0
           \/ /\ from = "link" /\ to = "iput"
              /\ i = inum[ip[p]] /\ dir[n] = 0
           \/ /\ from = "locked" /\ to = "unlink"
              /\ i = 0 /\ dir[n] = inum[ip[p]]
    PROVE  InodeInv'
  <1> DEFINE e == ip[p]
             k == inum[e]
  <1>0. place[p] = from /\ from \in Pointing \ Leaving /\ to \in Pointing \ Leaving /\ to \in Places
    BY DEF Renames, Goto, Pointing, Leaving, Places
  <1>1. e \in Slots /\ ref[e] > 0 /\ k \in Inums /\ disk[k].type # 0
    BY <1>0, Referenced DEF InodeInv, Pointers, Table, Alive
  <1>2. /\ place' = [place EXCEPT ![p] = to] /\ dir' = [dir EXCEPT ![n] = i] /\ dirlock' = NoProc
        /\ disk' = disk /\ inum' = inum /\ ref' = ref /\ valid' = valid /\ data' = data
        /\ lock' = lock /\ call' = call /\ fd' = fd /\ ip' = ip
    BY DEF Renames, Goto, entries, local
  <1>3. place \in [Procs -> Places] /\ dir \in [Names -> Inums \union {0}] /\ i \in Inums \union {0}
    BY <1>1 DEF InodeInv, TypeOK
  <1>4. place'[p] = to /\ \A q \in Procs : q # p => place'[q] = place[q]
    BY <1>2, <1>3
  <1>5. dir'[n] = i /\ \A m \in Names : m # n => dir'[m] = dir[m]
    BY <1>2, <1>3
  <1>6. \A q \in Procs : q # p => /\ place[q] \notin Creating
                                  /\ ~ (place[q] \in {"ilock", "locked"} /\ Is(q, "unlink"))
    BY InodeAssumption DEF InodeInv, DirHeld
  <1>7. \A q \in Procs : place'[q] \notin Creating
                         /\ ~ (place'[q] \in {"ilock", "locked"} /\ Is(q, "unlink"))
    BY <1>4, <1>6 DEF Creating, Is
  <1>8. from \in Locking <=> to \in Locking
    BY DEF Locking
  <1> HIDE DEF e, k
  <1>11. TypeOK'
    BY <1>0, <1>2, <1>3 DEF InodeInv, TypeOK
  <1>12. Calls'
    BY <1>0, <1>2, <1>4 DEF InodeInv, Calls, CallOK, Name, Is, Arg, Creating, Places
  <1>13. Pointers'
    BY <1>0, <1>2, <1>4 DEF InodeInv, Pointers
  <1>14. Exact'
    BY <1>2 DEF InodeInv, Exact, IpTo, FdTo
  <1>15. Table'
    BY <1>2 DEF InodeInv, Table
  <1>16. Locks'
    BY <1>0, <1>2, <1>4, <1>8 DEF InodeInv, Locks
  <1>17. Coherent'
    BY <1>0, <1>2, <1>4 DEF InodeInv, Coherent
  <1>18. Alive'
    BY <1>0, <1>1, <1>2, <1>4, <1>5 DEF InodeInv, Alive, k, e
  <1>19. Fresh'
    BY <1>7 DEF Fresh
  <1>20. DirHeld'
    BY <1>2, <1>7 DEF DirHeld, Is
  <1>21. Freeing'
    BY <1>0, <1>2, <1>4 DEF InodeInv, Freeing
  <1>22. LinkCounts'
    <2> SUFFICES ASSUME NEW j \in Inums, disk[j].type # 0
                 PROVE  disk[j].nlink = Cardinality({m \in Names : dir'[m] = j})
                                         + Cardinality(LinksPending(j)')
      BY <1>2 DEF LinkCounts
    <2> DEFINE A == {m \in Names : dir[m] = j}
               B == {m \in Names : dir'[m] = j}
    <2>1. \A q : q # p => (q \in LinksPending(j) <=> q \in LinksPending(j)')
      BY <1>2, <1>4 DEF LinksPending, At
    <2>2. /\ p \in LinksPending(j) <=> from \in Linking /\ k = j
          /\ p \in LinksPending(j)' <=> to \in Linking /\ k = j
      BY <1>0, <1>2, <1>4 DEF LinksPending, At, Linking, k, e
    <2>3. \A m : m # n => (m \in A <=> m \in B)
      BY <1>5
    <2>4. (n \in A <=> dir[n] = j) /\ (n \in B <=> i = j)
      BY <1>5
    <2>5. 0 # j
      BY DEF Inums
    <2>6. disk[j].nlink = Cardinality(A) + Cardinality(LinksPending(j))
      BY DEF InodeInv, LinkCounts
    <2>7. IsFiniteSet(A) /\ IsFiniteSet(LinksPending(j))
      BY Finite
    <2> HIDE DEF A, B
    <2> DEFINE a == Cardinality(A)
               b == Cardinality(B)
               c == Cardinality(LinksPending(j))
               d == Cardinality(LinksPending(j)')
    <2>8. /\ a \in Nat /\ b \in Nat
          /\ (n \in A <=> n \in B) => b = a
          /\ n \in A /\ n \notin B => a = b + 1
          /\ n \notin A /\ n \in B => b = a + 1
      BY <2>3, <2>7, CountStep
    <2>9. /\ c \in Nat /\ d \in Nat
          /\ (p \in LinksPending(j) <=> p \in LinksPending(j)') => d = c
          /\ p \in LinksPending(j) /\ p \notin LinksPending(j)' => c = d + 1
          /\ p \notin LinksPending(j) /\ p \in LinksPending(j)' => d = c + 1
      BY <2>1, <2>7, CountStep
    <2>10. disk[j].nlink = a + c
      BY <2>6
    <2> HIDE DEF a, b, c, d
    <2>11. \/ from \in Linking /\ to \notin Linking /\ i = k /\ dir[n] = 0
           \/ from \notin Linking /\ to \in Linking /\ i = 0 /\ dir[n] = k
      BY DEF Linking, k, e
    <2>12. a + c = b + d
      BY <2>2, <2>4, <2>5, <2>8, <2>9, <2>11
    <2> QED BY <2>10, <2>12 DEF b, d, B
  <1> QED
    BY <1>11, <1>12, <1>13, <1>14, <1>15, <1>16, <1>17, <1>18, <1>19, <1>20, <1>21, <1>22
    DEF InodeInv

(* create enters the name, which still does not exist. *)
LEMMA CreateLinkKeeps ==
    ASSUME InodeInv, NEW p \in Procs, CreateLink(p)
    PROVE  InodeInv'
  <1>1. place[p] = "dirlink"
    BY DEF CreateLink, Goto
  <1>2. Name(p) \in Names /\ Is(p, "create") /\ dirlock = p /\ dir[Name(p)] = 0
    BY <1>1 DEF InodeInv, Calls, CallOK, DirHeld, Creating, Places
  <1>3. Renames(p, "dirlink", "locked", Name(p), inum[ip[p]])
    BY DEF CreateLink, Renames
  <1> QED BY <1>2, <1>3, RenamesKeep

(* link enters the new name. *)
LEMMA LinkEnterKeeps ==
    ASSUME InodeInv, NEW p \in Procs, LinkEnter(p)
    PROVE  InodeInv'
  <1>1. place[p] = "link" /\ dirlock = NoProc /\ dir[Arg(p)] = 0
    BY DEF LinkEnter, Goto
  <1>2. Arg(p) \in Names
    BY <1>1 DEF InodeInv, Calls, CallOK
  <1>3. Renames(p, "link", "iput", Arg(p), inum[ip[p]])
    BY <1>1 DEF LinkEnter, Renames
  <1> QED BY <1>1, <1>2, <1>3, RenamesKeep

(* unlink erases the name, which still is that of its inode. *)
LEMMA UnlinkEraseKeeps ==
    ASSUME InodeInv, NEW p \in Procs, UnlinkErase(p)
    PROVE  InodeInv'
  <1>1. place[p] = "locked" /\ Is(p, "unlink")
    BY DEF UnlinkErase, Goto
  <1>2. Name(p) \in Names /\ dirlock = p /\ dir[Name(p)] = inum[ip[p]]
    BY <1>1 DEF InodeInv, Calls, CallOK, DirHeld, Places
  <1>3. Renames(p, "locked", "unlink", Name(p), 0)
    BY DEF UnlinkErase, Renames
  <1> QED BY <1>2, <1>3, RenamesKeep

(* The least number of a set is in it. *)
LEMMA MinIsIn ==
    ASSUME NEW S, S \subseteq Nat, S # {}
    PROVE  Min(S) \in S
  <1>1. \E x \in S : \A y \in S : x <= y
    BY LeastNumber
  <1> QED BY <1>1 DEF Min

(* ialloc takes an inode that nobody reaches. *)
LEMMA CreateAllocKeeps ==
    ASSUME InodeInv, NEW p \in Procs, CreateAlloc(p)
    PROVE  InodeInv'
  <1>1. Min(FreeInums) \in FreeInums
    <2>1. FreeInums \subseteq Nat /\ FreeInums # {}
      BY InodeAssumption DEF CreateAlloc, FreeInums, Inums
    <2> QED BY <2>1, MinIsIn
  <1>2. PICK i \in Inums : i = Min(FreeInums) /\ disk[i].type = 0
    BY <1>1 DEF FreeInums
  <1>3. PICK new \in Inodes : new = [type |-> T_FILE, nlink |-> 0, permissions |-> {"r", "w", "x"}]
                              /\ new.type = 1 /\ new.nlink = 0
    <2> DEFINE r == [type |-> T_FILE, nlink |-> 0, permissions |-> {"r", "w", "x"}]
    <2>1. r \in Inodes /\ r.type = 1 /\ r.nlink = 0
      BY DEF Inodes, T_FILE
    <2> QED BY <2>1
  <1>4. /\ place[p] = "parent" /\ dirlock = NoProc /\ dir[Name(p)] = 0 /\ Is(p, "create")
        /\ disk' = [disk EXCEPT ![i] = new]
        /\ call' = [call EXCEPT ![p] = <<"create", Name(p), Arg(p), i>>]
        /\ place' = [place EXCEPT ![p] = "iget"]
        /\ dirlock' = p
        /\ dir' = dir /\ inum' = inum /\ ref' = ref /\ valid' = valid /\ data' = data
        /\ lock' = lock /\ ip' = ip /\ fd' = fd
    BY <1>2, <1>3 DEF CreateAlloc, entries
  <1>5. place \in [Procs -> Places] /\ disk \in [Inums -> Inodes] /\ "iget" \in Places
    BY DEF InodeInv, TypeOK, Places
  <1>6. /\ place'[p] = "iget" /\ call'[p] = <<"create", Name(p), Arg(p), i>>
        /\ \A q \in Procs : q # p => place'[q] = place[q] /\ call'[q] = call[q]
    BY <1>4, <1>5 DEF InodeInv, Calls
  <1>7. disk'[i] = new /\ \A j \in Inums : j # i => disk'[j] = disk[j]
    BY <1>4, <1>5
  <1>8. call'[p][1] = "create" /\ call'[p][2] = Name(p) /\ call'[p][3] = Arg(p) /\ call'[p][4] = i
    BY <1>6
  <1>9. \A n \in Names : dir[n] # i
    BY <1>2 DEF InodeInv, Alive, Inums
  <1>10. \A q \in Procs : /\ place[q] \in Pointing \ Leaving => inum[ip[q]] # i
                          /\ fd[q] # 0 => inum[fd[q]] # i
    BY <1>2 DEF InodeInv, Alive
  <1>11. \A q \in Procs : q # p => /\ place[q] \notin Creating
                                   /\ ~ (place[q] \in {"ilock", "locked"} /\ Is(q, "unlink"))
    BY <1>4, InodeAssumption DEF InodeInv, DirHeld
  <1>12. /\ "parent" \notin Pointing \union Linking \union Locking
         /\ "iget" \notin Pointing \union Linking \union Locking
    BY DEF Pointing, Linking, Locking
  <1>21. TypeOK'
    BY <1>4, <1>5 DEF InodeInv, TypeOK
  <1>22. Calls'
    <2>1. call' = [q \in Procs |-> call'[q]]
      BY <1>4 DEF InodeInv, Calls
    <2>2. \A q \in Procs : q # p => CallOK(q)'
      BY <1>6 DEF InodeInv, Calls, CallOK, Name, Is, Arg
    <2>3. Name(p) \in Names
      BY <1>4 DEF InodeInv, Calls, CallOK, Places
    <2>4. CallOK(p)'
      BY <1>6, <1>8, <2>3 DEF CallOK, Name, Is, Arg
    <2> QED BY <2>1, <2>2, <2>4 DEF Calls
  <1>23. Pointers'
    BY <1>4, <1>6, <1>12 DEF InodeInv, Pointers
  <1>24. Exact'
    BY <1>4 DEF InodeInv, Exact, IpTo, FdTo
  <1>25. Table'
    BY <1>4 DEF InodeInv, Table
  <1>26. Locks'
    BY <1>4, <1>6, <1>12 DEF InodeInv, Locks
  <1>27. Coherent'
    <2> SUFFICES ASSUME NEW e \in Slots, ref[e] > 0, valid[e],
                        \A q \in Procs : place'[q] = "invalidate" => ip[q] # e
                 PROVE  data[e] = disk'[inum[e]] /\ data[e].type # 0
      BY <1>4 DEF Coherent
    <2>1. \A q \in Procs : place[q] = "invalidate" => ip[q] # e
      BY <1>4, <1>6
    <2>2. data[e] = disk[inum[e]] /\ data[e].type # 0 /\ inum[e] \in Inums
      BY <2>1 DEF InodeInv, Coherent, Table
    <2> QED BY <1>2, <1>7, <2>2
  <1>28. Alive'
    BY <1>3, <1>4, <1>6, <1>7, <1>12 DEF InodeInv, Alive, TypeOK
  <1>29. Fresh'
    <2>1. Unused(p, i)'
      BY <1>3, <1>4, <1>6, <1>7, <1>9, <1>10 DEF Unused
    <2> QED BY <1>6, <1>8, <1>11, <2>1 DEF Fresh
  <1>30. DirHeld'
    BY <1>4, <1>6, <1>8, <1>11 DEF DirHeld, Name, Is
  <1>31. Freeing'
    BY <1>4, <1>6 DEF InodeInv, Freeing
  <1>32. LinkCounts'
    <2>1. \A j : LinksPending(j)' = LinksPending(j)
      BY <1>4, <1>6, <1>12 DEF LinksPending, At, Linking
    <2>2. {n \in Names : dir[n] = i} = {} /\ LinksPending(i) = {}
      BY <1>9, <1>10 DEF LinksPending, At, Pointing, Leaving
    <2>3. disk'[i].nlink = Cardinality({n \in Names : dir[n] = i}) + Cardinality(LinksPending(i))
      BY <1>3, <1>7, <2>2, FS_EmptySet
    <2>4. \A j \in Inums : disk'[j].type # 0 =>
            disk'[j].nlink = Cardinality({n \in Names : dir[n] = j}) + Cardinality(LinksPending(j))
      BY <1>7, <2>3 DEF InodeInv, LinkCounts
    <2> QED BY <1>4, <2>1, <2>4 DEF LinkCounts
  <1> QED
    BY <1>21, <1>22, <1>23, <1>24, <1>25, <1>26, <1>27, <1>28, <1>29, <1>30, <1>31, <1>32
    DEF InodeInv

(* What iget does: entry e gets a reference, and inode i if it had none. *)
Got(p, i, e) ==
    /\ ref' = [ref EXCEPT ![e] = @ + 1]
    /\ inum' = [inum EXCEPT ![e] = i]
    /\ valid' = [valid EXCEPT ![e] = @ /\ ref[e] > 0]
    /\ ip' = [ip EXCEPT ![p] = e]
    /\ IF ref[e] > 0 THEN inum[e] = i ELSE \A f \in Slots : ref[f] > 0 => inum[f] # i

(* iget finds the entry of the inode or takes a free one. *)
LEMMA IgetGets ==
    ASSUME InodeInv, NEW p \in Procs, NEW i, iget(p, i)
    PROVE  \E e \in Slots : Got(p, i, e)
  <1>1. /\ inum \in [Slots -> Inums \union {0}] /\ ref \in [Slots -> Nat]
        /\ valid \in [Slots -> BOOLEAN]
    BY DEF InodeInv, TypeOK
  <1>2. ASSUME NEW e \in Cached(i), ref' = [ref EXCEPT ![e] = @ + 1],
               ip' = [ip EXCEPT ![p] = e], UNCHANGED <<inum, valid>>
        PROVE  \E f \in Slots : Got(p, i, f)
    <2>1. e \in Slots /\ ref[e] > 0 /\ inum[e] = i
      BY DEF Cached
    <2>2. inum' = [inum EXCEPT ![e] = i] /\ valid' = [valid EXCEPT ![e] = @ /\ ref[e] > 0]
      BY <1>1, <1>2, <2>1
    <2>3. Got(p, i, e)
      BY <1>2, <2>1, <2>2 DEF Got
    <2> QED BY <2>1, <2>3
  <1>3. ASSUME Cached(i) = {}, Empty # {},
               LET e == Min(Empty)
               IN  /\ inum' = [inum EXCEPT ![e] = i]
                   /\ ref' = [ref EXCEPT ![e] = 1]
                   /\ valid' = [valid EXCEPT ![e] = FALSE]
                   /\ ip' = [ip EXCEPT ![p] = e]
        PROVE  \E f \in Slots : Got(p, i, f)
    <2>1. Min(Empty) \in Empty
      <3>1. Empty \subseteq Nat
        BY InodeAssumption DEF Empty, Slots
      <3> QED BY <3>1, <1>3, MinIsIn
    <2>2. PICK e \in Slots : e = Min(Empty) /\ ref[e] = 0
      BY <2>1 DEF Empty
    <2>3. /\ inum' = [inum EXCEPT ![e] = i] /\ ref' = [ref EXCEPT ![e] = 1]
          /\ valid' = [valid EXCEPT ![e] = FALSE] /\ ip' = [ip EXCEPT ![p] = e]
      BY <1>3, <2>2, Zenon
    <2>4. ~ (ref[e] > 0) /\ ref[e] + 1 = 1 /\ ((valid[e] /\ ref[e] > 0) <=> FALSE)
      BY <2>2
    <2>5. ref' = [ref EXCEPT ![e] = @ + 1]
      BY <2>3, <2>4
    <2>6. valid' = [valid EXCEPT ![e] = @ /\ ref[e] > 0]
      BY <1>1, <2>3, <2>4
    <2>7. \A f \in Slots : ref[f] > 0 => inum[f] # i
      BY <1>3 DEF Cached
    <2>8. Got(p, i, e)
      BY <2>3, <2>4, <2>5, <2>6, <2>7, Zenon DEF Got
    <2> QED BY <2>8
  <1> QED BY <1>2, <1>3 DEF iget

(* The steps that call iget. *)
Gets(p, from, to, i) ==
    /\ Goto(p, from, to)
    /\ iget(p, i)
    /\ UNCHANGED <<disk, dir, data, lock, local>>

(* Such a step keeps the invariant: nobody gets an inode that is being     *)
(* freed, since it has no name, or one that another create has allocated.  *)
LEMMA GetsKeep ==
    ASSUME InodeInv, NEW p \in Procs, NEW from, NEW to, NEW i \in Inums, Gets(p, from, to, i),
           disk[i].type # 0,
           \/ /\ from \in {"namei", "parent"} /\ to = "ilock" /\ dirlock = NoProc
              /\ dir[Name(p)] = i
              /\ dirlock' = IF Is(p, "unlink") THEN p ELSE NoProc
           \/ /\ from = "iget" /\ to = "ilock_new" /\ dirlock' = dirlock
              /\ i = call[p][4]
    PROVE  InodeInv'
  <1>1. PICK e \in Slots : Got(p, i, e)
    BY IgetGets DEF Gets
  <1>2. /\ place[p] = from /\ place' = [place EXCEPT ![p] = to]
        /\ disk' = disk /\ dir' = dir /\ data' = data /\ lock' = lock /\ call' = call /\ fd' = fd
    BY DEF Gets, Goto, local
  <1>3. /\ place \in [Procs -> Places] /\ ref \in [Slots -> Nat] /\ ip \in [Procs -> Slots \union {0}]
        /\ inum \in [Slots -> Inums \union {0}] /\ valid \in [Slots -> BOOLEAN]
        /\ fd \in [Procs -> Slots \union {0}]
    BY DEF InodeInv, TypeOK
  <1>4. /\ to \in Places /\ from \notin Pointing \union Linking \union Locking
        /\ to \in Pointing \ Leaving /\ to \notin Linking \union Locking
    BY DEF Places, Pointing, Linking, Locking, Leaving
  <1>5. place'[p] = to /\ \A q \in Procs : q # p => place'[q] = place[q]
    BY <1>2, <1>3
  <1>6. ip[p] = 0 /\ ip'[p] = e /\ \A q \in Procs : q # p => ip'[q] = ip[q]
    BY <1>1, <1>2, <1>3, <1>4 DEF Got, InodeInv, Pointers
  <1>7. /\ ref'[e] = ref[e] + 1 /\ inum'[e] = i
        /\ \A f \in Slots : f # e => ref'[f] = ref[f] /\ inum'[f] = inum[f]
    BY <1>1, <1>3 DEF Got
  <1>8. /\ valid'[e] => valid[e] /\ ref[e] > 0
        /\ \A f \in Slots : f # e => (valid'[f] <=> valid[f])
    BY <1>1, <1>3 DEF Got
  <1>9. \A f \in Slots : ref[f] > 0 => inum'[f] = inum[f] /\ (valid'[f] <=> valid[f])
    BY <1>1, <1>3, <1>7 DEF Got
  <1>10. \A q \in Procs :
           /\ ip[q] # 0 => ip[q] \in Slots /\ ref[ip[q]] > 0 /\ inum'[ip[q]] = inum[ip[q]]
           /\ fd[q] # 0 => fd[q] \in Slots /\ ref[fd[q]] > 0 /\ inum'[fd[q]] = inum[fd[q]]
    BY <1>9, Referenced
  <1>11. \A q \in Procs : q # p /\ place[q] \in Pointing =>
           ip[q] # 0 /\ ip'[q] = ip[q] /\ inum'[ip'[q]] = inum[ip[q]]
    BY <1>6, <1>10 DEF InodeInv, Pointers
  <1>12. from # "iget" => \A q \in Procs : q # p => /\ place[q] \notin Creating
                                  /\ ~ (place[q] \in {"ilock", "locked"} /\ Is(q, "unlink"))
    BY InodeAssumption DEF InodeInv, DirHeld
  <1>21. TypeOK'
    <2>1. ref' \in [Slots -> Nat] /\ inum' \in [Slots -> Inums \union {0}]
      BY <1>1, <1>3 DEF Got
    <2>2. valid' \in [Slots -> BOOLEAN]
      BY <1>1, <1>3 DEF Got
    <2>3. ip' \in [Procs -> Slots \union {0}] /\ place' \in [Procs -> Places]
      BY <1>1, <1>2, <1>3, <1>4 DEF Got
    <2>4. dirlock' \in Procs \union {NoProc}
      BY DEF InodeInv, TypeOK
    <2> QED BY <1>2, <2>1, <2>2, <2>3, <2>4 DEF InodeInv, TypeOK
  <1>22. Calls'
    BY <1>2, <1>5 DEF InodeInv, Calls, CallOK, Name, Is, Arg, Creating, Places
  <1>23. Pointers'
    BY <1>4, <1>5, <1>6, InodeAssumption DEF InodeInv, Pointers, Slots
  <1>24. Exact'
    <2> SUFFICES ASSUME NEW f \in Slots
                 PROVE  ref'[f] = Cardinality(IpTo(f)') + Cardinality(FdTo(f)')
      BY DEF Exact
    <2>1. \A q : q # p => (q \in IpTo(f) <=> q \in IpTo(f)')
      BY <1>6 DEF IpTo
    <2>2. p \notin IpTo(f) /\ (p \in IpTo(f)' <=> f = e)
      BY <1>6 DEF IpTo, Slots
    <2>3. /\ Cardinality(IpTo(f)) \in Nat /\ Cardinality(IpTo(f)') \in Nat
          /\ (p \in IpTo(f) <=> p \in IpTo(f)') => Cardinality(IpTo(f)') = Cardinality(IpTo(f))
          /\ p \notin IpTo(f) /\ p \in IpTo(f)' => Cardinality(IpTo(f)') = Cardinality(IpTo(f)) + 1
      BY <2>1, Finite, CountStep
    <2>4. FdTo(f)' = FdTo(f)
      BY <1>2 DEF FdTo
    <2>5. ref[f] = Cardinality(IpTo(f)) + Cardinality(FdTo(f)) /\ Cardinality(FdTo(f)) \in Nat
      BY Finite DEF InodeInv, Exact
    <2> QED BY <1>7, <2>2, <2>3, <2>4, <2>5
  <1>25. Table'
    <2>1. \A f \in Slots : ref'[f] > 0 => inum'[f] \in Inums
      BY <1>7 DEF InodeInv, Table
    <2>2. \A f \in Slots : f # e /\ ref[f] > 0 => inum[f] # i
      BY <1>1, <1>3 DEF Got, InodeInv, Table
    <2>3. \A f, g \in Slots : ref'[f] > 0 /\ ref'[g] > 0 /\ inum'[f] = inum'[g] => f = g
      BY <1>7, <2>2 DEF InodeInv, Table
    <2> QED BY <2>1, <2>3 DEF Table
  <1>26. Locks'
    <2>1. \A q \in Procs : q # p =>
            (place'[q] \in Locking <=> place[q] \in Locking) /\ ip'[q] = ip[q]
      BY <1>5, <1>6
    <2>2. place'[p] \notin Locking /\ place[p] \notin Locking
      BY <1>2, <1>4, <1>5
    <2>3. \A f \in Slots, q \in Procs : lock'[f] = q <=> ip'[q] = f /\ place'[q] \in Locking
      BY <1>2, <2>1, <2>2 DEF InodeInv, Locks
    <2>4. ASSUME NEW q \in Procs, place'[q] \in Locking PROVE valid'[ip'[q]]
      <3>1. q # p /\ place[q] \in Locking /\ ip'[q] = ip[q]
        BY <2>1, <2>2, <2>4
      <3>2. valid[ip[q]] /\ ip[q] # 0
        BY <3>1 DEF InodeInv, Locks, Pointers, Locking, Pointing
      <3> QED BY <3>1, <3>2, <1>9, <1>10
    <2> QED BY <2>3, <2>4 DEF Locks
  <1>27. Coherent'
    <2> SUFFICES ASSUME NEW f \in Slots, ref'[f] > 0, valid'[f],
                        \A q \in Procs : place'[q] = "invalidate" => ip'[q] # f
                 PROVE  data[f] = disk[inum'[f]] /\ data[f].type # 0
      BY <1>2 DEF Coherent
    <2>1. ref[f] > 0 /\ valid[f] /\ inum'[f] = inum[f]
      BY <1>7, <1>8, <1>9
    <2>2. \A q \in Procs : place[q] = "invalidate" => ip[q] # f
      BY <1>2, <1>4, <1>5, <1>6 DEF Pointing
    <2> QED BY <2>1, <2>2 DEF InodeInv, Coherent
  <1>28. Alive'
    <2>1. \A q \in Procs : place'[q] \in Pointing \ Leaving => disk'[inum'[ip'[q]]].type # 0
      BY <1>2, <1>5, <1>6, <1>7, <1>11 DEF InodeInv, Alive
    <2>2. \A q \in Procs : fd'[q] # 0 => disk'[inum'[fd'[q]]].type # 0
      BY <1>2, <1>10 DEF InodeInv, Alive
    <2> QED BY <1>2, <2>1, <2>2 DEF InodeInv, Alive
  <1>29. Fresh'
    <2>1. CASE from = "iget"
      <3>1. place[p] \in Creating /\ place'[p] \in Creating /\ place'[p] # "iget"
        BY <2>1, <1>2, <1>5 DEF Creating
      <3>2. Unused(p, i) /\ call'[p][4] = i /\ inum'[ip'[p]] = i
        BY <2>1, <3>1, <1>2, <1>6, <1>7 DEF InodeInv, Fresh
      <3>3. Unused(p, i)'
        BY <3>2, <1>2, <1>5, <1>10, <1>11 DEF Unused
      <3>4. \A q \in Procs : q # p => place'[q] \notin Creating
        BY <3>1, <1>5, InodeAssumption DEF InodeInv, DirHeld
      <3> QED BY <3>1, <3>2, <3>3, <3>4 DEF Fresh
    <2>2. CASE from # "iget"
      <3>1. \A q \in Procs : place'[q] \notin Creating
        BY <2>2, <1>5, <1>12 DEF Creating
      <3> QED BY <3>1 DEF Fresh
    <2> QED BY <2>1, <2>2
  <1>30. DirHeld'
    <2>1. CASE from = "iget"
      <3>1. place[p] \in Creating /\ Is(p, "create")
        BY <2>1, <1>2 DEF Creating, InodeInv, Calls, CallOK
      <3>2. dirlock' = dirlock /\ to = "ilock_new" /\ dirlock = p /\ dir[Name(p)] = 0
        BY <2>1, <3>1 DEF InodeInv, DirHeld
      <3>3. \A q \in Procs : q # p => /\ place[q] \notin Creating
                                      /\ ~ (place[q] \in {"ilock", "locked"} /\ Is(q, "unlink"))
        BY <3>2 DEF InodeInv, DirHeld
      <3> QED BY <3>1, <3>2, <3>3, <1>2, <1>5 DEF DirHeld, Name, Is
    <2>2. CASE from # "iget"
      <3>1. to = "ilock" /\ dir[Name(p)] = i /\ (Is(p, "unlink") => dirlock' = p)
        BY <2>2
      <3>2. inum'[ip'[p]] = i
        BY <1>6, <1>7
      <3> QED BY <3>1, <3>2, <2>2, <1>2, <1>5, <1>12 DEF DirHeld, Name, Is, Creating
    <2> QED BY <2>1, <2>2
  <1>31. Freeing'
    <2> SUFFICES ASSUME NEW q \in Procs, place'[q] = "free"
                 PROVE  ref'[ip'[q]] = 1 /\ data'[ip'[q]].nlink = 0
      BY DEF Freeing
    <2>1. q # p /\ place[q] = "free"
      BY <1>5, <1>4 DEF Locking
    <2>2. ip'[q] = ip[q] /\ ip[q] \in Slots /\ ref[ip[q]] = 1 /\ data[ip[q]].nlink = 0
            /\ inum[ip[q]] \in Inums /\ data[ip[q]] = disk[inum[ip[q]]]
      BY <2>1, <1>6, Held DEF InodeInv, Freeing, Locking
    <2>3. ip[q] # e
      <3> SUFFICES ASSUME ip[q] = e PROVE FALSE
        OBVIOUS
      <3>1. inum[e] = i /\ ref[e] = 1
        BY <1>1, <2>2 DEF Got
      <3>2. \A n \in Names : dir[n] # i
        BY <3>1, <2>2, LinkBounds
      <3>3. from = "iget" => inum[ip[q]] # i
        BY <2>1, <1>2 DEF InodeInv, Fresh, Unused, Creating, Pointing, Leaving
      <3>4. from # "iget" => Name(p) \in Names /\ dir[Name(p)] = i
        BY <1>2 DEF InodeInv, Calls, CallOK, Places
      <3> QED BY <3>1, <3>2, <3>3, <3>4
    <2> QED BY <2>2, <2>3, <1>2, <1>7
  <1>32. LinkCounts'
    <2>1. \A q \in Procs : place[q] \in Linking => place[q] \in Pointing
      BY DEF Linking, Pointing
    <2>2. \A q \in Procs : place'[q] \in Linking <=> place[q] \in Linking
      BY <1>2, <1>4, <1>5
    <2>3. \A q \in Procs : place[q] \in Linking => inum'[ip'[q]] = inum[ip[q]]
      BY <1>2, <1>4, <1>11, <2>1
    <2>4. \A j : LinksPending(j)' = LinksPending(j)
      BY <2>2, <2>3 DEF LinksPending, At, Linking
    <2> QED BY <1>2, <2>4 DEF InodeInv, LinkCounts
  <1> QED
    BY <1>21, <1>22, <1>23, <1>24, <1>25, <1>26, <1>27, <1>28, <1>29, <1>30, <1>31, <1>32
    DEF InodeInv

(* A name that is found is the name of an allocated inode. *)
LEMMA FoundKeeps ==
    ASSUME InodeInv, NEW p \in Procs, NEW from \in {"namei", "parent"},
           Goto(p, from, "ilock"), dirlock = NoProc, dir[Name(p)] # 0, iget(p, dir[Name(p)]),
           dirlock' = (IF Is(p, "unlink") THEN p ELSE NoProc),
           UNCHANGED <<disk, dir, data, lock, local>>
    PROVE  InodeInv'
  <1>1. Name(p) \in Names
    BY DEF Goto, InodeInv, Calls, CallOK, Places
  <1>2. PICK i \in Inums : i = dir[Name(p)]
    BY <1>1 DEF InodeInv, TypeOK
  <1>3. disk[i].type # 0
    BY <1>1, <1>2 DEF InodeInv, Alive
  <1>4. Gets(p, from, "ilock", i)
    BY <1>2 DEF Gets
  <1> QED BY <1>2, <1>3, <1>4, GetsKeep

(* namei, for open, chmod, getperm and link. *)
LEMMA NameiKeeps ==
    ASSUME InodeInv, NEW p \in Procs, Namei(p)
    PROVE  InodeInv'
  <1>1. ~ Is(p, "unlink")
    BY DEF Namei, Goto, InodeInv, Calls, CallOK
  <1>2. dirlock' = (IF Is(p, "unlink") THEN p ELSE NoProc)
    BY <1>1 DEF Namei
  <1> QED BY <1>2, FoundKeeps DEF Namei

(* create of a name that exists. *)
LEMMA CreateFoundKeeps ==
    ASSUME InodeInv, NEW p \in Procs, CreateFound(p)
    PROVE  InodeInv'
  <1>1. ~ Is(p, "unlink")
    BY DEF CreateFound, Is
  <1>2. dirlock' = (IF Is(p, "unlink") THEN p ELSE NoProc)
    BY <1>1 DEF CreateFound
  <1> QED BY <1>2, FoundKeeps DEF CreateFound

(* unlink, which keeps the directory locked. *)
LEMMA UnlinkFindKeeps ==
    ASSUME InodeInv, NEW p \in Procs, UnlinkFind(p)
    PROVE  InodeInv'
  <1>1. dirlock' = (IF Is(p, "unlink") THEN p ELSE NoProc)
    BY DEF UnlinkFind
  <1> QED BY <1>1, FoundKeeps DEF UnlinkFind

(* create gets the inode that it allocated. *)
LEMMA CreateGetKeeps ==
    ASSUME InodeInv, NEW p \in Procs, CreateGet(p)
    PROVE  InodeInv'
  <1>1. place[p] = "iget" /\ place[p] \in Creating
    BY DEF CreateGet, Goto, Creating
  <1>2. PICK i \in Inums : i = call[p][4]
    BY <1>1 DEF InodeInv, Calls, CallOK
  <1>3. disk[i].type # 0
    BY <1>1, <1>2 DEF InodeInv, Fresh, Unused
  <1>4. Gets(p, "iget", "ilock_new", i) /\ dirlock' = dirlock
    BY <1>2 DEF CreateGet, Gets
  <1> QED BY <1>2, <1>3, <1>4, GetsKeep

(* A reference is given up, with the entry if it was the last one. *)
LEMMA IputReturnKeeps ==
    ASSUME InodeInv, NEW p \in Procs, NEW from \in {"iput", "drop"}, IputReturn(p, from)
    PROVE  InodeInv'
  <1> DEFINE e == ip[p]
  <1>1. /\ place[p] = from /\ place' = [place EXCEPT ![p] = "idle"]
        /\ call' = [call EXCEPT ![p] = Idle] /\ ip' = [ip EXCEPT ![p] = 0]
        /\ ref' = [ref EXCEPT ![e] = @ - 1]
        /\ dirlock' = (IF dirlock = p THEN NoProc ELSE dirlock)
        /\ disk' = disk /\ dir' = dir /\ lock' = lock /\ fd' = fd
    BY DEF IputReturn, SysReturn, Goto
  <1>2. IF ref[e] = 1
        THEN /\ inum' = [inum EXCEPT ![e] = 0]
             /\ valid' = [valid EXCEPT ![e] = FALSE]
             /\ data' = [data EXCEPT ![e] = NoInode]
        ELSE inum' = inum /\ valid' = valid /\ data' = data
    BY DEF IputReturn
  <1>3. /\ place \in [Procs -> Places] /\ ref \in [Slots -> Nat] /\ ip \in [Procs -> Slots \union {0}]
        /\ inum \in [Slots -> Inums \union {0}] /\ valid \in [Slots -> BOOLEAN]
        /\ fd \in [Procs -> Slots \union {0}] /\ data \in [Slots -> Inodes] /\ "idle" \in Places
    BY DEF InodeInv, TypeOK, Places
  <1>4. /\ from \in Pointing /\ from \notin Linking \union Locking \union Creating
        /\ "idle" \notin Pointing \union Linking \union Locking \union Creating
    BY DEF Pointing, Linking, Locking, Creating
  <1>5. e \in Slots /\ ref[e] > 0
    BY <1>1, <1>4, Referenced DEF InodeInv, Pointers
  <1>6. /\ place'[p] = "idle" /\ call'[p] = Idle
        /\ \A q \in Procs : q # p => place'[q] = place[q] /\ call'[q] = call[q]
    BY <1>1, <1>3 DEF InodeInv, Calls
  <1>7. ip'[p] = 0 /\ \A q \in Procs : q # p => ip'[q] = ip[q]
    BY <1>1, <1>3
  <1>8. ref'[e] = ref[e] - 1 /\ \A f \in Slots : f # e => ref'[f] = ref[f]
    BY <1>1, <1>3, <1>5
  <1>9. \A f \in Slots : f # e \/ ref[e] # 1 =>
          inum'[f] = inum[f] /\ (valid'[f] <=> valid[f]) /\ data'[f] = data[f]
    BY <1>2, <1>3, <1>5
  <1>10. \A q \in Procs : /\ q # p /\ ip[q] # 0 => ip[q] \in Slots /\ (ip[q] # e \/ ref[e] # 1)
                          /\ fd[q] # 0 => fd[q] \in Slots /\ (fd[q] # e \/ ref[e] # 1)
    BY <1>5, Referenced DEF Slots
  <1>11. \A q \in Procs : q # p /\ place[q] \in Pointing =>
           ip'[q] = ip[q] /\ inum'[ip'[q]] = inum[ip[q]] /\ (valid'[ip'[q]] <=> valid[ip[q]])
           /\ data'[ip'[q]] = data[ip[q]]
    BY <1>7, <1>9, <1>10 DEF InodeInv, Pointers
  <1>12. \A q \in Procs : fd[q] # 0 => inum'[fd'[q]] = inum[fd[q]]
    BY <1>1, <1>9, <1>10
  <1> HIDE DEF e
  <1>21. TypeOK'
    <2>1. ref' \in [Slots -> Nat] 
      BY <1>1, <1>3, <1>5
    <2>2. inum' \in [Slots -> Inums \union {0}]
      BY <1>2, <1>3
    <2>3. valid' \in [Slots -> BOOLEAN]
      BY <1>2, <1>3
    <2>4. data' \in [Slots -> Inodes]
      <3>1. NoInode \in Inodes
        BY DEF NoInode, Inodes
      <3> QED BY <1>2, <1>3, <3>1
    <2>5. ip' \in [Procs -> Slots \union {0}] /\ place' \in [Procs -> Places]
      BY <1>1, <1>3
    <2>6. dirlock' \in Procs \union {NoProc}
      BY <1>1 DEF InodeInv, TypeOK
    <2> QED BY <1>1, <2>1, <2>2, <2>3, <2>4, <2>5, <2>6 DEF InodeInv, TypeOK
  <1>22. Calls'
    <2>1. call' = [q \in Procs |-> call'[q]]
      BY <1>1 DEF InodeInv, Calls
    <2>2. \A q \in Procs : q # p => CallOK(q)'
      BY <1>6 DEF InodeInv, Calls, CallOK, Name, Is, Arg
    <2>3. Idle[1] = "none"
      BY DEF Idle
    <2>4. CallOK(p)'
      BY <1>4, <1>6, <2>3 DEF CallOK, Is
    <2> QED BY <2>1, <2>2, <2>4 DEF Calls
  <1>23. Pointers'
    BY <1>4, <1>6, <1>7 DEF InodeInv, Pointers
  <1>24. Exact'
    <2> SUFFICES ASSUME NEW f \in Slots
                 PROVE  ref'[f] = Cardinality(IpTo(f)') + Cardinality(FdTo(f)')
      BY DEF Exact
    <2>1. \A q : q # p => (q \in IpTo(f) <=> q \in IpTo(f)')
      BY <1>7 DEF IpTo
    <2>2. p \notin IpTo(f)' /\ (p \in IpTo(f) <=> f = e)
      BY <1>7 DEF IpTo, Slots, e
    <2>3. /\ Cardinality(IpTo(f)) \in Nat /\ Cardinality(IpTo(f)') \in Nat
          /\ (p \in IpTo(f) <=> p \in IpTo(f)') => Cardinality(IpTo(f)') = Cardinality(IpTo(f))
          /\ p \in IpTo(f) /\ p \notin IpTo(f)' => Cardinality(IpTo(f)) = Cardinality(IpTo(f)') + 1
      BY <2>1, Finite, CountStep
    <2>4. FdTo(f)' = FdTo(f)
      BY <1>1 DEF FdTo
    <2>5. ref[f] = Cardinality(IpTo(f)) + Cardinality(FdTo(f)) /\ Cardinality(FdTo(f)) \in Nat
      BY Finite DEF InodeInv, Exact
    <2> QED BY <1>8, <2>2, <2>3, <2>4, <2>5
  <1>25. Table'
    <2>1. \A f \in Slots : ref'[f] > 0 => ref[f] > 0 /\ inum'[f] = inum[f]
      BY <1>3, <1>5, <1>8, <1>9
    <2> QED BY <2>1 DEF InodeInv, Table
  <1>26. Locks'
    <2>1. \A q \in Procs : /\ place'[q] \in Locking <=> place[q] \in Locking
                           /\ place[q] \in Locking => q # p /\ ip'[q] = ip[q]
      BY <1>1, <1>4, <1>6, <1>7
    <2>2. \A f \in Slots, q \in Procs : lock'[f] = q <=> ip'[q] = f /\ place'[q] \in Locking
      BY <1>1, <2>1 DEF InodeInv, Locks
    <2>3. \A q \in Procs : place'[q] \in Locking => valid'[ip'[q]]
      BY <2>1, <1>11 DEF InodeInv, Locks, Locking, Pointing
    <2> QED BY <2>2, <2>3 DEF Locks
  <1>27. Coherent'
    <2> SUFFICES ASSUME NEW f \in Slots, ref'[f] > 0, valid'[f],
                        \A q \in Procs : place'[q] = "invalidate" => ip'[q] # f
                 PROVE  data'[f] = disk[inum'[f]] /\ data'[f].type # 0
      BY <1>1 DEF Coherent
    <2>1. ref[f] > 0 /\ inum'[f] = inum[f] /\ (valid'[f] <=> valid[f]) /\ data'[f] = data[f]
      BY <1>3, <1>5, <1>8, <1>9
    <2>2. \A q \in Procs : place[q] = "invalidate" => ip[q] # f
      BY <1>1, <1>6, <1>7
    <2> QED BY <2>1, <2>2 DEF InodeInv, Coherent
  <1>28. Alive'
    BY <1>1, <1>4, <1>6, <1>11, <1>12 DEF InodeInv, Alive
  <1>29. Fresh'
    <2> SUFFICES ASSUME NEW q \in Procs, place'[q] \in Creating, NEW i, i = call'[q][4]
                 PROVE  /\ Unused(q, i)'
                        /\ place'[q] # "iget" => inum'[ip'[q]] = i
      BY Zenon DEF Fresh
    <2>1. q # p /\ place[q] = place'[q] /\ i = call[q][4]
      BY <1>4, <1>6
    <2>2. Unused(q, i) /\ (place[q] # "iget" => inum[ip[q]] = i)
      BY <2>1 DEF InodeInv, Fresh
    <2>3. Unused(q, i)'
      BY <2>1, <2>2, <1>1, <1>4, <1>6, <1>11, <1>12 DEF Unused
    <2>4. place[q] # "iget" => place[q] \in Pointing
      BY <2>1 DEF Creating, Pointing
    <2> QED BY <2>1, <2>2, <2>3, <2>4, <1>11
  <1>30. DirHeld'
    <2>1. \A q \in Procs : place[q] \in {"ilock", "locked"} => place[q] \in Pointing
      BY DEF Pointing
    <2> QED BY <1>1, <1>4, <1>6, <1>11, <2>1 DEF InodeInv, DirHeld, Name, Is, Pointing
  <1>31. Freeing'
    <2> SUFFICES ASSUME NEW q \in Procs, place'[q] = "free"
                 PROVE  ref'[ip'[q]] = 1 /\ data'[ip'[q]].nlink = 0
      BY DEF Freeing
    <2>1. q # p /\ place[q] = "free" /\ place[q] \in Pointing
      BY <1>6 DEF Pointing
    <2>2. ip[q] \in Slots /\ ref[ip[q]] = 1 /\ data[ip[q]].nlink = 0
      BY <2>1, Referenced DEF InodeInv, Freeing, Pointers
    <2>3. ip[q] # e
      BY <2>1, <2>2, Referenced DEF e, Slots
    <2> QED BY <2>1, <2>2, <2>3, <1>8, <1>11
  <1>32. LinkCounts'
    <2>1. \A q \in Procs : place'[q] \in Linking <=> place[q] \in Linking
      BY <1>1, <1>4, <1>6
    <2>2. \A q \in Procs : place[q] \in Linking => inum'[ip'[q]] = inum[ip[q]]
      BY <1>1, <1>4, <1>11 DEF Linking, Pointing
    <2>3. \A j : LinksPending(j)' = LinksPending(j)
      BY <2>1, <2>2 DEF LinksPending, At, Linking
    <2> QED BY <1>1, <2>3 DEF InodeInv, LinkCounts
  <1> QED
    BY <1>21, <1>22, <1>23, <1>24, <1>25, <1>26, <1>27, <1>28, <1>29, <1>30, <1>31, <1>32
    DEF InodeInv

(* The reference of the call becomes that of the open file. *)
LEMMA OpenKeeps ==
    ASSUME InodeInv, NEW p \in Procs, Open(p)
    PROVE  InodeInv'
  <1> DEFINE e == ip[p]
  <1>1. /\ place[p] = "locked" /\ place' = [place EXCEPT ![p] = "idle"]
        /\ call' = [call EXCEPT ![p] = Idle] /\ ip' = [ip EXCEPT ![p] = 0]
        /\ fd[p] = 0 /\ fd' = [fd EXCEPT ![p] = e]
        /\ lock' = [lock EXCEPT ![e] = NoProc]
        /\ disk' = disk /\ dir' = dir /\ dirlock' = dirlock /\ inum' = inum /\ ref' = ref
        /\ valid' = valid /\ data' = data
    BY DEF Open, SysReturn, Goto, iunlock, entries
  <1>2. /\ place \in [Procs -> Places] /\ ip \in [Procs -> Slots \union {0}] /\ "idle" \in Places
        /\ fd \in [Procs -> Slots \union {0}] /\ lock \in [Slots -> Procs \union {NoProc}]
    BY DEF InodeInv, TypeOK, Places
  <1>3. /\ "locked" \in Pointing \ Leaving /\ "locked" \in Locking \ {"invalidate"}
        /\ "locked" \notin Linking \union Creating
        /\ "idle" \notin Pointing \union Linking \union Locking \union Creating
    BY DEF Pointing, Leaving, Linking, Locking, Creating
  <1>4. e \in Slots /\ lock[e] = p /\ disk[inum[e]].type # 0
    BY <1>1, <1>3, Held
  <1>5. /\ place'[p] = "idle" /\ call'[p] = Idle
        /\ \A q \in Procs : q # p => place'[q] = place[q] /\ call'[q] = call[q]
    BY <1>1, <1>2 DEF InodeInv, Calls
  <1>6. /\ ip'[p] = 0 /\ fd'[p] = e
        /\ \A q \in Procs : q # p => ip'[q] = ip[q] /\ fd'[q] = fd[q]
    BY <1>1, <1>2
  <1>7. lock'[e] = NoProc /\ \A f \in Slots : f # e => lock'[f] = lock[f]
    BY <1>1, <1>2, <1>4
  <1> HIDE DEF e
  <1>11. TypeOK'
    BY <1>1, <1>2, <1>4 DEF InodeInv, TypeOK
  <1>12. Calls'
    <2>1. call' = [q \in Procs |-> call'[q]]
      BY <1>1 DEF InodeInv, Calls
    <2>2. \A q \in Procs : q # p => CallOK(q)'
      BY <1>5 DEF InodeInv, Calls, CallOK, Name, Is, Arg
    <2>3. Idle[1] = "none"
      BY DEF Idle
    <2>4. CallOK(p)'
      BY <1>3, <1>5, <2>3 DEF CallOK, Is
    <2> QED BY <2>1, <2>2, <2>4 DEF Calls
  <1>13. Pointers'
    BY <1>3, <1>5, <1>6 DEF InodeInv, Pointers
  <1>14. Exact'
    <2> SUFFICES ASSUME NEW f \in Slots
                 PROVE  ref[f] = Cardinality(IpTo(f)') + Cardinality(FdTo(f)')
      BY <1>1 DEF Exact
    <2>1. \A q : q # p => (q \in IpTo(f) <=> q \in IpTo(f)')
      BY <1>6 DEF IpTo
    <2>2. p \notin IpTo(f)' /\ (p \in IpTo(f) <=> f = e)
      BY <1>6 DEF IpTo, Slots, e
    <2>3. /\ Cardinality(IpTo(f)) \in Nat /\ Cardinality(IpTo(f)') \in Nat
          /\ (p \in IpTo(f) <=> p \in IpTo(f)') => Cardinality(IpTo(f)') = Cardinality(IpTo(f))
          /\ p \in IpTo(f) /\ p \notin IpTo(f)' => Cardinality(IpTo(f)) = Cardinality(IpTo(f)') + 1
      BY <2>1, Finite, CountStep
    <2>4. \A q : q # p => (q \in FdTo(f) <=> q \in FdTo(f)')
      BY <1>6 DEF FdTo
    <2>5. p \notin FdTo(f) /\ (p \in FdTo(f)' <=> f = e)
      BY <1>1, <1>6 DEF FdTo, Slots
    <2>6. /\ Cardinality(FdTo(f)) \in Nat /\ Cardinality(FdTo(f)') \in Nat
          /\ (p \in FdTo(f) <=> p \in FdTo(f)') => Cardinality(FdTo(f)') = Cardinality(FdTo(f))
          /\ p \notin FdTo(f) /\ p \in FdTo(f)' => Cardinality(FdTo(f)') = Cardinality(FdTo(f)) + 1
      BY <2>4, Finite, CountStep
    <2>7. ref[f] = Cardinality(IpTo(f)) + Cardinality(FdTo(f))
      BY DEF InodeInv, Exact
    <2> QED BY <2>2, <2>3, <2>5, <2>6, <2>7
  <1>15. Table'
    BY <1>1 DEF InodeInv, Table
  <1>16. Locks'
    <2>1. \A q \in Procs : q # p =>
            (place'[q] \in Locking <=> place[q] \in Locking) /\ ip'[q] = ip[q]
      BY <1>5, <1>6
    <2>2. place'[p] \notin Locking
      BY <1>3, <1>5
    <2>3. \A q \in Procs : q # p /\ place[q] \in Locking => ip[q] # e
      BY <1>4 DEF InodeInv, Locks
    <2>4. \A f \in Slots : lock'[f] # p
      BY <1>4, <1>7, InodeAssumption DEF InodeInv, Locks, e
    <2>5. \A f \in Slots, q \in Procs : lock'[f] = q <=> ip'[q] = f /\ place'[q] \in Locking
      BY <1>7, <2>1, <2>2, <2>3, <2>4, InodeAssumption DEF InodeInv, Locks
    <2>6. \A q \in Procs : place'[q] \in Locking => valid'[ip'[q]]
      BY <1>1, <2>1, <2>2 DEF InodeInv, Locks
    <2> QED BY <2>5, <2>6 DEF Locks
  <1>17. Coherent'
    <2>1. \A q \in Procs : place[q] = "invalidate" =>
            q # p /\ place'[q] = "invalidate" /\ ip'[q] = ip[q]
      BY <1>1, <1>5, <1>6
    <2> QED BY <1>1, <2>1 DEF InodeInv, Coherent
  <1>18. Alive'
    BY <1>1, <1>3, <1>4, <1>5, <1>6 DEF InodeInv, Alive
  <1>19. Fresh'
    <2> SUFFICES ASSUME NEW q \in Procs, place'[q] \in Creating, NEW i, i = call'[q][4]
                 PROVE  /\ Unused(q, i)'
                        /\ place'[q] # "iget" => inum'[ip'[q]] = i
      BY Zenon DEF Fresh
    <2>1. q # p /\ place[q] = place'[q] /\ i = call[q][4] /\ ip'[q] = ip[q]
      BY <1>3, <1>5, <1>6
    <2>2. Unused(q, i) /\ (place[q] # "iget" => inum[ip[q]] = i)
      BY <2>1 DEF InodeInv, Fresh
    <2>3. inum[e] # i
      BY <1>1, <1>3, <2>1, <2>2 DEF Unused, e
    <2>4. Unused(q, i)'
      BY <2>2, <2>3, <1>1, <1>3, <1>5, <1>6 DEF Unused
    <2> QED BY <1>1, <2>1, <2>2, <2>4
  <1>20. DirHeld'
    BY <1>1, <1>3, <1>5, <1>6 DEF InodeInv, DirHeld, Name, Is
  <1>21. Freeing'
    BY <1>1, <1>5, <1>6 DEF InodeInv, Freeing
  <1>22. LinkCounts'
    <2>1. \A q \in Procs : /\ place'[q] \in Linking <=> place[q] \in Linking
                           /\ place[q] \in Linking => ip'[q] = ip[q]
      BY <1>1, <1>3, <1>5, <1>6
    <2>2. \A j : LinksPending(j)' = LinksPending(j)
      BY <1>1, <2>1 DEF LinksPending, At, Linking
    <2> QED BY <1>1, <2>2 DEF InodeInv, LinkCounts
  <1> QED
    BY <1>11, <1>12, <1>13, <1>14, <1>15, <1>16, <1>17, <1>18, <1>19, <1>20, <1>21, <1>22
    DEF InodeInv

(* The reference of the open file becomes that of the call. *)
LEMMA CloseKeeps ==
    ASSUME InodeInv, NEW p \in Procs, Close(p)
    PROVE  InodeInv'
  <1> DEFINE e == fd[p]
  <1>1. /\ place[p] = "idle" /\ place' = [place EXCEPT ![p] = "iput"]
        /\ ip' = [ip EXCEPT ![p] = e]
        /\ e # 0 /\ fd' = [fd EXCEPT ![p] = 0]
        /\ disk' = disk /\ dir' = dir /\ dirlock' = dirlock /\ inum' = inum /\ ref' = ref
        /\ valid' = valid /\ data' = data /\ lock' = lock /\ call' = call
    BY DEF Close, Goto, entries
  <1>2. /\ place \in [Procs -> Places] /\ ip \in [Procs -> Slots \union {0}] /\ "iput" \in Places
        /\ fd \in [Procs -> Slots \union {0}]
    BY DEF InodeInv, TypeOK, Places
  <1>3. /\ "iput" \in Pointing \ Leaving /\ "iput" \notin Linking \union Creating \union Locking
        /\ "idle" \notin Pointing \union Linking \union Locking \union Creating
    BY DEF Pointing, Leaving, Linking, Locking, Creating
  <1>4. e \in Slots /\ ip[p] = 0
    BY <1>1, <1>2, <1>3 DEF InodeInv, Pointers
  <1>5. place'[p] = "iput" /\ \A q \in Procs : q # p => place'[q] = place[q]
    BY <1>1, <1>2
  <1>6. /\ ip'[p] = e /\ fd'[p] = 0
        /\ \A q \in Procs : q # p => ip'[q] = ip[q] /\ fd'[q] = fd[q]
    BY <1>1, <1>2
  <1> HIDE DEF e
  <1>11. TypeOK'
    BY <1>1, <1>2, <1>4 DEF InodeInv, TypeOK
  <1>12. Calls'
    BY <1>1, <1>5 DEF InodeInv, Calls, CallOK, Name, Is, Arg, Creating
  <1>13. Pointers'
    BY <1>1, <1>3, <1>5, <1>6 DEF InodeInv, Pointers
  <1>14. Exact'
    <2> SUFFICES ASSUME NEW f \in Slots
                 PROVE  ref[f] = Cardinality(IpTo(f)') + Cardinality(FdTo(f)')
      BY <1>1 DEF Exact
    <2>1. \A q : q # p => (q \in IpTo(f) <=> q \in IpTo(f)')
      BY <1>6 DEF IpTo
    <2>2. p \notin IpTo(f) /\ (p \in IpTo(f)' <=> f = e)
      BY <1>4, <1>6 DEF IpTo, Slots
    <2>3. /\ Cardinality(IpTo(f)) \in Nat /\ Cardinality(IpTo(f)') \in Nat
          /\ (p \in IpTo(f) <=> p \in IpTo(f)') => Cardinality(IpTo(f)') = Cardinality(IpTo(f))
          /\ p \notin IpTo(f) /\ p \in IpTo(f)' => Cardinality(IpTo(f)') = Cardinality(IpTo(f)) + 1
      BY <2>1, Finite, CountStep
    <2>4. \A q : q # p => (q \in FdTo(f) <=> q \in FdTo(f)')
      BY <1>6 DEF FdTo
    <2>5. p \notin FdTo(f)' /\ (p \in FdTo(f) <=> f = e)
      BY <1>6 DEF FdTo, Slots, e
    <2>6. /\ Cardinality(FdTo(f)) \in Nat /\ Cardinality(FdTo(f)') \in Nat
          /\ (p \in FdTo(f) <=> p \in FdTo(f)') => Cardinality(FdTo(f)') = Cardinality(FdTo(f))
          /\ p \in FdTo(f) /\ p \notin FdTo(f)' => Cardinality(FdTo(f)) = Cardinality(FdTo(f)') + 1
      BY <2>4, Finite, CountStep
    <2>7. ref[f] = Cardinality(IpTo(f)) + Cardinality(FdTo(f))
      BY DEF InodeInv, Exact
    <2> QED BY <2>2, <2>3, <2>5, <2>6, <2>7
  <1>15. Table'
    BY <1>1 DEF InodeInv, Table
  <1>16. Locks'
    <2>1. \A q \in Procs : /\ place'[q] \in Locking <=> place[q] \in Locking
                           /\ place[q] \in Locking => ip'[q] = ip[q]
      BY <1>1, <1>3, <1>5, <1>6
    <2> QED BY <1>1, <2>1 DEF InodeInv, Locks
  <1>17. Coherent'
    <2>1. \A q \in Procs : place[q] = "invalidate" =>
            q # p /\ place'[q] = "invalidate" /\ ip'[q] = ip[q]
      BY <1>1, <1>5, <1>6
    <2> QED BY <1>1, <2>1 DEF InodeInv, Coherent
  <1>18. Alive'
    <2>1. disk[inum[e]].type # 0
      BY <1>1 DEF InodeInv, Alive, e
    <2> QED BY <1>1, <1>5, <1>6, <2>1 DEF InodeInv, Alive
  <1>19. Fresh'
    <2> SUFFICES ASSUME NEW q \in Procs, place'[q] \in Creating, NEW i, i = call'[q][4]
                 PROVE  /\ Unused(q, i)'
                        /\ place'[q] # "iget" => inum'[ip'[q]] = i
      BY Zenon DEF Fresh
    <2>1. q # p /\ place[q] = place'[q] /\ i = call[q][4] /\ ip'[q] = ip[q]
      BY <1>1, <1>3, <1>5, <1>6
    <2>2. Unused(q, i) /\ (place[q] # "iget" => inum[ip[q]] = i)
      BY <2>1 DEF InodeInv, Fresh
    <2>3. inum[e] # i
      BY <1>1, <2>2 DEF Unused, e
    <2>4. Unused(q, i)'
      BY <2>2, <2>3, <1>1, <1>5, <1>6 DEF Unused
    <2> QED BY <1>1, <2>1, <2>2, <2>4
  <1>20. DirHeld'
    BY <1>1, <1>3, <1>5, <1>6 DEF InodeInv, DirHeld, Name, Is
  <1>21. Freeing'
    BY <1>1, <1>5, <1>6 DEF InodeInv, Freeing
  <1>22. LinkCounts'
    <2>1. \A q \in Procs : /\ place'[q] \in Linking <=> place[q] \in Linking
                           /\ place[q] \in Linking => ip'[q] = ip[q]
      BY <1>1, <1>3, <1>5, <1>6
    <2>2. \A j : LinksPending(j)' = LinksPending(j)
      BY <1>1, <2>1 DEF LinksPending, At, Linking
    <2> QED BY <1>1, <2>2 DEF InodeInv, LinkCounts
  <1> QED
    BY <1>11, <1>12, <1>13, <1>14, <1>15, <1>16, <1>17, <1>18, <1>19, <1>20, <1>21, <1>22
    DEF InodeInv

(* The invariant holds initially and every step keeps it. *)
LEMMA InodeInvHolds == InodeSpec => []InodeInv
  <1>1. InodeInit => InodeInv
    <2> SUFFICES ASSUME InodeInit PROVE InodeInv
      OBVIOUS
    <2>0. NoInode \in Inodes /\ NoInode.type = 0
      BY DEF NoInode, Inodes
    <2>1. TypeOK
      BY <2>0 DEF InodeInit, TypeOK, Places
    <2>2. Idle[1] = "none"
      BY DEF Idle
    <2>3. Calls
      BY <2>2 DEF InodeInit, Calls, CallOK, Is, Creating, Places
    <2>4. Pointers
      BY DEF InodeInit, Pointers, Pointing
    <2>5. Exact
      <3> SUFFICES ASSUME NEW e \in Slots PROVE ref[e] = Cardinality(IpTo(e)) + Cardinality(FdTo(e))
        BY DEF Exact
      <3>1. IpTo(e) = {} /\ FdTo(e) = {}
        BY DEF InodeInit, IpTo, FdTo, Slots
      <3> QED BY <3>1, FS_EmptySet DEF InodeInit
    <2>6. Table /\ Coherent
      BY DEF InodeInit, Table, Coherent
    <2>7. Locks
      BY InodeAssumption DEF InodeInit, Locks, Locking
    <2>8. Alive /\ Fresh /\ Freeing
      BY DEF InodeInit, Alive, Fresh, Freeing, Pointing, Creating
    <2>9. DirHeld
      BY DEF InodeInit, DirHeld, Creating
    <2>10. LinkCounts
      BY <2>0 DEF InodeInit, LinkCounts
    <2> QED BY <2>1, <2>3, <2>4, <2>5, <2>6, <2>7, <2>8, <2>9, <2>10 DEF InodeInv
  <1>2. InodeInv /\ [InodeNext]_inodeVars => InodeInv'
    <2> SUFFICES ASSUME InodeInv, [InodeNext]_inodeVars PROVE InodeInv'
      OBVIOUS
    <2>1. ASSUME NEW p \in Procs, SysCall(p) PROVE InodeInv'
      <3>1. ASSUME NEW n \in Names, NEW m \in OpenModes,
                   IF "O_CREATE" \in m THEN Begin(p, <<"create", n, m>>, "parent")
                                       ELSE Begin(p, <<"open", n, m>>, "namei")
            PROVE  InodeInv'
        <4>1. CASE Begin(p, <<"create", n, m>>, "parent")
          BY <4>1, BeginKeeps
        <4>2. CASE Begin(p, <<"open", n, m>>, "namei")
          BY <4>2, BeginKeeps
        <4> QED BY <3>1, <4>1, <4>2
      <3>2. ASSUME NEW n \in Names, NEW m \in Permissions, Begin(p, <<"chmod", n, m>>, "namei")
            PROVE  InodeInv'
        BY <3>2, BeginKeeps
      <3>3. ASSUME NEW n \in Names, Begin(p, <<"getperm", n>>, "namei")
            PROVE  InodeInv'
        BY <3>3, BeginKeeps
      <3>4. ASSUME NEW n \in Names, NEW new \in Names, Begin(p, <<"link", n, new>>, "namei")
            PROVE  InodeInv'
        BY <3>4, BeginKeeps
      <3>5. ASSUME NEW n \in Names, Begin(p, <<"unlink", n>>, "parent")
            PROVE  InodeInv'
        BY <3>5, BeginKeeps
      <3>6. CASE Close(p)
        BY <3>6, CloseKeeps
      <3> QED BY <2>1, <3>1, <3>2, <3>3, <3>4, <3>5, <3>6 DEF SysCall
    <2>2. ASSUME NEW p \in Procs, Step(p) PROVE InodeInv'
      <3>1. CASE Namei(p)
        BY <3>1, NameiKeeps
      <3>2. CASE NameiNone(p)
        BY <3>2, GivesUp DEF NameiNone
      <3>3. CASE ilock(p, "ilock", "locked")
        BY <3>3, IlockKeeps
      <3>4. CASE Create(p)
        <4>1. CASE CreateNone(p)
          BY <4>1, GivesUp DEF CreateNone
        <4>2. CASE ilock(p, "ilock_new", "init")
          BY <4>2, IlockKeeps
        <4> QED BY <3>4, <4>1, <4>2, CreateFoundKeeps, CreateAllocKeeps, CreateGetKeeps,
                   CreateInitKeeps, CreateLinkKeeps, CreateFailTakesBack DEF Create
      <3>5. CASE OpenRefused(p) \/ Getperm(p)
        BY <3>5, UnlockKeeps DEF OpenRefused, Getperm
      <3>6. CASE Open(p)
        BY <3>6, OpenKeeps
      <3>7. CASE Chmod(p)
        BY <3>7, ChmodKeeps
      <3>8. CASE Link(p)
        <4>1. CASE ilock(p, "bad", "undo")
          BY <4>1, IlockKeeps
        <4> QED BY <3>8, <4>1, LinkIncKeeps, LinkEnterKeeps, LinkBadKeeps, LinkUndoKeeps DEF Link
      <3>9. CASE Unlink(p)
        <4>1. CASE UnlinkNone(p)
          BY <4>1, GivesUp DEF UnlinkNone
        <4> QED BY <3>9, <4>1, UnlinkFindKeeps, UnlinkEraseKeeps, UnlinkDecKeeps DEF Unlink
      <3>10. CASE iput(p)
        <4>1. CASE IputDrop(p) \/ IputReturn(p, "drop")
          BY <4>1, IputReturnKeeps DEF IputDrop
        <4> QED BY <3>10, <4>1, IputLastKeeps, IputFreeKeeps, IputInvalidateKeeps DEF iput
      <3> QED BY <2>2, <3>1, <3>2, <3>3, <3>4, <3>5, <3>6, <3>7, <3>8, <3>9, <3>10 DEF Step
    <2>3. CASE UNCHANGED inodeVars
      <3>1. /\ disk' = disk /\ dir' = dir /\ dirlock' = dirlock /\ inum' = inum /\ ref' = ref
            /\ valid' = valid /\ data' = data /\ lock' = lock /\ place' = place /\ call' = call
            /\ ip' = ip /\ fd' = fd
        BY <2>3 DEF inodeVars, entries
      <3>2. TypeOK' /\ Calls' /\ Pointers' /\ Exact' /\ Table' /\ Locks'
        BY <3>1 DEF InodeInv, TypeOK, Calls, CallOK, Name, Is, Arg, Pointers, Exact, IpTo, FdTo,
                    Table, Locks
      <3>3. Coherent' /\ Alive' /\ Fresh' /\ DirHeld' /\ Freeing'
        BY <3>1 DEF InodeInv, Coherent, Alive, Fresh, Unused, DirHeld, Name, Is, Freeing
      <3>4. LinkCounts'
        BY <3>1 DEF InodeInv, LinkCounts, LinksPending, At
      <3> QED BY <3>2, <3>3, <3>4 DEF InodeInv
    <2> QED BY <2>1, <2>2, <2>3 DEF InodeNext
  <1> QED BY <1>1, <1>2, PTL DEF InodeSpec

(* For any number of processes, names, inodes and table entries, no        *)
(* interleaving of the calls reaches a panic of ilock or unlink, and iput  *)
(* never waits for a sleep-lock with itable.lock held.                     *)
THEOREM InodeNoPanic == InodeSpec => []NoPanic
  <1>1. InodeInv => NoPanic
    <2> SUFFICES ASSUME InodeInv PROVE NoPanic
      OBVIOUS
    <2>1. ASSUME NEW p \in Procs, place[p] \in {"ilock", "ilock_new", "bad"}
          PROVE  ref[ip[p]] >= 1 /\ disk[inum[ip[p]]].type # 0
      <3>1. place[p] \in Pointing \ Leaving
        BY <2>1 DEF Pointing, Leaving
      <3>2. ip[p] \in Slots /\ ref[ip[p]] > 0 /\ ref[ip[p]] \in Nat
        BY <3>1, Referenced DEF InodeInv, Pointers, TypeOK
      <3> QED BY <3>1, <3>2 DEF InodeInv, Alive
    <2>2. ASSUME NEW p \in Procs, place[p] = "locked", Is(p, "unlink")
          PROVE  data[ip[p]].nlink >= 1
      <3>1. place[p] \in Locking \ {"invalidate"}
        BY <2>2 DEF Locking
      <3>2. PICK i \in Inums : i = inum[ip[p]] /\ data[ip[p]] = disk[i] /\ disk[i].type # 0
        BY <3>1, Held
      <3>3. Name(p) \in Names /\ dir[Name(p)] = i
        BY <2>2, <3>2 DEF InodeInv, Calls, CallOK, Places, DirHeld
      <3> QED BY <3>2, <3>3, LinkBounds
    <2>3. ASSUME NEW p \in Procs, place[p] = "iput", LastRef(p)
          PROVE  lock[ip[p]] = NoProc
      <3>1. ip[p] # 0 /\ ip[p] \in Slots /\ ref[ip[p]] = 1
        BY <2>3, Referenced DEF LastRef, InodeInv, Pointers, Pointing
      <3>2. \A q \in Procs : q # p => ip[q] # ip[p]
        BY <3>1, Referenced
      <3>3. lock[ip[p]] \notin Procs
        BY <2>3, <3>1, <3>2 DEF InodeInv, Locks, Locking
      <3> QED BY <3>1, <3>3 DEF InodeInv, TypeOK
    <2> QED BY <2>1, <2>2, <2>3 DEF NoPanic, At
  <1> QED BY <1>1, InodeInvHolds, PTL

(* The types are right, no count is negative, and ref is exactly the       *)
(* number of pointers to an entry: iget, iput and every error path of the  *)
(* calls are balanced.                                                     *)
THEOREM InodeRefCounts == InodeSpec => []RefCounts
  <1>1. InodeInv => RefCounts
    BY DEF InodeInv, RefCounts, Exact, IpTo, FdTo
  <1> QED BY <1>1, InodeInvHolds, PTL

(* nlink of an allocated inode is the number of its names, up to the calls *)
(* between the count and the name: create, link, unlink and the undoing of *)
(* link are balanced in every interleaving.                                *)
THEOREM InodeLinkCounts == InodeSpec => []LinkCounts
  <1>1. InodeInv => LinkCounts
    BY DEF InodeInv
  <1> QED BY <1>1, InodeInvHolds, PTL

(* The table holds no inode twice, and no inode is freed or handed out     *)
(* again while a name or an open file leads to it.                         *)
THEOREM InodeNoDangling == InodeSpec => []NoDangling
  <1>1. InodeInv => NoDangling
    <2> SUFFICES ASSUME InodeInv PROVE NoDangling
      OBVIOUS
    <2>1. ASSUME NEW i \in Inums PROVE Cardinality(Cached(i)) <= 1
      <3>1. CASE Cached(i) = {}
        BY <3>1, FS_EmptySet
      <3>2. CASE Cached(i) # {}
        <4>1. PICK e : e \in Cached(i)
          BY <3>2
        <4>2. Cached(i) = {e}
          BY <4>1 DEF Cached, InodeInv, Table
        <4>3. Cardinality({e}) = 1
          BY FS_Singleton
        <4> QED BY <4>2, <4>3
      <3> QED BY <3>1, <3>2
    <2>2. /\ \A n \in Names : dir[n] # 0 => disk[dir[n]].type # 0
          /\ \A p \in Procs : fd[p] # 0 => disk[inum[fd[p]]].type # 0
      BY DEF InodeInv, Alive
    <2> QED BY <2>1, <2>2 DEF NoDangling
  <1> QED BY <1>1, InodeInvHolds, PTL
==============================================================================
