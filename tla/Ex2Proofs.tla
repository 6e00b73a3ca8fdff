----------------------------- MODULE Ex2Proofs -----------------------------
(***************************************************************************)
(* Proofs about the two programs of ex2: about LockFile, for any number of *)
(* children and lines, and about BufferedFile, for buffers, calls and      *)
(* files of any size.                                                      *)
(***************************************************************************)
EXTENDS LockFile, BufferedFile, FiniteSetTheorems, SequenceTheorems, TLAPS

(* No child runs before main has removed the lock file of an earlier run,  *)
(* nor before main has forked it.                                          *)
NotStarted ==
    /\ parent[1] = "start" => \A c \in Children : pc[c] = "none"
    /\ parent[1] = "fork" =>
         /\ parent[2] >= 1
         /\ \A c \in Children : c >= parent[2] => pc[c] = "none"

LockInv == TypeOK /\ NotStarted /\ MutualExclusion

(* Every line of a child is on standard output, in its stdio buffer, or    *)
(* still to be printed.                                                    *)
Counted(c) == Cardinality(LinesOf(c)) + stdio[c] + left[c] = count

(* What a child has printed, and left, at every statement. *)
Progress(c) ==
    /\ stdio[c] < StdioLines
    /\ pc[c] \in {"none", "acquire"} => stdio[c] = 0 /\ left[c] = count
    /\ pc[c] \in {"exit", "exited"} => left[c] = 0 \/ (failed /\ stdio[c] = 0)
    /\ pc[c] = "exited" => stdio[c] = 0

(* A child whose lines have begun to appear either is the last that wrote, *)
(* as long as it has the lock, or has nothing more to write.               *)
Begun(c) ==
    LinesOf(c) # {} =>
      IF StdioLines = 1 THEN pc[c] = "write" => output[Len(output)] = c
      ELSE stdio[c] = 0 /\ left[c] = 0

InOneBlock(c) ==
    \A j, k \in LinesOf(c) : j < k => \A m \in j..k : output[m] = c

Returned ==
    parent[1] = "returned" => ~ lockfile /\ \A c \in Children : pc[c] = "exited"

(* The invariant behind OutputInBlocks. *)
OutputInv ==
    /\ LockInv
    /\ Returned
    /\ \A c \in Children : Counted(c) /\ Progress(c) /\ Begun(c) /\ InOneBlock(c)

-----------------------------------------------------------------------------
(* The lines a child hands to write(2) in one call. *)
LEMMA LinesType ==
    ASSUME NEW c \in Children, NEW n \in Nat
    PROVE  /\ Lines(c, n) \in Seq(Children)
           /\ Len(Lines(c, n)) = n
           /\ \A k \in 1..n : Lines(c, n)[k] = c
  BY DEF Lines

(* A stdio buffer holds at least one line. *)
LEMMA StdioLinesType == TypeOK => StdioLines \in Nat \ {0}
  BY LockFileAssumption DEF TypeOK

(* The types of the first state. *)
LEMMA InitType == Init => TypeOK
  <1> SUFFICES ASSUME Init PROVE TypeOK
    OBVIOUS
  <1>1. StdioLines \in Nat \ {0}
    BY LockFileAssumption DEF Init
  <1>2. /\ parent \in {"start", "fork", "failed", "returned"} \X (0..(num_children + 1))
        /\ left \in [Children -> 0..count]
        /\ stdio \in [Children -> 0..StdioLines]
        /\ output \in Seq(Children)
    BY <1>1, LockFileAssumption DEF Init
  <1> QED BY <1>2 DEF Init, TypeOK

(* Every step keeps the types of the variables. *)
LEMMA TypeStep ==
    ASSUME TypeOK, [Next]_vars
    PROVE  TypeOK'
  <1> USE LockFileAssumption DEF LockFileAssumption, TypeOK, Children, childVars, run
  <1>1. CASE UNCHANGED vars
    BY <1>1 DEF vars
  <1>2. CASE Parent
    <2>1. parent' \in {"start", "fork", "failed", "returned"} \X (0..(num_children + 1))
      BY <1>2 DEF Parent, ParentStart, ParentFork, ParentForkFails, ParentWait
    <2>2. pc' \in [Children -> {"none", "acquire", "write", "exit", "exited"}]
      BY <1>2 DEF Parent, ParentStart, ParentFork, ParentForkFails, ParentWait
    <2>3. lockfile' \in BOOLEAN /\ failed' \in BOOLEAN
      BY <1>2 DEF Parent, ParentStart, ParentFork, ParentForkFails, ParentWait
    <2>4. UNCHANGED <<left, stdio, output, StdioLines>>
      BY <1>2 DEF Parent, ParentStart, ParentFork, ParentForkFails, ParentWait
    <2> QED BY <2>1, <2>2, <2>3, <2>4
  <1>3. ASSUME NEW c \in Children, Acquire(c) \/ AcquireAgain(c) \/ AcquireFails(c)
                                   \/ Release(c) \/ ReleaseFails(c)
        PROVE  TypeOK'
    BY <1>3 DEF Acquire, AcquireAgain, AcquireFails, Release, ReleaseFails, vars
  <1>4. ASSUME NEW c \in Children, WriteLine(c)
        PROVE  TypeOK'
    <2>1. StdioLines \in Nat \ {0} /\ UNCHANGED <<lockfile, parent, pc, StdioLines, failed>>
      BY <1>4, StdioLinesType DEF WriteLine
    <2>2. left' \in [Children -> 0..count]
      BY <1>4 DEF WriteLine
    <2>3. CASE stdio[c] + 1 < StdioLines
      <3>1. stdio' = [stdio EXCEPT ![c] = @ + 1] /\ output' = output
        BY <1>4, <2>1, <2>3 DEF WriteLine
      <3>2. stdio[c] + 1 \in 0..StdioLines
        BY <2>1, <2>3
      <3>3. stdio' \in [Children -> 0..StdioLines]
        BY <3>1, <3>2
      <3> QED BY <2>1, <2>2, <3>1, <3>3
    <2>4. CASE ~ (stdio[c] + 1 < StdioLines)
      <3>1. stdio' = [stdio EXCEPT ![c] = 0] /\ output' = output \o Lines(c, StdioLines)
        BY <1>4, <2>4 DEF WriteLine
      <3>2. output' \in Seq(Children)
        BY <2>1, <3>1, LinesType, ConcatProperties
      <3>3. stdio' \in [Children -> 0..StdioLines]
        <4>1. 0 \in 0..StdioLines
          BY <2>1
        <4> QED BY <3>1, <4>1
      <3> QED BY <2>1, <2>2, <3>2, <3>3
    <2> QED BY <2>3, <2>4
  <1>5. ASSUME NEW c \in Children, Exit(c)
        PROVE  TypeOK'
    <2>1. output' \in Seq(Children)
      BY <1>5, LinesType, ConcatProperties DEF Exit
    <2>2. stdio' \in [Children -> 0..StdioLines]
      <3>1. 0 \in 0..StdioLines /\ stdio' = [stdio EXCEPT ![c] = 0]
        BY <1>5, StdioLinesType DEF Exit
      <3> QED BY <3>1
    <2>3. pc' \in [Children -> {"none", "acquire", "write", "exit", "exited"}]
      BY <1>5 DEF Exit
    <2>4. UNCHANGED <<lockfile, parent, left, StdioLines, failed>>
      BY <1>5 DEF Exit
    <2> QED BY <2>1, <2>2, <2>3, <2>4
  <1> QED BY <1>1, <1>2, <1>3, <1>4, <1>5 DEF Next, Child, Ended

(* Every step keeps the critical section exclusive. *)
LEMMA LockStep ==
    ASSUME LockInv, [Next]_vars
    PROVE  NotStarted' /\ MutualExclusion'
  <1> USE DEF LockInv, TypeOK, NotStarted, MutualExclusion, childVars, run
  <1>1. CASE UNCHANGED vars
    BY <1>1 DEF vars
  <1>2. CASE ParentStart \/ ParentForkFails \/ ParentWait
    BY <1>2, LockFileAssumption DEF ParentStart, ParentForkFails, ParentWait
  <1>3. CASE ParentFork
    <2>1. /\ parent[2] \in Nat /\ Children \subseteq Nat
          /\ parent' = <<"fork", parent[2] + 1>> /\ parent[1] = "fork"
          /\ lockfile' = lockfile
          /\ \A c \in Children : pc'[c] = IF c = parent[2] THEN "acquire" ELSE pc[c]
      BY <1>3, LockFileAssumption DEF ParentFork, Children
    <2>2. parent'[1] = "fork" /\ parent'[2] = parent[2] + 1
      BY <2>1
    <2>3. NotStarted'
      BY <2>1, <2>2
    <2>4. MutualExclusion'
      BY <2>1
    <2> QED BY <2>3, <2>4
  <1>4. ASSUME NEW c \in Children, Child(c) \/ AcquireFails(c)
        PROVE  NotStarted' /\ MutualExclusion'
    <2>1. CASE Acquire(c) \/ AcquireAgain(c) \/ AcquireFails(c)
      BY <2>1 DEF Acquire, AcquireAgain, AcquireFails, vars
    <2>2. CASE WriteLine(c)
      BY <2>2 DEF WriteLine
    <2>3. CASE Release(c) \/ ReleaseFails(c)
      BY <2>3 DEF Release, ReleaseFails
    <2>4. CASE Exit(c)
      BY <2>4 DEF Exit
    <2> QED BY <1>4, <2>1, <2>2, <2>3, <2>4 DEF Child
  <1> QED BY <1>1, <1>2, <1>3, <1>4 DEF Next, Parent, Ended

(* Type correctness of the lock file program. *)
THEOREM TypeCorrect == Spec => []TypeOK
  BY InitType, TypeStep, PTL DEF Spec

(* O_CREAT | O_EXCL is a lock: whatever fork, open or unlink do, and       *)
(* whether or not an earlier run left its lock file, one child at most is  *)
(* in write_message, and the lock file is there while it is.               *)
THEOREM ExclusiveWriter == Spec => []MutualExclusion
  <1>1. Init => LockInv
    BY InitType DEF Init, LockInv, NotStarted, MutualExclusion
  <1>2. LockInv /\ [Next]_vars => LockInv'
    BY TypeStep, LockStep DEF LockInv
  <1> QED BY <1>1, <1>2, PTL DEF Spec, LockInv

-----------------------------------------------------------------------------
(* A child writes n lines: they are its own, at the end. *)
LEMMA WriteLines ==
    ASSUME TypeOK, NEW c \in Children, NEW n \in Nat, output' = output \o Lines(c, n)
    PROVE  /\ output' \in Seq(Children)
           /\ Len(output') = Len(output) + n
           /\ \A k \in 1..Len(output) : output'[k] = output[k]
           /\ \A k \in (Len(output) + 1)..(Len(output) + n) : output'[k] = c
  <1> DEFINE new == Lines(c, n)
  <1>1. new \in Seq(Children) /\ Len(new) = n /\ \A k \in 1..n : new[k] = c
    BY LinesType
  <1>2. output \in Seq(Children) /\ Len(output) \in Nat
    BY DEF TypeOK
  <1> HIDE DEF new
  <1>3. /\ output \o new \in Seq(Children)
        /\ Len(output \o new) = Len(output) + n
        /\ \A k \in 1..(Len(output) + n) :
             (output \o new)[k] = IF k <= Len(output) THEN output[k] ELSE new[k - Len(output)]
    BY <1>1, <1>2, ConcatProperties
  <1>4. output' = output \o new
    BY DEF new
  <1>5. \A k \in (Len(output) + 1)..(Len(output) + n) : k - Len(output) \in 1..n
    BY <1>2
  <1> QED BY <1>1, <1>2, <1>3, <1>4, <1>5

(* A child has written finitely many lines. *)
LEMMA LinesFinite ==
    ASSUME TypeOK, NEW c \in Children
    PROVE  IsFiniteSet(LinesOf(c)) /\ Cardinality(LinesOf(c)) \in Nat
  <1>1. Len(output) \in Nat
    BY DEF TypeOK
  <1>2. IsFiniteSet(1..Len(output)) /\ LinesOf(c) \subseteq 1..Len(output)
    BY <1>1, FS_Interval DEF LinesOf
  <1>3. IsFiniteSet(LinesOf(c))
    BY <1>2, FS_Subset
  <1> QED BY <1>3, FS_CardinalityType

(* The count of the lines of every child after such a write. *)
LEMMA WriteCounts ==
    ASSUME TypeOK, NEW c \in Children, NEW n \in Nat, output' = output \o Lines(c, n)
    PROVE  /\ LinesOf(c)' = LinesOf(c) \union (Len(output) + 1)..(Len(output) + n)
           /\ Cardinality(LinesOf(c)') = Cardinality(LinesOf(c)) + n
           /\ \A d \in Children \ {c} : LinesOf(d)' = LinesOf(d)
  <1> DEFINE new == (Len(output) + 1)..(Len(output) + n)
  <1>0. Len(output) \in Nat
    BY DEF TypeOK
  <1>1. LinesOf(c)' = LinesOf(c) \union new /\ \A d \in Children \ {c} : LinesOf(d)' = LinesOf(d)
    <2>1. PICK l, m, s, t : l = Len(output) /\ m = Len(output') /\ s = output /\ t = output'
      OBVIOUS
    <2>2. /\ l \in Nat /\ m = l + n
          /\ \A k \in 1..l : t[k] = s[k]
          /\ \A k \in (l + 1)..(l + n) : t[k] = c
      BY <1>0, <2>1, WriteLines
    <2>3. \A d : {k \in 1..m : t[k] = d}
                 = {k \in 1..l : s[k] = d} \union {k \in (l + 1)..(l + n) : c = d}
      BY <2>2
    <2>4. /\ new = (l + 1)..(l + n)
          /\ \A d : LinesOf(d) = {k \in 1..l : s[k] = d} /\ LinesOf(d)' = {k \in 1..m : t[k] = d}
      BY <2>1 DEF LinesOf
    <2> QED BY <2>3, <2>4
  <1>2. \A d \in Children \ {c} : LinesOf(d)' = LinesOf(d)
    BY <1>1
  <1>3. LinesOf(c) \intersect new = {}
    BY <1>0 DEF LinesOf
  <1>4. IsFiniteSet(new) /\ Cardinality(new) = n
    <2>1. Len(output) + 1 \in Int /\ Len(output) + n \in Int
      BY <1>0
    <2>2. /\ IsFiniteSet(new)
          /\ Cardinality(new) = IF Len(output) + 1 > Len(output) + n THEN 0
                                ELSE (Len(output) + n) - (Len(output) + 1) + 1
      BY <2>1, FS_Interval
    <2> HIDE DEF new
    <2> QED BY <1>0, <2>2
  <1> HIDE DEF new
  <1>5. Cardinality(LinesOf(c) \union new) = Cardinality(LinesOf(c)) + n
    <2>1. IsFiniteSet(LinesOf(c)) /\ Cardinality(LinesOf(c)) \in Nat
      BY LinesFinite
    <2>2. Cardinality(LinesOf(c) \union new)
            = Cardinality(LinesOf(c)) + Cardinality(new) - Cardinality(LinesOf(c) \intersect new)
      BY <1>4, <2>1, FS_Union
    <2>3. Cardinality(LinesOf(c) \intersect new) = 0
      BY <1>3, FS_EmptySet
    <2> QED BY <1>4, <2>1, <2>2, <2>3
  <1> QED BY <1>1, <1>2, <1>5 DEF new

(* Lines stay together when their child has none yet, or wrote last. *)
LEMMA WriteInOneBlock ==
    ASSUME TypeOK, NEW c \in Children, NEW n \in Nat, output' = output \o Lines(c, n),
           n = 0 \/ LinesOf(c) = {} \/ output[Len(output)] = c,
           NEW d \in Children, InOneBlock(d)
    PROVE  InOneBlock(d)'
  <1>0. Len(output) \in Nat
    BY DEF TypeOK
  <1>1. /\ Len(output') = Len(output) + n
        /\ \A k \in 1..Len(output) : output'[k] = output[k]
        /\ \A k \in (Len(output) + 1)..(Len(output) + n) : output'[k] = c
    BY WriteLines
  <1> SUFFICES ASSUME NEW j \in 1..(Len(output) + n), NEW k \in 1..(Len(output) + n),
                      output'[j] = d, output'[k] = d, j < k, NEW m \in j..k
               PROVE  output'[m] = d
    BY <1>1 DEF InOneBlock, LinesOf
  <1>2. j \in Nat /\ k \in Nat /\ m \in Nat
    BY <1>0
  <1>3. CASE k <= Len(output)
    <2>1. j \in LinesOf(d) /\ k \in LinesOf(d) /\ m \in 1..Len(output)
      BY <1>0, <1>1, <1>2, <1>3 DEF LinesOf
    <2> QED BY <1>1, <2>1 DEF InOneBlock
  <1>4. CASE ~ (k <= Len(output))
    <2>1. d = c /\ n # 0
      BY <1>0, <1>1, <1>2, <1>4
    <2>2. CASE ~ (m <= Len(output))
      BY <1>0, <1>1, <1>2, <2>1, <2>2
    <2>3. CASE m <= Len(output)
      <3>1. j \in LinesOf(c) /\ m \in 1..Len(output)
        BY <1>0, <1>1, <2>1, <2>3 DEF LinesOf
      <3>2. Len(output) \in LinesOf(c)
        BY <1>0, <2>1, <3>1 DEF LinesOf
      <3>3. output[m] = c
        BY <1>0, <2>1, <2>3, <3>1, <3>2 DEF InOneBlock, LinesOf
      <3> QED BY <1>1, <2>1, <3>1, <3>3
    <2> QED BY <2>2, <2>3
  <1> QED BY <1>3, <1>4

(* The values the proofs below calculate with. *)
LEMMA Numbers ==
    ASSUME OutputInv, NEW c \in Children
    PROVE  /\ stdio[c] \in Nat /\ left[c] \in Nat /\ StdioLines \in Nat \ {0}
           /\ Cardinality(LinesOf(c)) \in Nat /\ Len(output) \in Nat /\ count \in Nat
           /\ Cardinality(LinesOf(c)) = 0 => LinesOf(c) = {}
  <1>1. TypeOK
    BY DEF OutputInv, LockInv
  <1>2. StdioLines \in Nat \ {0} /\ Len(output) \in Nat /\ count \in Nat
    BY <1>1, StdioLinesType, LockFileAssumption DEF TypeOK
  <1>3. stdio[c] \in Nat /\ left[c] \in Nat
    BY <1>1, <1>2 DEF TypeOK
  <1>4. /\ Cardinality(LinesOf(c)) \in Nat
        /\ Cardinality(LinesOf(c)) = 0 => LinesOf(c) = {}
    BY <1>1, LinesFinite, FS_EmptySet
  <1> QED BY <1>2, <1>3, <1>4

(* The steps that neither print nor write. *)
LEMMA QuietStep ==
    ASSUME OutputInv, TypeOK', UNCHANGED <<left, stdio, output, StdioLines>>,
           failed => failed',
           \A c \in Children : \/ pc'[c] = pc[c]
                               \/ pc[c] = "none" /\ pc'[c] = "acquire"
                               \/ pc[c] = "acquire" /\ pc'[c] = "write"
                               \/ pc[c] = "acquire" /\ pc'[c] = "exit" /\ failed'
                               \/ pc[c] = "write" /\ pc'[c] = "exit" /\ left[c] = 0
    PROVE  \A c \in Children : (Counted(c) /\ Progress(c) /\ Begun(c) /\ InOneBlock(c))'
  <1> SUFFICES ASSUME NEW c \in Children
               PROVE  (Counted(c) /\ Progress(c) /\ Begun(c) /\ InOneBlock(c))'
    OBVIOUS
  <1>1. Counted(c) /\ Progress(c) /\ Begun(c) /\ InOneBlock(c)
    BY DEF OutputInv
  <1>2. LinesOf(c)' = LinesOf(c)
    BY DEF LinesOf
  <1>3. Counted(c)' /\ InOneBlock(c)'
    <2>1. Counted(c)'
      BY <1>1, <1>2 DEF Counted
    <2>2. InOneBlock(c)'
      BY <1>1, <1>2 DEF InOneBlock
    <2> QED BY <2>1, <2>2
  <1>4. Progress(c)'
    BY <1>1 DEF Progress
  <1>5. pc[c] \in {"none", "acquire"} => LinesOf(c) = {}
    BY <1>1, Numbers DEF Counted, Progress
  <1>6. Begun(c)'
    BY <1>1, <1>2, <1>5 DEF Begun
  <1> QED BY <1>3, <1>4, <1>6

(* write_message prints a line, which stays in the stdio buffer or fills   *)
(* it.                                                                     *)
LEMMA PrintStep ==
    ASSUME \A n \in StdioSizes : n = 1 \/ n >= count,
           OutputInv, TypeOK', NEW c \in Children, WriteLine(c), NEW d \in Children
    PROVE  (Counted(d) /\ Progress(d) /\ Begun(d) /\ InOneBlock(d))'
  <1>1. Counted(d) /\ Progress(d) /\ Begun(d) /\ InOneBlock(d)
    BY DEF OutputInv
  <1>2. Counted(c) /\ Progress(c) /\ Begun(c)
    BY DEF OutputInv
  <1>3. TypeOK /\ MutualExclusion
    BY DEF OutputInv, LockInv
  <1>4. /\ pc[c] = "write" /\ left[c] > 0
        /\ UNCHANGED <<pc, StdioLines, failed>>
        /\ left' = [left EXCEPT ![c] = @ - 1]
    BY DEF WriteLine, run
  <1>5. StdioLines = 1 \/ StdioLines >= count
    BY <1>3 DEF TypeOK
  <1>6. left'[d] = IF d = c THEN left[c] - 1 ELSE left[d]
    BY <1>3, <1>4 DEF TypeOK
  <1>7. CASE stdio[c] + 1 < StdioLines
    <2>1. stdio' = [stdio EXCEPT ![c] = @ + 1] /\ output' = output
      BY <1>7, Numbers DEF WriteLine
    <2>2. LinesOf(d)' = LinesOf(d)
      BY <2>1 DEF LinesOf
    <2>3. stdio'[d] = IF d = c THEN stdio[c] + 1 ELSE stdio[d]
      BY <1>3, <2>1 DEF TypeOK
    <2>4. Counted(d)'
      <3>1. stdio[d] \in Nat /\ left[d] \in Nat /\ Cardinality(LinesOf(d)) \in Nat
        BY Numbers
      <3>2. stdio'[d] + left'[d] = stdio[d] + left[d]
        BY <1>6, <2>3, <3>1
      <3>3. stdio'[d] \in Int /\ left'[d] \in Int
        BY <1>6, <2>3, <3>1
      <3> QED BY <1>1, <2>2, <3>1, <3>2, <3>3 DEF Counted
    <2>5. Progress(d)'
      BY <1>1, <1>4, <1>6, <1>7, <2>3 DEF Progress
    <2>6. LinesOf(c) = {}
      BY <1>2, <1>4, <1>7, Numbers DEF Begun
    <2>7. Begun(d)'
      BY <1>1, <1>4, <1>6, <2>1, <2>2, <2>3, <2>6 DEF Begun
    <2>8. InOneBlock(d)'
      BY <1>1, <2>1, <2>2 DEF InOneBlock
    <2> QED BY <2>4, <2>5, <2>7, <2>8
  <1>8. CASE ~ (stdio[c] + 1 < StdioLines)
    <2>1. /\ stdio' = [stdio EXCEPT ![c] = 0]
          /\ output' = output \o Lines(c, StdioLines)
          /\ stdio[c] + 1 = StdioLines
      BY <1>8 DEF WriteLine
    <2>2. StdioLines \in Nat
      BY Numbers
    <2>3. stdio'[d] = IF d = c THEN 0 ELSE stdio[d]
      BY <1>3, <2>1 DEF TypeOK
    <2>4. StdioLines # 1 => LinesOf(c) = {} /\ left[c] = 1
      BY <1>2, <1>4, <1>5, <2>1, Numbers DEF Counted
    <2>5. InOneBlock(d)'
      <3>1. LinesOf(c) = {} \/ output[Len(output)] = c
        BY <1>2, <1>4, <2>4 DEF Begun
      <3> QED BY <1>1, <1>3, <2>1, <2>2, <3>1, WriteInOneBlock
    <2>6. Cardinality(LinesOf(d)') = Cardinality(LinesOf(d)) + (IF d = c THEN StdioLines ELSE 0)
      <3>1. /\ Cardinality(LinesOf(c)') = Cardinality(LinesOf(c)) + StdioLines
            /\ \A e \in Children \ {c} : LinesOf(e)' = LinesOf(e)
        BY <1>3, <2>1, <2>2, WriteCounts
      <3>2. Cardinality(LinesOf(d)) \in Nat
        BY Numbers
      <3>3. CASE d = c
        BY <3>1, <3>3
      <3>4. CASE d # c
        BY <3>1, <3>2, <3>4
      <3> QED BY <3>3, <3>4
    <2>7. Counted(d)'
      <3>1. stdio[d] \in Nat /\ left[d] \in Nat /\ Cardinality(LinesOf(d)) \in Nat
        BY Numbers
      <3>2. stdio'[d] + left'[d] + (IF d = c THEN StdioLines ELSE 0) = stdio[d] + left[d]
        <4>1. CASE d = c
          <5>1. StdioLines = stdio[c] + 1
            BY <2>1
          <5> QED BY <1>6, <2>2, <2>3, <3>1, <4>1, <5>1
        <4>2. CASE d # c
          BY <1>6, <2>3, <3>1, <4>2
        <4> QED BY <4>1, <4>2
      <3>3. stdio'[d] \in Int /\ left'[d] \in Int /\ (IF d = c THEN StdioLines ELSE 0) \in Int
        BY <1>6, <2>2, <2>3, <3>1
      <3> QED BY <1>1, <2>6, <3>1, <3>2, <3>3 DEF Counted
    <2>8. Progress(d)'
      BY <1>1, <1>4, <1>6, <2>3, Numbers DEF Progress
    <2>9. Begun(d)'
      <3>1. CASE d = c /\ StdioLines = 1
        BY <1>3, <1>4, <2>1, <2>2, <3>1, WriteLines, Numbers DEF Begun
      <3>2. CASE d = c /\ StdioLines # 1
        BY <1>4, <1>6, <2>3, <2>4, <3>2 DEF Begun
      <3>3. CASE d # c
        <4>1. LinesOf(d)' = LinesOf(d)
          BY <1>3, <2>1, <2>2, <3>3, WriteCounts
        <4>2. pc'[d] # "write"
          BY <1>3, <1>4, <3>3 DEF MutualExclusion
        <4> QED BY <1>1, <1>4, <1>6, <2>3, <3>3, <4>1, <4>2 DEF Begun
      <3> QED BY <3>1, <3>2, <3>3
    <2> QED BY <2>5, <2>7, <2>8, <2>9
  <1> QED BY <1>7, <1>8

(* exit writes what is left in the stdio buffer. *)
LEMMA ExitStep ==
    ASSUME \A n \in StdioSizes : n = 1 \/ n >= count,
           OutputInv, TypeOK', NEW c \in Children, Exit(c), NEW d \in Children
    PROVE  (Counted(d) /\ Progress(d) /\ Begun(d) /\ InOneBlock(d))'
  <1>1. Counted(d) /\ Progress(d) /\ Begun(d) /\ InOneBlock(d)
    BY DEF OutputInv
  <1>2. Counted(c) /\ Progress(c) /\ Begun(c)
    BY DEF OutputInv
  <1>3. TypeOK
    BY DEF OutputInv, LockInv
  <1>4. /\ pc[c] = "exit" /\ pc' = [pc EXCEPT ![c] = "exited"]
        /\ UNCHANGED <<left, StdioLines, failed>>
        /\ stdio' = [stdio EXCEPT ![c] = 0]
        /\ output' = output \o Lines(c, stdio[c])
    BY DEF Exit, run
  <1>5. /\ stdio'[d] = IF d = c THEN 0 ELSE stdio[d]
        /\ pc'[d] = IF d = c THEN "exited" ELSE pc[d]
    BY <1>3, <1>4 DEF TypeOK
  <1>6. stdio[c] \in Nat
    BY Numbers
  <1>7. stdio[c] = 0 \/ (LinesOf(c) = {} /\ left[c] = 0 /\ StdioLines # 1)
    BY <1>2, <1>4, <1>6, Numbers DEF Begun, Progress
  <1>8. InOneBlock(d)'
    BY <1>1, <1>3, <1>4, <1>6, <1>7, WriteInOneBlock
  <1>9. Cardinality(LinesOf(d)') = Cardinality(LinesOf(d)) + (IF d = c THEN stdio[c] ELSE 0)
    <2>1. /\ Cardinality(LinesOf(c)') = Cardinality(LinesOf(c)) + stdio[c]
          /\ \A e \in Children \ {c} : LinesOf(e)' = LinesOf(e)
      BY <1>3, <1>4, <1>6, WriteCounts
    <2> QED BY <2>1, Numbers
  <1>10. Counted(d)'
    BY <1>1, <1>4, <1>5, <1>9, Numbers DEF Counted
  <1>11. Progress(d)'
    BY <1>1, <1>4, <1>5, Numbers DEF Progress
  <1>12. Begun(d)'
    <2>1. CASE stdio[c] = 0
      <3>1. LinesOf(d)' = LinesOf(d)
        <4>1. /\ LinesOf(c)' = LinesOf(c) \union (Len(output) + 1)..(Len(output) + stdio[c])
              /\ \A e \in Children \ {c} : LinesOf(e)' = LinesOf(e)
          BY <1>3, <1>4, <1>6, WriteCounts
        <4>2. (Len(output) + 1)..(Len(output) + stdio[c]) = {}
          BY <2>1, Numbers
        <4> QED BY <4>1, <4>2
      <3>2. LinesOf(d) # {} => Len(output) >= 1
        BY Numbers DEF LinesOf
      <3>3. LinesOf(d) # {} => output'[Len(output')] = output[Len(output)]
        <4>1. Len(output') = Len(output) + stdio[c]
              /\ \A k \in 1..Len(output) : output'[k] = output[k]
          BY <1>3, <1>4, <1>6, WriteLines
        <4>2. Len(output) \in Nat
          BY Numbers
        <4> QED BY <2>1, <3>2, <4>1, <4>2
      <3>4. /\ LinesOf(d) # {} /\ StdioLines = 1 /\ pc'[d] = "write" => output[Len(output)] = d
            /\ LinesOf(d) # {} /\ StdioLines # 1 => stdio'[d] = 0 /\ left'[d] = 0
        BY <1>1, <1>4, <1>5, <2>1 DEF Begun
      <3> QED BY <1>4, <3>1, <3>3, <3>4 DEF Begun
    <2>2. CASE stdio[c] # 0
      <3>1. d # c => LinesOf(d)' = LinesOf(d)
        BY <1>3, <1>4, <1>6, WriteCounts
      <3> QED BY <1>1, <1>4, <1>5, <1>7, <2>2, <3>1 DEF Begun
    <2> QED BY <2>1, <2>2
  <1> QED BY <1>8, <1>10, <1>11, <1>12

(* Every step keeps the lines together and accounted for. *)
LEMMA OutputStep ==
    ASSUME \A n \in StdioSizes : n = 1 \/ n >= count, OutputInv, [Next]_vars
    PROVE  OutputInv'
  <1>1. LockInv' /\ TypeOK /\ TypeOK' /\ NotStarted /\ Returned
    BY TypeStep, LockStep DEF OutputInv, LockInv
  <1> SUFFICES Returned' /\ \A c \in Children :
                 (Counted(c) /\ Progress(c) /\ Begun(c) /\ InOneBlock(c))'
    BY <1>1 DEF OutputInv
  <1>2. CASE Parent
    <2>1. Returned'
      BY <1>1, <1>2 DEF Returned, Parent, ParentStart, ParentFork, ParentForkFails, ParentWait,
                        childVars, run, TypeOK
    <2>2. /\ UNCHANGED <<left, stdio, output, StdioLines>> /\ (failed => failed')
          /\ \A c \in Children : pc'[c] = pc[c] \/ (pc[c] = "none" /\ pc'[c] = "acquire")
      <3>1. CASE ParentFork
        <4>1. parent[2] \in Children /\ pc[parent[2]] = "none"
          <5>1. parent[2] \in 0..(num_children + 1) /\ parent[2] <= num_children /\ parent[2] >= 1
            BY <1>1, <3>1 DEF ParentFork, NotStarted, TypeOK
          <5>2. parent[2] \in Children
            BY <5>1, LockFileAssumption DEF Children
          <5> QED BY <1>1, <3>1, <5>1, <5>2 DEF ParentFork, NotStarted
        <4> QED BY <1>1, <3>1, <4>1 DEF ParentFork, run, TypeOK
      <3>2. CASE ~ ParentFork
        BY <1>2, <3>2 DEF Parent, ParentStart, ParentForkFails, ParentWait, childVars, run
      <3> QED BY <3>1, <3>2
    <2> QED BY <1>1, <2>1, <2>2, QuietStep
  <1>3. ASSUME NEW c \in Children, Acquire(c) \/ AcquireFails(c) \/ Release(c) \/ ReleaseFails(c)
        PROVE  Returned' /\ \A d \in Children :
                 (Counted(d) /\ Progress(d) /\ Begun(d) /\ InOneBlock(d))'
    <2>1. Returned'
      BY <1>1, <1>3 DEF Returned, Acquire, AcquireFails, Release, ReleaseFails
    <2>2. /\ UNCHANGED <<left, stdio, output, StdioLines>> /\ (failed => failed')
          /\ \A d \in Children : \/ pc'[d] = pc[d]
                                 \/ pc[d] = "acquire" /\ pc'[d] = "write"
                                 \/ pc[d] = "acquire" /\ pc'[d] = "exit" /\ failed'
                                 \/ pc[d] = "write" /\ pc'[d] = "exit" /\ left[d] = 0
      BY <1>1, <1>3 DEF Acquire, AcquireFails, Release, ReleaseFails, run, TypeOK
    <2> QED BY <1>1, <2>1, <2>2, QuietStep
  <1>4. ASSUME NEW c \in Children, WriteLine(c)
        PROVE  Returned' /\ \A d \in Children :
                 (Counted(d) /\ Progress(d) /\ Begun(d) /\ InOneBlock(d))'
    BY <1>1, <1>4, PrintStep DEF Returned, WriteLine
  <1>5. ASSUME NEW c \in Children, Exit(c)
        PROVE  Returned' /\ \A d \in Children :
                 (Counted(d) /\ Progress(d) /\ Begun(d) /\ InOneBlock(d))'
    BY <1>1, <1>5, ExitStep DEF Returned, Exit
  <1>6. CASE UNCHANGED vars
    <2>1. /\ Returned' /\ UNCHANGED <<left, stdio, output, StdioLines, failed, pc>>
      BY <1>1, <1>6 DEF vars, childVars, run, Returned
    <2> QED BY <1>1, <2>1, QuietStep
  <1> QED BY <1>2, <1>3, <1>4, <1>5, <1>6 DEF Next, Child, AcquireAgain, Ended

(* Standard output has each child's lines in one block, and all of them    *)
(* when main returns 0 without a failed call, if it is a terminal or a     *)
(* stdio buffer holds the lines of a child (with a smaller one the lines   *)
(* do interleave).                                                         *)
THEOREM LinesInBlocks ==
    ASSUME \A n \in StdioSizes : n = 1 \/ n >= count
    PROVE  Spec => []OutputInBlocks
  <1>1. Init => OutputInv
    <2> SUFFICES ASSUME Init PROVE OutputInv
      OBVIOUS
    <2>1. TypeOK /\ StdioLines \in Nat \ {0}
      BY InitType, StdioLinesType
    <2>2. \A c \in Children : LinesOf(c) = {}
      BY DEF Init, LinesOf
    <2>3. \A c \in Children : Counted(c)
      <3>1. \A c \in Children : Cardinality(LinesOf(c)) = 0
        BY <2>2, FS_EmptySet
      <3> QED BY <3>1, LockFileAssumption DEF Init, Counted
    <2>4. \A c \in Children : Progress(c) /\ Begun(c) /\ InOneBlock(c)
      BY <2>1, <2>2 DEF Init, Progress, Begun, InOneBlock
    <2> QED BY <2>1, <2>3, <2>4 DEF Init, OutputInv, LockInv, NotStarted, MutualExclusion, Returned
  <1>2. OutputInv /\ [Next]_vars => OutputInv'
    BY OutputStep
  <1>3. OutputInv => OutputInBlocks
    <2> SUFFICES ASSUME OutputInv PROVE OutputInBlocks
      OBVIOUS
    <2>1. \A c \in Children : \A j, k \in LinesOf(c) : j < k => \A m \in j..k : output[m] = c
      BY DEF OutputInv, InOneBlock
    <2>2. ASSUME parent[1] = "returned"
          PROVE  ~ lockfile /\ (failed \/ \A c \in Children : Cardinality(LinesOf(c)) = count)
      BY <2>2, Numbers DEF OutputInv, Returned, Counted, Progress
    <2> QED BY <2>1, <2>2 DEF OutputInBlocks
  <1> QED BY <1>1, <1>2, <1>3, PTL DEF Spec

-----------------------------------------------------------------------------
(***************************************************************************)
(* Strings of bytes: their pieces, what is written over them, and how      *)
(* often a byte is in them.                                                *)
(***************************************************************************)
(* Strings(n) are the sequences of at most n bytes. *)
LEMMA StringsAre ==
    ASSUME NEW n \in Nat, NEW s
    PROVE  s \in Strings(n) <=> s \in Seq(Bytes) /\ Len(s) <= n
  <1>1. ASSUME s \in Strings(n) PROVE s \in Seq(Bytes) /\ Len(s) <= n
    <2>1. PICK k \in 0..n : s \in [1..k -> Bytes]
      BY <1>1 DEF Strings
    <2>2. k \in Nat
      OBVIOUS
    <2>3. s \in Seq(Bytes) /\ Len(s) = k
      BY <2>1, <2>2
    <2> QED BY <2>3
  <1>2. ASSUME s \in Seq(Bytes), Len(s) <= n PROVE s \in Strings(n)
    <2>1. Len(s) \in 0..n
      BY <1>2
    <2>2. s \in [1..Len(s) -> Bytes]
      BY <1>2
    <2> QED BY <2>1, <2>2 DEF Strings
  <1> QED BY <1>1, <1>2

(* The two pieces of a string: lengths and bytes. *)
LEMMA Pieces ==
    ASSUME NEW s \in Seq(Bytes), NEW n \in 0..Len(s)
    PROVE  /\ First(s, n) \in Seq(Bytes) /\ Len(First(s, n)) = n
           /\ \A k \in 1..n : First(s, n)[k] = s[k]
           /\ From(s, n) \in Seq(Bytes) /\ Len(From(s, n)) = Len(s) - n
           /\ \A k \in 1..(Len(s) - n) : From(s, n)[k] = s[n + k]
  <1>1. Len(s) \in Nat /\ n \in Int /\ 1 \in Int /\ Len(s) \in Int /\ n + 1 \in Int
        /\ n <= Len(s) /\ 0 <= n
    OBVIOUS
  <1>2. \A k \in 1..Len(s) : s[k] \in Bytes
    OBVIOUS
  <1>3. /\ First(s, n) \in Seq(Bytes) /\ Len(First(s, n)) = IF 1 <= n THEN n - 1 + 1 ELSE 0
        /\ \A k \in 1..(n - 1 + 1) : First(s, n)[k] = s[1 + k - 1]
    <2>1. \A k \in 1..n : s[k] \in Bytes
      BY <1>1, <1>2
    <2> QED BY <1>1, <2>1, SubSeqProperties DEF First
  <1>4. /\ From(s, n) \in Seq(Bytes)
        /\ Len(From(s, n)) = IF n + 1 <= Len(s) THEN Len(s) - (n + 1) + 1 ELSE 0
        /\ \A k \in 1..(Len(s) - (n + 1) + 1) : From(s, n)[k] = s[(n + 1) + k - 1]
    <2>1. \A k \in (n + 1)..Len(s) : s[k] \in Bytes
      BY <1>1, <1>2
    <2> QED BY <1>1, <2>1, SubSeqProperties DEF From
  <1>5. PICK l, f, g : l = Len(s) /\ f = First(s, n) /\ g = From(s, n)
    OBVIOUS
  <1>6. Len(f) = n /\ \A k \in 1..n : f[k] = s[k]
    <2>1. \A k \in 1..n : 1 + k - 1 = k
      OBVIOUS
    <2> QED BY <1>1, <1>3, <1>5, <2>1
  <1>7. Len(g) = l - n /\ \A k \in 1..(l - n) : g[k] = s[n + k]
    <2>1. l - (n + 1) + 1 = l - n /\ \A k \in 1..(l - n) : (n + 1) + k - 1 = n + k
      BY <1>1, <1>5
    <2> QED BY <1>1, <1>4, <1>5, <2>1
  <1> QED BY <1>3, <1>4, <1>5, <1>6, <1>7

(* Nothing follows the end of a string. *)
LEMMA FromBeyond ==
    ASSUME NEW s \in Seq(Bytes), NEW n \in Nat, Len(s) <= n
    PROVE  From(s, n) = <<>>
  BY SubSeqEmpty DEF From

(* Two strings one behind the other: length and bytes. *)
LEMMA Joined ==
    ASSUME NEW s \in Seq(Bytes), NEW t \in Seq(Bytes)
    PROVE  /\ s \o t \in Seq(Bytes) /\ Len(s \o t) = Len(s) + Len(t)
           /\ \A k \in 1..Len(s) : (s \o t)[k] = s[k]
           /\ \A k \in 1..Len(t) : (s \o t)[Len(s) + k] = t[k]
           /\ \A k \in (Len(s) + 1)..(Len(s) + Len(t)) : (s \o t)[k] = t[k - Len(s)]
  OBVIOUS

(* What write(2) makes of a file: length and bytes. *)
LEMMA Overlaid ==
    ASSUME NEW s \in Seq(Bytes), NEW d \in Seq(Bytes), NEW at \in 0..Len(s)
    PROVE  /\ Overlay(s, at, d) \in Seq(Bytes)
           /\ Len(Overlay(s, at, d)) = IF at + Len(d) <= Len(s) THEN Len(s) ELSE at + Len(d)
           /\ \A k \in 1..Len(Overlay(s, at, d)) :
                Overlay(s, at, d)[k] = IF at < k /\ k <= at + Len(d) THEN d[k - at] ELSE s[k]
  <1>1. PICK l, m, f, g : l = Len(s) /\ m = Len(d) /\ f = First(s, at) /\ g = From(s, at + Len(d))
    OBVIOUS
  <1>2. l \in Nat /\ m \in Nat /\ at \in Nat /\ at <= l
    BY <1>1
  <1>3. f \in Seq(Bytes) /\ Len(f) = at /\ \A k \in 1..at : f[k] = s[k]
    BY <1>1, Pieces
  <1>4. /\ g \in Seq(Bytes)
        /\ Len(g) = IF at + m <= l THEN l - (at + m) ELSE 0
        /\ \A k \in 1..Len(g) : g[k] = s[at + m + k]
    <2>1. CASE at + m <= l
      <3>1. at + Len(d) \in 0..Len(s)
        BY <1>1, <1>2, <2>1
      <3>2. /\ From(s, at + Len(d)) \in Seq(Bytes)
            /\ Len(From(s, at + Len(d))) = Len(s) - (at + Len(d))
            /\ \A k \in 1..(Len(s) - (at + Len(d))) : From(s, at + Len(d))[k] = s[(at + Len(d)) + k]
        BY <3>1, Pieces
      <3>3. /\ g \in Seq(Bytes) /\ Len(g) = l - (at + m)
            /\ \A k \in 1..(l - (at + m)) : g[k] = s[(at + m) + k]
        BY <1>1, <3>2
      <3> QED BY <2>1, <3>3
    <2>2. CASE ~ (at + m <= l)
      <3>1. g = <<>>
        BY <1>1, <1>2, <2>2, FromBeyond
      <3> QED BY <2>2, <3>1
    <2> QED BY <2>1, <2>2
  <1>5. PICK u, v : u = f \o d /\ v = (f \o d) \o g
    OBVIOUS
  <1>6. /\ u \in Seq(Bytes) /\ Len(u) = at + m
        /\ \A k \in 1..at : u[k] = f[k]
        /\ \A k \in (at + 1)..(at + m) : u[k] = d[k - at]
    <2>1. /\ u \in Seq(Bytes) /\ Len(u) = Len(f) + Len(d)
          /\ \A k \in 1..Len(f) : u[k] = f[k]
          /\ \A k \in (Len(f) + 1)..(Len(f) + Len(d)) : u[k] = d[k - Len(f)]
      BY <1>3, <1>5, Joined
    <2> QED BY <1>1, <1>3, <2>1
  <1>7. /\ v \in Seq(Bytes) /\ Len(v) = at + m + Len(g)
        /\ \A k \in 1..(at + m) : v[k] = u[k]
        /\ \A k \in (at + m + 1)..(at + m + Len(g)) : v[k] = g[k - (at + m)]
    <2>1. /\ v \in Seq(Bytes) /\ Len(v) = Len(u) + Len(g)
          /\ \A k \in 1..Len(u) : v[k] = u[k]
          /\ \A k \in (Len(u) + 1)..(Len(u) + Len(g)) : v[k] = g[k - Len(u)]
      <3>1. v = u \o g
        BY <1>5
      <3>2. u \in Seq(Bytes) /\ g \in Seq(Bytes)
        BY <1>4, <1>6
      <3>3. /\ u \o g \in Seq(Bytes) /\ Len(u \o g) = Len(u) + Len(g)
            /\ \A k \in 1..Len(u) : (u \o g)[k] = u[k]
            /\ \A k \in (Len(u) + 1)..(Len(u) + Len(g)) : (u \o g)[k] = g[k - Len(u)]
        BY <3>2, Joined
      <3> QED BY <3>1, <3>3, Zenon
    <2> QED BY <1>6, <2>1
  <1>8. v = Overlay(s, at, d)
    BY <1>1, <1>5 DEF Overlay
  <1>9. Len(v) = IF at + m <= l THEN l ELSE at + m
    BY <1>2, <1>4, <1>7
  <1>10. ASSUME NEW k \in 1..Len(v)
         PROVE  v[k] = IF at < k /\ k <= at + m THEN d[k - at] ELSE s[k]
    <2>1. Len(g) \in Nat /\ k \in Nat
      BY <1>4
    <2>2. CASE k <= at
      <3>1. k \in 1..at /\ k \in 1..(at + m)
        BY <1>2, <1>10, <2>1, <2>2
      <3>2. v[k] = s[k]
        BY <1>3, <1>6, <1>7, <3>1
      <3> QED BY <1>2, <2>1, <2>2, <3>2
    <2>3. CASE at < k /\ k <= at + m
      <3>1. k \in (at + 1)..(at + m) /\ k \in 1..(at + m)
        BY <1>2, <1>10, <2>1, <2>3
      <3>2. v[k] = d[k - at]
        BY <1>6, <1>7, <3>1
      <3> QED BY <2>3, <3>2
    <2>4. CASE at + m < k
      <3>1. k \in (at + m + 1)..(at + m + Len(g)) /\ k - (at + m) \in 1..Len(g)
            /\ at + m + (k - (at + m)) = k
        BY <1>2, <1>7, <1>10, <2>1, <2>4
      <3>2. v[k] = s[k]
        BY <1>4, <1>7, <3>1
      <3> QED BY <1>2, <2>1, <2>4, <3>2
    <2> QED BY <1>2, <2>1, <2>2, <2>3, <2>4
  <1> QED BY <1>1, <1>7, <1>8, <1>9, <1>10

(* Writing nothing changes nothing. *)
LEMMA OverlayNothing ==
    ASSUME NEW s \in Seq(Bytes), NEW at \in 0..Len(s)
    PROVE  Overlay(s, at, <<>>) = s
  <1>0. <<>> \in Seq(Bytes) /\ Len(<<>>) = 0
    OBVIOUS
  <1>1. PICK d : d = <<>> /\ d \in Seq(Bytes) /\ Len(d) = 0
    BY <1>0
  <1>2. PICK v : v = Overlay(s, at, d)
    OBVIOUS
  <1>3. v \in Seq(Bytes) /\ Len(v) = Len(s) /\ \A k \in 1..Len(v) : v[k] = s[k]
    <2>1. /\ v \in Seq(Bytes) /\ Len(v) = IF at + 0 <= Len(s) THEN Len(s) ELSE at + 0
          /\ \A k \in 1..Len(v) : v[k] = IF at < k /\ k <= at + 0 THEN d[k - at] ELSE s[k]
      <3>1. /\ v \in Seq(Bytes)
            /\ Len(v) = IF at + Len(d) <= Len(s) THEN Len(s) ELSE at + Len(d)
            /\ \A k \in 1..Len(v) :
                 v[k] = IF at < k /\ k <= at + Len(d) THEN d[k - at] ELSE s[k]
        <4>1. d \in Seq(Bytes)
          BY <1>1
        <4> QED BY <1>2, <4>1, Overlaid
      <3> QED BY <1>1, <3>1
    <2>2. at + 0 = at /\ at <= Len(s) /\ \A k \in 1..Len(v) : ~ (at < k /\ k <= at)
      BY <2>1
    <2> QED BY <2>1, <2>2
  <1>4. v = s
    BY <1>3, SeqEqual
  <1> QED BY <1>1, <1>2, <1>4

(* A write after a write is one write of both. *)
LEMMA OverlayTwice ==
    ASSUME NEW s \in Seq(Bytes), NEW d \in Seq(Bytes), NEW e \in Seq(Bytes), NEW at \in 0..Len(s)
    PROVE  /\ at + Len(d) \in 0..Len(Overlay(s, at, d))
           /\ Overlay(Overlay(s, at, d), at + Len(d), e) = Overlay(s, at, d \o e)
  <1>1. PICK l, m, n, u, w, v, x : /\ l = Len(s) /\ m = Len(d) /\ n = Len(e)
                                   /\ u = Overlay(s, at, d) /\ w = d \o e
                                   /\ v = Overlay(u, at + m, e) /\ x = Overlay(s, at, w)
    OBVIOUS
  <1>2. l \in Nat /\ m \in Nat /\ n \in Nat /\ at \in Nat /\ at <= l
    BY <1>1
  <1>3. /\ u \in Seq(Bytes) /\ Len(u) = IF at + m <= l THEN l ELSE at + m
        /\ \A k \in 1..Len(u) : u[k] = IF at < k /\ k <= at + m THEN d[k - at] ELSE s[k]
    BY <1>1, Overlaid
  <1>4. /\ w \in Seq(Bytes) /\ Len(w) = m + n
        /\ \A k \in 1..m : w[k] = d[k]
        /\ \A k \in (m + 1)..(m + n) : w[k] = e[k - m]
    BY <1>1, Joined
  <1>5. at + m \in 0..Len(u)
    BY <1>2, <1>3
  <1>6. /\ v \in Seq(Bytes) /\ Len(v) = IF at + m + n <= Len(u) THEN Len(u) ELSE at + m + n
        /\ \A k \in 1..Len(v) :
             v[k] = IF at + m < k /\ k <= at + m + n THEN e[k - (at + m)] ELSE u[k]
    <2>1. PICK c : c = at + m
      OBVIOUS
    <2>2. u \in Seq(Bytes) /\ c \in 0..Len(u)
      BY <1>3, <1>5, <2>1
    <2>3. /\ Overlay(u, c, e) \in Seq(Bytes)
          /\ Len(Overlay(u, c, e)) = IF c + Len(e) <= Len(u) THEN Len(u) ELSE c + Len(e)
          /\ \A k \in 1..Len(Overlay(u, c, e)) :
               Overlay(u, c, e)[k] = IF c < k /\ k <= c + Len(e) THEN e[k - c] ELSE u[k]
      BY <2>2, Overlaid
    <2>4. v = Overlay(u, c, e) /\ n = Len(e)
      BY <1>1, <2>1
    <2>5. /\ v \in Seq(Bytes) /\ Len(v) = IF c + n <= Len(u) THEN Len(u) ELSE c + n
          /\ \A k \in 1..Len(v) : v[k] = IF c < k /\ k <= c + n THEN e[k - c] ELSE u[k]
      BY <2>3, <2>4, Zenon
    <2> QED BY <2>1, <2>5, Zenon
  <1>7. /\ x \in Seq(Bytes) /\ Len(x) = IF at + (m + n) <= l THEN l ELSE at + (m + n)
        /\ \A k \in 1..Len(x) :
             x[k] = IF at < k /\ k <= at + (m + n) THEN w[k - at] ELSE s[k]
    <2>1. /\ x \in Seq(Bytes) /\ Len(x) = IF at + Len(w) <= Len(s) THEN Len(s) ELSE at + Len(w)
          /\ \A k \in 1..Len(x) :
               x[k] = IF at < k /\ k <= at + Len(w) THEN w[k - at] ELSE s[k]
      <3>1. w \in Seq(Bytes) /\ x = Overlay(s, at, w)
        BY <1>1, <1>4
      <3> QED BY <3>1, Overlaid
    <2> QED BY <1>1, <1>4, <2>1
  <1>8. Len(v) = Len(x)
    BY <1>2, <1>3, <1>6, <1>7
  <1>9. ASSUME NEW k \in 1..Len(v) PROVE v[k] = x[k]
    <2>1. k \in Nat /\ 1 <= k /\ k \in 1..Len(x)
      BY <1>6, <1>8
    <2>2. CASE at + m < k /\ k <= at + m + n
      <3>1. /\ k - at \in (m + 1)..(m + n) /\ (k - at) - m = k - (at + m)
            /\ at < k /\ k <= at + (m + n)
        BY <1>2, <2>1, <2>2
      <3> QED BY <1>4, <1>6, <1>7, <2>1, <2>2, <3>1
    <2>3. CASE at < k /\ k <= at + m
      <3>1. /\ k - at \in 1..m /\ k <= at + (m + n) /\ ~ (at + m < k) /\ k \in 1..Len(u)
        BY <1>2, <1>3, <2>1, <2>3
      <3> QED BY <1>3, <1>4, <1>6, <1>7, <2>1, <2>3, <3>1
    <2>4. CASE k <= at \/ at + m + n < k
      <3>1. /\ ~ (at < k /\ k <= at + (m + n)) /\ ~ (at + m < k /\ k <= at + m + n)
            /\ ~ (at < k /\ k <= at + m) /\ k \in 1..Len(u)
        <4>1. PICK y, z : y = Len(u) /\ z = Len(v)
          OBVIOUS
        <4>2. /\ y = (IF at + m <= l THEN l ELSE at + m) /\ z = IF at + m + n <= y THEN y ELSE at + m + n
              /\ k <= z
          BY <1>3, <1>6, <4>1
        <4>3. k <= y
          BY <1>2, <2>1, <2>4, <4>2
        <4> QED BY <1>2, <2>1, <2>4, <4>1, <4>2, <4>3
      <3> QED BY <1>3, <1>6, <1>7, <2>1, <3>1
    <2> QED BY <1>2, <2>1, <2>2, <2>3, <2>4
  <1>10. v = x
    BY <1>6, <1>7, <1>8, <1>9, SeqEqual
  <1> QED BY <1>1, <1>5, <1>10

(* Bytes written in front, and then what was there written after them. *)
LEMMA OverlayFront ==
    ASSUME NEW s \in Seq(Bytes), NEW d \in Seq(Bytes)
    PROVE  /\ Len(d) \in 0..Len(Overlay(s, 0, d))
           /\ Overlay(Overlay(s, 0, d), Len(d), s) = d \o s
  <1>1. PICK l, m, w, x : l = Len(s) /\ m = Len(d) /\ w = d \o s /\ x = Overlay(s, 0, w)
    OBVIOUS
  <1>2. l \in Nat /\ m \in Nat /\ 0 \in 0..Len(s) /\ 0 + m = m
    BY <1>1
  <1>3. /\ 0 + Len(d) \in 0..Len(Overlay(s, 0, d))
        /\ Overlay(Overlay(s, 0, d), 0 + Len(d), s) = x
    BY <1>1, <1>2, OverlayTwice
  <1>4. w \in Seq(Bytes) /\ Len(w) = m + l
    BY <1>1, Joined
  <1>5. /\ x \in Seq(Bytes) /\ Len(x) = IF 0 + (m + l) <= l THEN l ELSE 0 + (m + l)
        /\ \A k \in 1..Len(x) : x[k] = IF 0 < k /\ k <= 0 + (m + l) THEN w[k - 0] ELSE s[k]
    <2>1. /\ x \in Seq(Bytes) /\ Len(x) = IF 0 + Len(w) <= Len(s) THEN Len(s) ELSE 0 + Len(w)
          /\ \A k \in 1..Len(x) : x[k] = IF 0 < k /\ k <= 0 + Len(w) THEN w[k - 0] ELSE s[k]
      <3>1. PICK at : at = 0
        OBVIOUS
      <3>2. w \in Seq(Bytes) /\ x = Overlay(s, at, w) /\ at \in 0..Len(s)
        BY <1>1, <1>2, <1>4, <3>1
      <3>3. /\ x \in Seq(Bytes) /\ Len(x) = IF at + Len(w) <= Len(s) THEN Len(s) ELSE at + Len(w)
            /\ \A k \in 1..Len(x) :
                 x[k] = IF at < k /\ k <= at + Len(w) THEN w[k - at] ELSE s[k]
        BY <3>2, Overlaid
      <3> QED BY <3>1, <3>3
    <2> QED BY <1>1, <1>4, <2>1
  <1>6. Len(x) = m + l
    BY <1>2, <1>5
  <1>7. ASSUME NEW k \in 1..Len(x) PROVE x[k] = w[k]
    <2>1. 0 < k /\ k <= 0 + (m + l) /\ k - 0 = k
      BY <1>2, <1>6
    <2> QED BY <1>5, <2>1
  <1>8. x = w
    BY <1>4, <1>5, <1>6, <1>7, <1>2, SeqEqual
  <1> QED BY <1>1, <1>2, <1>3, <1>8

(* How often a byte is in two strings together. *)
Places(b, s) == {k \in 1..Len(s) : s[k] = b}

(* A byte is at finitely many places of a string. *)
LEMMA PlacesFinite ==
    ASSUME NEW b, NEW s \in Seq(Bytes)
    PROVE  /\ IsFiniteSet(Places(b, s)) /\ Cardinality(Places(b, s)) \in Nat
           /\ Places(b, s) \subseteq 1..Len(s)
  <1>1. Len(s) \in Int /\ 1 \in Int
    OBVIOUS
  <1>2. IsFiniteSet(1..Len(s))
    BY <1>1, FS_Interval
  <1>3. Places(b, s) \subseteq 1..Len(s)
    BY DEF Places
  <1>4. IsFiniteSet(Places(b, s))
    BY <1>2, <1>3, FS_Subset
  <1> QED BY <1>3, <1>4, FS_CardinalityType

(* A byte is in two strings together as often as in the one and the other. *)
LEMMA CountTogether ==
    ASSUME NEW b, NEW s \in Seq(Bytes), NEW t \in Seq(Bytes)
    PROVE  /\ Count(b, s \o t) = Count(b, s) + Count(b, t)
           /\ Count(b, s) \in Nat /\ Count(b, t) \in Nat
  <1>1. PICK l, m, w : l = Len(s) /\ m = Len(t) /\ w = s \o t
    OBVIOUS
  <1>2. l \in Nat /\ m \in Nat
    BY <1>1
  <1>3. /\ w \in Seq(Bytes) /\ Len(w) = l + m
        /\ \A k \in 1..l : w[k] = s[k]
        /\ \A k \in 1..m : w[l + k] = t[k]
        /\ \A k \in (l + 1)..(l + m) : w[k] = t[k - l]
    <2>1. /\ w \in Seq(Bytes) /\ Len(w) = Len(s) + Len(t)
          /\ \A k \in 1..Len(s) : w[k] = s[k]
          /\ \A k \in 1..Len(t) : w[Len(s) + k] = t[k]
          /\ \A k \in (Len(s) + 1)..(Len(s) + Len(t)) : w[k] = t[k - Len(s)]
      BY <1>1, Joined
    <2> QED BY <1>1, <2>1
  <1> DEFINE A == Places(b, s)
             B == Places(b, t)
             C == {l + k : k \in B}
             f == [k \in B |-> l + k]
  <1>4. /\ A \subseteq 1..l /\ B \subseteq 1..m /\ IsFiniteSet(A) /\ IsFiniteSet(B)
        /\ Cardinality(A) \in Nat /\ Cardinality(B) \in Nat
    BY <1>1, PlacesFinite
  <1>5. f \in Bijection(B, C)
    <2>1. f \in [B -> C] /\ \A x \in C : \E k \in B : f[k] = x
      OBVIOUS
    <2>2. \A j, k \in B : f[j] = f[k] => j = k
      BY <1>2, <1>4
    <2> HIDE DEF f, C, B
    <2> QED BY <2>1, <2>2 DEF Bijection, Injection, Surjection, IsInjective
  <1>6. IsFiniteSet(C) /\ Cardinality(C) = Cardinality(B)
    BY <1>4, <1>5, FS_Bijection DEF ExistsBijection
  <1>7. A \intersect C = {}
    BY <1>2, <1>4
  <1>8. Places(b, w) = A \union C
    <2>1. ASSUME NEW k \in Places(b, w) PROVE k \in A \union C
      <3>1. k \in 1..(l + m) /\ w[k] = b
        BY <1>3, <2>1 DEF Places
      <3>2. CASE k <= l
        <4>1. k \in 1..l
          BY <1>2, <3>1, <3>2
        <4> QED BY <1>1, <1>3, <3>1, <4>1 DEF Places
      <3>3. CASE l < k
        <4>1. k \in (l + 1)..(l + m) /\ k - l \in 1..m /\ l + (k - l) = k
          BY <1>2, <3>1, <3>3
        <4>2. k - l \in B
          BY <1>1, <1>3, <3>1, <4>1 DEF Places
        <4> QED BY <4>1, <4>2
      <3> QED BY <1>2, <3>1, <3>2, <3>3
    <2>2. ASSUME NEW k \in A PROVE k \in Places(b, w)
      <3>1. k \in 1..l /\ s[k] = b
        BY <1>1, <2>2 DEF Places
      <3>2. k \in 1..(l + m)
        BY <1>2, <3>1
      <3> QED BY <1>3, <3>1, <3>2 DEF Places
    <2>3. ASSUME NEW j \in B PROVE l + j \in Places(b, w)
      <3>1. j \in 1..m /\ t[j] = b
        BY <1>1, <2>3 DEF Places
      <3>2. l + j \in 1..(l + m)
        BY <1>2, <3>1
      <3> QED BY <1>3, <3>1, <3>2 DEF Places
    <2> QED BY <2>1, <2>2, <2>3
  <1> HIDE DEF A, B, C
  <1>9. Cardinality(A \union C) = Cardinality(A) + Cardinality(B)
    <2>1. Cardinality(A \union C) = Cardinality(A) + Cardinality(C) - Cardinality(A \intersect C)
      BY <1>4, <1>6, FS_Union
    <2>2. Cardinality(A \intersect C) = 0
      BY <1>7, FS_EmptySet
    <2> QED BY <1>4, <1>6, <2>1, <2>2
  <1>10. Count(b, s) = Cardinality(A) /\ Count(b, t) = Cardinality(B)
         /\ Count(b, w) = Cardinality(Places(b, w))
    BY DEF Count, Places, A, B
  <1> QED BY <1>1, <1>4, <1>8, <1>9, <1>10

(* A string is its pieces. *)
LEMMA TwoPieces ==
    ASSUME NEW s \in Seq(Bytes), NEW n \in 0..Len(s)
    PROVE  First(s, n) \o From(s, n) = s
  <1>1. PICK l, f, g, w : l = Len(s) /\ f = First(s, n) /\ g = From(s, n) /\ w = f \o g
    OBVIOUS
  <1>2. l \in Nat /\ n \in Nat /\ n <= l
    BY <1>1
  <1>3. /\ f \in Seq(Bytes) /\ Len(f) = n /\ \A k \in 1..n : f[k] = s[k]
        /\ g \in Seq(Bytes) /\ Len(g) = l - n /\ \A k \in 1..(l - n) : g[k] = s[n + k]
    BY <1>1, Pieces
  <1>4. /\ w \in Seq(Bytes) /\ Len(w) = Len(f) + Len(g)
        /\ \A k \in 1..Len(f) : w[k] = f[k]
        /\ \A k \in (Len(f) + 1)..(Len(f) + Len(g)) : w[k] = g[k - Len(f)]
    BY <1>1, <1>3, Joined
  <1>5. Len(w) = l
    BY <1>2, <1>3, <1>4
  <1>6. ASSUME NEW k \in 1..l PROVE w[k] = s[k]
    <2>1. CASE k <= n
      <3>1. k \in 1..n
        BY <1>2, <2>1
      <3> QED BY <1>3, <1>4, <3>1
    <2>2. CASE n < k
      <3>1. k \in (n + 1)..(n + (l - n)) /\ k - n \in 1..(l - n) /\ n + (k - n) = k
        BY <1>2, <2>2
      <3> QED BY <1>3, <1>4, <3>1
    <2> QED BY <1>2, <2>1, <2>2
  <1>7. w = s
    BY <1>1, <1>4, <1>5, <1>6, SeqEqual
  <1> QED BY <1>1, <1>7

(* What is behind two strings is behind the second. *)
LEMMA FromJoined ==
    ASSUME NEW s \in Seq(Bytes), NEW t \in Seq(Bytes), NEW n \in Nat, NEW p \in 0..Len(t),
           n = Len(s) + p
    PROVE  From(s \o t, n) = From(t, p)
  <1>1. PICK l, m, w, f, g : /\ l = Len(s) /\ m = Len(t) /\ w = s \o t
                             /\ f = From(w, n) /\ g = From(t, p)
    OBVIOUS
  <1>2. l \in Nat /\ m \in Nat /\ p \in Nat /\ p <= m /\ n = l + p
    BY <1>1
  <1>3. /\ w \in Seq(Bytes) /\ Len(w) = l + m
        /\ \A k \in 1..m : w[l + k] = t[k]
    BY <1>1, Joined
  <1>4. g \in Seq(Bytes) /\ Len(g) = m - p /\ \A k \in 1..(m - p) : g[k] = t[p + k]
    BY <1>1, Pieces
  <1>5. /\ f \in Seq(Bytes) /\ Len(f) = Len(w) - n
        /\ \A k \in 1..(Len(w) - n) : f[k] = w[n + k]
    <2>1. n \in 0..Len(w)
      BY <1>2, <1>3
    <2> QED BY <1>1, <1>3, <2>1, Pieces
  <1>6. Len(w) - n = m - p
    <2>1. (l + m) - n = m - p
      BY <1>2
    <2> QED BY <1>3, <2>1
  <1>7. ASSUME NEW k \in 1..(m - p) PROVE f[k] = g[k]
    <2>1. n + k = l + (p + k) /\ p + k \in 1..m
      BY <1>2
    <2> QED BY <1>3, <1>4, <1>5, <1>6, <2>1
  <1>8. f = g
    BY <1>4, <1>5, <1>6, <1>7, SeqEqual
  <1> QED BY <1>1, <1>8

(* v is s with the bytes of d added somewhere before what follows p. *)
Grown(v, s, d, p) ==
    /\ v \in Seq(Bytes) /\ Len(v) = Len(s) + Len(d)
    /\ From(v, p + Len(d)) = From(s, p)
    /\ \A b \in Bytes : /\ Count(b, v) = Count(b, s) + Count(b, d)
                       /\ Count(b, s) \in Nat /\ Count(b, d) \in Nat

(* Bytes that are put into a string at a place. *)
LEMMA Inserted ==
    ASSUME NEW s \in Seq(Bytes), NEW d \in Seq(Bytes), NEW p \in 0..Len(s),
           NEW v, v = First(s, p) \o d \o From(s, p)
    PROVE  Grown(v, s, d, p)
  <1>1. PICK l, m, f, g, u : /\ l = Len(s) /\ m = Len(d) /\ f = First(s, p) /\ g = From(s, p)
                             /\ u = f \o d
    OBVIOUS
  <1>2. l \in Nat /\ m \in Nat /\ p \in Nat /\ p <= l
    BY <1>1
  <1>3. f \in Seq(Bytes) /\ Len(f) = p /\ g \in Seq(Bytes) /\ Len(g) = l - p
    BY <1>1, Pieces
  <1>4. u \in Seq(Bytes) /\ Len(u) = p + m
    <2>1. u \in Seq(Bytes) /\ Len(u) = Len(f) + Len(d)
      <3>1. u = f \o d
        BY <1>1
      <3> QED BY <1>3, <3>1, Joined
    <2> QED BY <1>1, <1>3, <2>1
  <1>5. v = u \o g
    BY <1>1
  <1>6. v \in Seq(Bytes) /\ Len(v) = l + m
    <2>1. v \in Seq(Bytes) /\ Len(v) = Len(u) + Len(g)
      BY <1>3, <1>4, <1>5, Joined
    <2> QED BY <1>2, <1>3, <1>4, <2>1
  <1>7. From(v, p + m) = g
    <2>1. From(u \o g, p + m) = From(g, 0)
      <3>1. p + m \in Nat /\ 0 \in 0..Len(g) /\ p + m = Len(u) + 0
        BY <1>2, <1>3, <1>4
      <3> QED BY <1>3, <1>4, <3>1, FromJoined
    <2>2. From(g, 0) = g
      BY <1>3, SubSeqFull DEF From
    <2> QED BY <1>5, <2>1, <2>2
  <1>8. ASSUME NEW b
        PROVE  /\ Count(b, v) = Count(b, s) + Count(b, d)
               /\ Count(b, s) \in Nat /\ Count(b, d) \in Nat
    <2>1. s = f \o g
      BY <1>1, TwoPieces
    <2>2. Count(b, v) = Count(b, u) + Count(b, g) /\ Count(b, u) \in Nat /\ Count(b, g) \in Nat
      BY <1>3, <1>4, <1>5, CountTogether
    <2>3. Count(b, u) = Count(b, f) + Count(b, d) /\ Count(b, f) \in Nat /\ Count(b, d) \in Nat
      BY <1>1, <1>3, CountTogether
    <2>4. Count(b, s) = Count(b, f) + Count(b, g)
      BY <1>3, <2>1, CountTogether
    <2> QED BY <2>2, <2>3, <2>4
  <1> QED BY <1>1, <1>6, <1>7, <1>8 DEF Grown

(* Bytes that are added to the ones w in front of o. *)
LEMMA AddedInFront ==
    ASSUME NEW w \in Seq(Bytes), NEW d \in Seq(Bytes), NEW o \in Seq(Bytes),
           NEW p \in Nat, Len(w) <= p, p <= Len(w \o o),
           NEW v, v = (w \o d) \o o
    PROVE  Grown(v, w \o o, d, p)
  <1>1. PICK l, m, n, u, x : /\ l = Len(w) /\ m = Len(d) /\ n = Len(o)
                             /\ u = w \o d /\ x = w \o o
    OBVIOUS
  <1>2. l \in Nat /\ m \in Nat /\ n \in Nat
    BY <1>1
  <1>3. u \in Seq(Bytes) /\ Len(u) = l + m /\ x \in Seq(Bytes) /\ Len(x) = l + n
    BY <1>1, Joined
  <1>4. v = u \o o
    BY <1>1
  <1>5. v \in Seq(Bytes) /\ Len(v) = Len(u) + n
    BY <1>1, <1>3, <1>4, Joined
  <1>6. p - l \in 0..n /\ p = l + (p - l) /\ p + m = Len(u) + (p - l) /\ p + m \in Nat
    BY <1>1, <1>2, <1>3
  <1>7. From(v, p + m) = From(x, p)
    <2>1. From(u \o o, p + m) = From(o, p - l)
      <3>1. u \in Seq(Bytes) /\ p + m \in Nat /\ p - l \in 0..Len(o) /\ p + m = Len(u) + (p - l)
        BY <1>1, <1>3, <1>6
      <3> QED BY <3>1, FromJoined
    <2>2. From(w \o o, p) = From(o, p - l)
      BY <1>1, <1>6, FromJoined
    <2> QED BY <1>1, <1>4, <2>1, <2>2
  <1>8. ASSUME NEW b
        PROVE  /\ Count(b, v) = Count(b, x) + Count(b, d)
               /\ Count(b, x) \in Nat /\ Count(b, d) \in Nat
    <2>1. Count(b, v) = Count(b, u) + Count(b, o) /\ Count(b, u) \in Nat /\ Count(b, o) \in Nat
      BY <1>3, <1>4, CountTogether
    <2>2. Count(b, u) = Count(b, w) + Count(b, d) /\ Count(b, w) \in Nat /\ Count(b, d) \in Nat
      BY <1>1, CountTogether
    <2>3. Count(b, x) = Count(b, w) + Count(b, o)
      BY <1>1, CountTogether
    <2> QED BY <2>1, <2>2, <2>3
  <1>9. Len(v) = Len(x) + m
    BY <1>2, <1>3, <1>5
  <1> QED BY <1>1, <1>5, <1>7, <1>8, <1>9 DEF Grown

(* The bytes of r from i to j. *)
Piece(r, i, j) == SubSeq(r, i + 1, j)

IsPiece(s, r, i, j) ==
    s \in Seq(Bytes) /\ Len(s) = j - i /\ \A k \in 1..(j - i) : s[k] = r[i + k]

(* A piece of a string: length and bytes. *)
LEMMA PieceIs ==
    ASSUME NEW r \in Seq(Bytes), NEW i \in Nat, NEW j \in Nat, i <= j, j <= Len(r)
    PROVE  IsPiece(Piece(r, i, j), r, i, j)
  <1>0. PICK s : s = Piece(r, i, j)
    OBVIOUS
  <1>1. i + 1 \in Int /\ j \in Int /\ \A k \in (i + 1)..j : r[k] \in Bytes
    OBVIOUS
  <1>2. /\ s \in Seq(Bytes) /\ Len(s) = IF i + 1 <= j THEN j - (i + 1) + 1 ELSE 0
        /\ \A k \in 1..(j - (i + 1) + 1) : s[k] = r[(i + 1) + k - 1]
    BY <1>0, <1>1, SubSeqProperties DEF Piece
  <1>3. j - (i + 1) + 1 = j - i /\ \A k \in 1..(j - i) : (i + 1) + k - 1 = i + k
    OBVIOUS
  <1>4. Len(s) = j - i
    BY <1>2
  <1> QED BY <1>0, <1>2, <1>3, <1>4 DEF IsPiece

(* p is the position of a reader who has had the bytes from a, and has     *)
(* those up to q in its buffer: it takes n of them.                        *)
ReadsOn(r, a, p, q, n) ==
    /\ Piece(r, p, q) \in Seq(Bytes) /\ Len(Piece(r, p, q)) = q - p
    /\ From(Piece(r, p, q), n) = Piece(r, p + n, q)
    /\ Piece(r, a, p) \o First(Piece(r, p, q), n) = Piece(r, a, p + n)
    /\ Piece(r, a, p) \o Piece(r, p, q) = Piece(r, a, q)

(* Reading on: what is left in the buffer, and what has been delivered. *)
LEMMA ReadOn ==
    ASSUME NEW r \in Seq(Bytes), NEW p \in Nat, NEW q \in Nat, NEW a \in Nat,
           a <= p, p <= q, q <= Len(r), NEW n \in 0..(q - p)
    PROVE  ReadsOn(r, a, p, q, n)
  <1>0. PICK b, o, e, u, x : /\ b = Piece(r, p, q) /\ o = Piece(r, a, p) /\ e = Piece(r, p + n, q)
                             /\ u = Piece(r, a, p + n) /\ x = Piece(r, a, q)
    OBVIOUS
  <1>1. /\ b \in Seq(Bytes) /\ Len(b) = q - p /\ \A k \in 1..(q - p) : b[k] = r[p + k]
        /\ o \in Seq(Bytes) /\ Len(o) = p - a /\ \A k \in 1..(p - a) : o[k] = r[a + k]
    <2>1. p <= Len(r) /\ Len(r) \in Nat
      OBVIOUS
    <2>2. IsPiece(b, r, p, q) /\ IsPiece(o, r, a, p)
      BY <1>0, <2>1, PieceIs
    <2> QED BY <2>2 DEF IsPiece
  <1>2. PICK c, d : c = From(b, n) /\ d = First(b, n)
    OBVIOUS
  <1>3. /\ n \in Nat /\ n <= q - p /\ p + n \in Nat /\ p + n <= q /\ a <= p + n
        /\ p + n <= Len(r) /\ n \in 0..Len(b)
    BY <1>1
  <1>4. /\ e \in Seq(Bytes) /\ Len(e) = q - (p + n) /\ \A k \in 1..(q - (p + n)) : e[k] = r[(p + n) + k]
        /\ u \in Seq(Bytes) /\ Len(u) = p + n - a /\ \A k \in 1..(p + n - a) : u[k] = r[a + k]
    <2>1. IsPiece(e, r, p + n, q) /\ IsPiece(u, r, a, p + n)
      BY <1>0, <1>3, PieceIs
    <2> QED BY <2>1 DEF IsPiece
  <1>5. /\ d \in Seq(Bytes) /\ Len(d) = n /\ \A k \in 1..n : d[k] = b[k]
        /\ c \in Seq(Bytes) /\ Len(c) = Len(b) - n /\ \A k \in 1..(Len(b) - n) : c[k] = b[n + k]
    BY <1>1, <1>2, <1>3, Pieces
  <1>6. c = e
    <2>1. Len(b) - n = q - (p + n)
      BY <1>1, <1>3
    <2>2. ASSUME NEW k \in 1..(q - (p + n)) PROVE c[k] = e[k]
      <3>1. n + k \in 1..(q - p) /\ p + (n + k) = (p + n) + k
        BY <1>3
      <3> QED BY <1>1, <1>4, <1>5, <2>1, <3>1
    <2> QED BY <1>4, <1>5, <2>1, <2>2, SeqEqual
  <1>7. ASSUME NEW m \in 0..(q - p), NEW s \in Seq(Bytes), Len(s) = m,
               \A k \in 1..m : s[k] = r[p + k],
               NEW y \in Seq(Bytes), Len(y) = p + m - a, \A k \in 1..(p + m - a) : y[k] = r[a + k]
        PROVE  o \o s = y
    <2>1. PICK w : w = o \o s
      OBVIOUS
    <2>2. /\ w \in Seq(Bytes) /\ Len(w) = Len(o) + Len(s)
          /\ \A k \in 1..Len(o) : w[k] = o[k]
          /\ \A k \in (Len(o) + 1)..(Len(o) + Len(s)) : w[k] = s[k - Len(o)]
      <3>1. o \in Seq(Bytes)
        BY <1>1
      <3>2. /\ o \o s \in Seq(Bytes) /\ Len(o \o s) = Len(o) + Len(s)
            /\ \A k \in 1..Len(o) : (o \o s)[k] = o[k]
            /\ \A k \in (Len(o) + 1)..(Len(o) + Len(s)) : (o \o s)[k] = s[k - Len(o)]
        BY <3>1, Joined
      <3> QED BY <2>1, <3>2, Zenon
    <2>3. Len(w) = p + m - a /\ m \in Nat
      BY <1>1, <1>7, <2>2
    <2>4. ASSUME NEW k \in 1..(p + m - a) PROVE w[k] = y[k]
      <3>1. CASE k <= p - a
        <4>1. k \in 1..(p - a)
          BY <3>1
        <4> QED BY <1>1, <1>7, <2>2, <4>1
      <3>2. CASE p - a < k
        <4>1. /\ k \in ((p - a) + 1)..((p - a) + m) /\ k - (p - a) \in 1..m
              /\ p + (k - (p - a)) = a + k
          BY <2>3, <3>2
        <4>2. w[k] = s[k - (p - a)]
          BY <1>1, <1>7, <2>2, <4>1
        <4> QED BY <1>7, <4>1, <4>2
      <3> QED BY <3>1, <3>2
    <2>5. w = y
      BY <1>7, <2>2, <2>3, <2>4, SeqEqual
    <2> QED BY <2>1, <2>5
  <1>8. o \o d = u
    <2>1. n \in 0..(q - p) /\ \A k \in 1..n : k \in 1..(q - p)
      BY <1>3
    <2>2. \A k \in 1..n : d[k] = r[p + k]
      BY <1>1, <1>5, <2>1
    <2> QED BY <1>4, <1>5, <1>7, <2>1, <2>2
  <1>9. o \o b = x
    <2>1. a <= q
      OBVIOUS
    <2>2. IsPiece(x, r, a, q)
      BY <1>0, <2>1, PieceIs
    <2>3. x \in Seq(Bytes) /\ Len(x) = q - a /\ \A k \in 1..(q - a) : x[k] = r[a + k]
      BY <2>2 DEF IsPiece
    <2>4. q - p \in 0..(q - p) /\ p + (q - p) - a = q - a
      OBVIOUS
    <2> QED BY <1>1, <1>7, <2>3, <2>4
  <1> QED BY <1>0, <1>1, <1>2, <1>6, <1>8, <1>9 DEF ReadsOn

-----------------------------------------------------------------------------
(***************************************************************************)
(* The inductive invariant of the buffered files, for programs that do not *)
(* write again once they have read.                                        *)
(***************************************************************************)
(* buffered_flush is under way. *)
Flushing == stmt \in {"flush", "prepend", "move_down"}

(* Where a call is, and what it has done. *)
Control ==
    /\ stmt = "closed" => /\ offset = 0 /\ pos = 0 /\ ref = file
                          /\ read_buffer = <<>> /\ write_buffer = <<>>
                          /\ ~ preappend /\ ~ torn /\ ~ reading
    /\ stmt = "copy" => caller = "write" /\ (errors \/ Len(write_buffer) < BUFFER_SIZE)
    /\ stmt = "fill" => caller = "read" /\ write_buffer = <<>>
    /\ stmt \in {"prepend", "move_down"} => preappend
    /\ stmt = "prepend" => temp_buf = file /\ offset = 0
    /\ stmt = "close_fd" /\ flush_result = 0 => write_buffer = <<>>
    /\ caller \in {"write", "read"} => ~ torn
    /\ caller = "write" => ~ reading
    /\ caller = "read" => reading
    /\ ~ reading => read_buffer = <<>>
    /\ stmt # "fill" => out = <<>>
    /\ Len(out) + want <= MaxCount
    /\ preappend => ~ flags.append

(* Without O_PREAPPEND: where the pending bytes go, and where the bytes    *)
(* read ahead, and those delivered, come from.                             *)
Placed ==
    ~ preappend /\ ~ torn =>
      /\ Overlay(file, At, write_buffer) = ref
      /\ write_buffer = <<>> => /\ pos + Len(read_buffer) = offset
                                /\ read_buffer = SubSeq(ref, pos + 1, offset)
      /\ write_buffer # <<>> => /\ pos = At + Len(write_buffer)
                                /\ read_buffer = <<>>

(* What buffered_read has delivered ends at the program's position. *)
Delivered ==
    ~ preappend /\ ~ torn /\ stmt = "fill" =>
      /\ Len(out) <= pos
      /\ out = SubSeq(ref, (pos - Len(out)) + 1, pos)

(* With O_PREAPPEND: what follows the pending bytes when the flush that is *)
(* under way is done.                                                      *)
Old == IF stmt = "move_down" THEN temp_buf ELSE file

(* The pending bytes and the old content make up the file that the program *)
(* means, but for the order of the bytes before its position.              *)
InFront ==
    preappend /\ ~ torn =>
      /\ Len(write_buffer) <= pos
      /\ Len(write_buffer \o Old) = Len(ref)
      /\ From(write_buffer \o Old, pos) = From(ref, pos)
      /\ \A b \in Bytes : Count(b, write_buffer \o Old) = Count(b, ref)
      /\ stmt = "move_down" => /\ offset = Len(write_buffer)
                               /\ file = Overlay(temp_buf, 0, write_buffer)

(* The invariant. *)
FileInv == FileTypeOK /\ Control /\ Placed /\ Delivered /\ InFront

(* The types, with the strings as sequences of bounded length. *)
Stmts == {"closed", "idle", "flush", "prepend", "move_down", "copy", "fill", "close_fd"}
Callers == {"none", "flush", "write", "read", "close", "close_again"}

Typed ==
    /\ file \in Seq(Bytes) /\ offset \in 0..Len(file)
    /\ flags \in [access : Access, append : BOOLEAN]
    /\ preappend \in BOOLEAN
    /\ read_buffer \in Seq(Bytes) /\ Len(read_buffer) <= BUFFER_SIZE
    /\ write_buffer \in Seq(Bytes) /\ Len(write_buffer) <= BUFFER_SIZE
    /\ stmt = "idle" /\ ~ errors => Len(write_buffer) < BUFFER_SIZE
    /\ stmt \in Stmts /\ caller \in Callers
    /\ data \in Seq(Bytes) /\ Len(data) <= MaxCount
    /\ want \in 0..MaxCount
    /\ out \in Seq(Bytes) /\ Len(out) <= MaxCount
    /\ temp_buf \in Seq(Bytes)
    /\ flush_result \in {0, -1}
    /\ ref \in Seq(Bytes) /\ pos \in 0..Len(ref)
    /\ torn \in BOOLEAN /\ errors \in BOOLEAN /\ reading \in BOOLEAN

(* FileTypeOK is Typed. *)
LEMMA TypesAre == FileTypeOK <=> Typed
  <1>1. BUFFER_SIZE \in Nat /\ MaxCount \in Nat
    BY FileAssumption
  <1>2. /\ \A s : s \in Strings(BUFFER_SIZE) <=> s \in Seq(Bytes) /\ Len(s) <= BUFFER_SIZE
        /\ \A s : s \in Strings(MaxCount) <=> s \in Seq(Bytes) /\ Len(s) <= MaxCount
    BY <1>1, StringsAre
  <1>3. {torn, errors, reading} \subseteq BOOLEAN
          <=> torn \in BOOLEAN /\ errors \in BOOLEAN /\ reading \in BOOLEAN
    OBVIOUS
  <1> QED BY <1>2, <1>3, Zenon DEF FileTypeOK, Typed, Stmts, Callers

(* The same in the next state. *)
LEMMA TypesAreNext == FileTypeOK' <=> Typed'
  BY TypesAre, PTL

(* The empty string, which is what every buffer starts with. *)
LEMMA EmptyString == <<>> \in Seq(Bytes) /\ Len(<<>>) = 0
  OBVIOUS

(* There are no bytes between a place and itself. *)
LEMMA NoBytes ==
    ASSUME NEW s \in Seq(Bytes), NEW p \in 0..Len(s)
    PROVE  SubSeq(s, p + 1, p) = <<>>
  BY SubSeqEmpty

(* At is in the file. *)
LEMMA AtFile ==
    ASSUME Typed
    PROVE  At \in 0..Len(file)
  BY DEF Typed, At

(* The same in the next state. *)
LEMMA AtFileNext == Typed' => At' \in 0..Len(file')
  BY DEF Typed, At

(* Before the first buffered_open the invariant holds. *)
LEMMA FileInvInit == FileInit => FileInv
  <1> SUFFICES ASSUME FileInit PROVE FileInv
    OBVIOUS
  <1>1. BUFFER_SIZE \in Nat \ {0} /\ MaxCount \in Nat
    BY FileAssumption
  <1>2. file \in Seq(Bytes) /\ Len(file) \in Nat
    BY <1>1, StringsAre DEF FileInit
  <1>3. Typed
    <2>1. flags \in [access : Access, append : BOOLEAN]
      BY DEF FileInit, Access
    <2>2. preappend \in BOOLEAN /\ torn \in BOOLEAN /\ errors \in BOOLEAN /\ reading \in BOOLEAN
      BY Zenon DEF FileInit
    <2>3. 0 \in 0..Len(file) /\ 0 \in 0..MaxCount /\ 0 <= BUFFER_SIZE /\ 0 < BUFFER_SIZE
          /\ 0 <= MaxCount
      BY <1>1, <1>2
    <2>4. stmt \in Stmts /\ caller \in Callers /\ flush_result \in {0, -1}
      BY DEF FileInit, Stmts, Callers
    <2>5. ref \in Seq(Bytes) /\ pos \in 0..Len(ref) /\ offset \in 0..Len(file)
      BY <1>2, <2>3 DEF FileInit
    <2>6. /\ read_buffer = <<>> /\ write_buffer = <<>> /\ data = <<>> /\ want = 0 /\ out = <<>>
          /\ temp_buf = <<>>
      BY DEF FileInit
    <2> QED BY <1>2, <2>1, <2>2, <2>3, <2>4, <2>5, <2>6, EmptyString DEF Typed
  <1>4. Control
    BY <1>1, EmptyString DEF FileInit, Control, Flushing
  <1>5. Placed
    <2>1. At \in 0..Len(file)
      BY <1>3, AtFile
    <2>2. Overlay(file, At, <<>>) = file
      BY <1>2, <2>1, OverlayNothing
    <2>3. SubSeq(file, 0 + 1, 0) = <<>>
      BY <1>2, NoBytes
    <2> QED BY <2>2, <2>3, EmptyString DEF FileInit, Placed
  <1>6. Delivered /\ InFront
    BY DEF FileInit, Delivered, InFront
  <1> QED BY <1>3, <1>4, <1>5, <1>6, TypesAre DEF FileInv

-----------------------------------------------------------------------------
(***************************************************************************)
(* What the steps of several actions have in common.                       *)
(***************************************************************************)
(* A step that touches neither file, buffers nor position keeps Placed. *)
LEMMA PlacedKept ==
    ASSUME Placed, UNCHANGED <<file, offset, flags, preappend, read_buffer, write_buffer, ref, pos>>,
           torn' => torn, torn => torn'
    PROVE  Placed'
  BY DEF Placed, At

(* A step that touches neither file, write buffer nor position, and is no  *)
(* part of the second write of a flush, keeps InFront.                     *)
LEMMA InFrontKept ==
    ASSUME InFront, UNCHANGED <<file, preappend, write_buffer, ref, pos>>,
           stmt # "move_down", stmt' # "move_down", torn => torn'
    PROVE  InFront'
  <1>1. Old' = Old
    BY DEF Old
  <1> QED BY <1>1 DEF InFront

(* A write of n bytes. *)
LEMMA Written ==
    ASSUME Typed, NEW d \in Seq(Bytes), NEW n \in 0..Len(d), SysWrite(d, n)
    PROVE  file' \in Seq(Bytes) /\ offset' \in 0..Len(file')
  <1>1. PICK f, at : f = First(d, n) /\ at = At
    OBVIOUS
  <1>2. at \in 0..Len(file) /\ file \in Seq(Bytes)
    BY <1>1, AtFile DEF Typed
  <1>3. f \in Seq(Bytes) /\ Len(f) = n
    BY <1>1, Pieces
  <1>4. /\ Overlay(file, at, f) \in Seq(Bytes)
        /\ Len(Overlay(file, at, f)) = IF at + Len(f) <= Len(file) THEN Len(file) ELSE at + Len(f)
    BY <1>2, <1>3, Overlaid
  <1>5. file' = Overlay(file, at, f) /\ offset' = at + n
    BY <1>1 DEF SysWrite
  <1> QED BY <1>2, <1>3, <1>4, <1>5

(* A write of the whole string. *)
LEMMA WrittenAll ==
    ASSUME Typed, NEW d \in Seq(Bytes), SysWrite(d, Len(d))
    PROVE  file' = Overlay(file, At, d) /\ offset' = At + Len(d)
  <1>1. First(d, Len(d)) = d
    BY SubSeqFull DEF First
  <1> QED BY <1>1 DEF SysWrite

(* buffered_flush returns to its caller. *)
LEMMA FlushEnds ==
    ASSUME Typed, Control, Flushing, NEW r \in {0, -1}, FlushReturn(r),
           r = 0 => write_buffer' = <<>> /\ (torn' => torn),
           write_buffer' \in {write_buffer, <<>>},
           file' \in Seq(Bytes), offset' \in 0..Len(file'), torn' \in BOOLEAN
    PROVE  Typed' /\ Control' /\ Delivered' /\ stmt' # "move_down" /\ ref' = ref /\ pos' = pos
  <1>0. BUFFER_SIZE \in Nat \ {0} /\ MaxCount \in Nat
    BY FileAssumption
  <1>1. /\ flags' = flags /\ preappend' = preappend /\ read_buffer' = read_buffer
        /\ ref' = ref /\ pos' = pos /\ reading' = reading /\ temp_buf' = <<>>
    BY DEF FlushReturn, meant
  <1>2. ToProgram(r) \/ ToWrite(r) \/ ToRead(r) \/ ToClose(r)
    BY DEF FlushReturn
  <1>3. write_buffer' \in Seq(Bytes) /\ Len(write_buffer') <= BUFFER_SIZE
    <2>1. write_buffer \in Seq(Bytes) /\ Len(write_buffer) <= BUFFER_SIZE
      BY DEF Typed
    <2>2. CASE write_buffer' = write_buffer
      BY <2>1, <2>2, Zenon
    <2>3. CASE write_buffer' = <<>>
      BY <1>0, <2>3, EmptyString
    <2> QED BY <2>2, <2>3
  <1>4. /\ stmt' \in {"idle", "copy", "fill", "flush", "close_fd"}
        /\ caller' \in Callers
        /\ data' \in Seq(Bytes) /\ Len(data') <= MaxCount
        /\ want' \in 0..MaxCount
        /\ out' = <<>>
        /\ flush_result' \in {0, -1}
        /\ Len(out') + want' <= MaxCount
    <2>1. out = <<>> /\ 0 <= MaxCount /\ 0 \in 0..MaxCount /\ 0 + 0 <= MaxCount
      BY <1>0 DEF Control, Flushing
    <2> QED BY <1>2, <2>1, EmptyString
          DEF Typed, Control, Callers, ToProgram, ToWrite, ToRead, ToClose, Return
  <1>5. errors' \in BOOLEAN
    BY <1>2, Zenon DEF Typed, ToProgram, ToWrite, ToRead, ToClose, Return
  <1>6. /\ stmt' = "copy" => r = 0 /\ caller' = "write" /\ caller = "write"
        /\ stmt' = "fill" => r = 0 /\ caller' = "read" /\ caller = "read"
        /\ stmt' = "idle" => caller' = "none"
        /\ stmt' = "idle" /\ ~ errors' => r = 0
        /\ stmt' = "close_fd" => flush_result' = r /\ caller' \in {"close", "close_again"}
        /\ stmt' = "flush" => caller' = "close_again"
    BY <1>2 DEF ToProgram, ToWrite, ToRead, ToClose, Return
  <1>7. r = 0 => write_buffer' = <<>> /\ Len(write_buffer') < BUFFER_SIZE
    BY <1>0, EmptyString
  <1>8. Typed'
    <2>1. stmt' \in Stmts
      BY <1>4 DEF Stmts
    <2>2. out' \in Seq(Bytes) /\ temp_buf' \in Seq(Bytes) /\ Len(out') <= MaxCount
      BY <1>0, <1>1, <1>4, EmptyString
    <2>3. stmt' = "idle" /\ ~ errors' => Len(write_buffer') < BUFFER_SIZE
      BY <1>6, <1>7
    <2> QED BY <1>1, <1>3, <1>4, <1>5, <2>1, <2>2, <2>3 DEF Typed
  <1>9. Control'
    <2>1. stmt' \notin {"closed", "prepend", "move_down"}
      BY <1>4
    <2>2. stmt' = "copy" => caller' = "write" /\ (errors' \/ Len(write_buffer') < BUFFER_SIZE)
      BY <1>6, <1>7
    <2>3. stmt' = "fill" => caller' = "read" /\ write_buffer' = <<>>
      BY <1>6, <1>7
    <2>4. stmt' = "close_fd" /\ flush_result' = 0 => write_buffer' = <<>>
      BY <1>6, <1>7
    <2>5. /\ caller' \in {"write", "read"} => ~ torn'
          /\ caller' = "write" => ~ reading'
          /\ caller' = "read" => reading'
      BY <1>1, <1>4, <1>6, <1>7 DEF Control
    <2>6. (~ reading' => read_buffer' = <<>>) /\ (preappend' => ~ flags'.append)
      BY <1>1 DEF Control
    <2> QED BY <1>4, <2>1, <2>2, <2>3, <2>4, <2>5, <2>6 DEF Control
  <1>10. Delivered'
    <2>1. pos \in 0..Len(ref) /\ ref \in Seq(Bytes)
      BY DEF Typed
    <2>2. (pos - 0) + 1 = pos + 1 /\ 0 <= pos
      BY <2>1
    <2>3. SubSeq(ref, pos + 1, pos) = <<>>
      BY <2>1, NoBytes
    <2> QED BY <1>1, <1>4, <2>2, <2>3, EmptyString DEF Delivered
  <1> QED BY <1>1, <1>4, <1>8, <1>9, <1>10

-----------------------------------------------------------------------------
(***************************************************************************)
(* The steps of buffered_flush.                                            *)
(***************************************************************************)
(* A flush that wrote nothing leaves everything as it was. *)
LEMMA FlushFails ==
    ASSUME Typed, Control, Flushing, NotFlushed, Placed \/ preappend, InFront,
           file' = file, offset' \in 0..Len(file), preappend \/ offset' = offset,
           stmt # "move_down", torn' = torn
    PROVE  Typed' /\ Control' /\ Delivered' /\ Placed' /\ InFront'
  <1>1. write_buffer' = write_buffer /\ FlushReturn(-1)
    BY DEF NotFlushed
  <1>2. file' \in Seq(Bytes) /\ offset' \in 0..Len(file') /\ torn' \in BOOLEAN
    BY DEF Typed
  <1>3. Typed' /\ Control' /\ Delivered' /\ stmt' # "move_down" /\ ref' = ref /\ pos' = pos
    BY <1>1, <1>2, FlushEnds
  <1>4. flags' = flags /\ preappend' = preappend /\ read_buffer' = read_buffer
    BY <1>1 DEF FlushReturn
  <1>5. InFront'
    BY <1>1, <1>3, <1>4, InFrontKept
  <1>6. Placed'
    <2>1. CASE preappend
      BY <1>4, <2>1 DEF Placed
    <2>2. CASE ~ preappend
      BY <1>1, <1>3, <1>4, <2>2, PlacedKept
    <2> QED BY <2>1, <2>2
  <1> QED BY <1>3, <1>5, <1>6

(* A write that stopped short. *)
LEMMA FlushShort ==
    ASSUME Typed, Control, Flushing, NotFlushed, torn' = TRUE, NEW d \in Seq(Bytes),
           SysWriteShort(d) \/ UNCHANGED kernel
    PROVE  Typed' /\ Control' /\ Delivered' /\ Placed' /\ InFront'
  <1>1. write_buffer' = write_buffer /\ FlushReturn(-1)
    BY DEF NotFlushed
  <1>2. file' \in Seq(Bytes) /\ offset' \in 0..Len(file')
    <2>1. CASE UNCHANGED kernel
      BY <2>1 DEF Typed, kernel
    <2>2. CASE SysWriteShort(d)
      <3>1. PICK n \in 1..(Len(d) - 1) : SysWrite(d, n)
        BY <2>2 DEF SysWriteShort
      <3>2. n \in 0..Len(d)
        OBVIOUS
      <3> QED BY <3>1, <3>2, Written
    <2> QED BY <2>1, <2>2
  <1>3. Typed' /\ Control' /\ Delivered'
    BY <1>1, <1>2, FlushEnds
  <1> QED BY <1>3 DEF Placed, InFront

(* A flush that wrote everything. *)
LEMMA FlushDone ==
    ASSUME Typed, Control, Flushing, Flushed, file' \in Seq(Bytes), offset' \in 0..Len(file')
    PROVE  /\ Typed' /\ Control' /\ Delivered' /\ stmt' # "move_down"
           /\ UNCHANGED <<flags, preappend, read_buffer, ref, pos, torn>> /\ write_buffer' = <<>>
  <1>1. write_buffer' = <<>> /\ FlushReturn(0) /\ torn' = torn
    BY DEF Flushed
  <1>2. torn' \in BOOLEAN
    BY <1>1, Zenon DEF Typed
  <1>3. Typed' /\ Control' /\ Delivered' /\ stmt' # "move_down" /\ ref' = ref /\ pos' = pos
    BY <1>1, <1>2, FlushEnds
  <1>4. flags' = flags /\ preappend' = preappend /\ read_buffer' = read_buffer
    BY <1>1 DEF FlushReturn
  <1> QED BY <1>1, <1>3, <1>4

(* buffered_flush with nothing to write. *)
LEMMA FlushEmptyStep ==
    ASSUME FileInv, FlushEmpty
    PROVE  FileInv'
  <1>1. Typed /\ Control /\ Placed /\ InFront
    BY TypesAre DEF FileInv
  <1>2. /\ stmt = "flush" /\ write_buffer = <<>> /\ FlushReturn(0)
        /\ file' = file /\ offset' = offset /\ write_buffer' = write_buffer /\ torn' = torn
    BY DEF FlushEmpty, kernel
  <1>3. file' \in Seq(Bytes) /\ offset' \in 0..Len(file')
    BY <1>1, <1>2 DEF Typed
  <1>4. Flushing /\ Flushed /\ stmt # "move_down"
    BY <1>2 DEF Flushing, Flushed
  <1>5. /\ Typed' /\ Control' /\ Delivered' /\ stmt' # "move_down"
        /\ UNCHANGED <<flags, preappend, read_buffer, ref, pos, torn>> /\ write_buffer' = <<>>
    BY <1>1, <1>3, <1>4, FlushDone
  <1>6. Placed' /\ InFront'
    BY <1>1, <1>2, <1>4, <1>5, PlacedKept, InFrontKept
  <1> QED BY <1>5, <1>6, TypesAreNext DEF FileInv

(* buffered_flush without O_PREAPPEND: the write succeeds, stops short or  *)
(* fails.                                                                  *)
LEMMA FlushWriteStep ==
    ASSUME FileInv, FlushWrite
    PROVE  FileInv'
  <1>1. Typed /\ Control /\ Placed /\ InFront
    BY TypesAre DEF FileInv
  <1>2. stmt = "flush" /\ write_buffer # <<>> /\ ~ preappend /\ write_buffer \in Seq(Bytes)
    BY <1>1 DEF FlushWrite, Typed
  <1>3. Flushing /\ stmt # "move_down"
    BY <1>2 DEF Flushing
  <1>4. CASE SysWrite(write_buffer, Len(write_buffer)) /\ Flushed
    <2>1. file' = Overlay(file, At, write_buffer) /\ offset' = At + Len(write_buffer)
      BY <1>1, <1>2, <1>4, WrittenAll
    <2>2. Len(write_buffer) \in 0..Len(write_buffer)
      BY <1>2
    <2>3. file' \in Seq(Bytes) /\ offset' \in 0..Len(file')
      BY <1>1, <1>2, <1>4, <2>2, Written
    <2>4. /\ Typed' /\ Control' /\ Delivered' /\ stmt' # "move_down"
          /\ UNCHANGED <<flags, preappend, read_buffer, ref, pos, torn>> /\ write_buffer' = <<>>
      BY <1>1, <1>3, <1>4, <2>3, FlushDone
    <2>5. InFront'
      BY <1>2, <2>4 DEF InFront
    <2>6. ASSUME ~ torn PROVE Placed'
      <3>1. file' = ref /\ offset' = pos /\ read_buffer = <<>>
        BY <1>1, <1>2, <2>1, <2>6 DEF Placed
      <3>2. At' \in 0..Len(file')
        BY <2>4, AtFileNext
      <3>3. Overlay(file', At', <<>>) = file'
        BY <2>3, <3>2, OverlayNothing
      <3>4. SubSeq(ref, pos + 1, pos) = <<>> /\ pos \in Nat
        <4>1. ref \in Seq(Bytes) /\ pos \in 0..Len(ref)
          BY <1>1 DEF Typed
        <4> QED BY <4>1, NoBytes
      <3>5. pos + Len(read_buffer) = pos
        BY <3>1, <3>4, EmptyString
      <3> QED BY <2>4, <3>1, <3>3, <3>4, <3>5 DEF Placed
    <2>7. ASSUME torn PROVE Placed'
      BY <2>4, <2>7 DEF Placed
    <2> QED BY <2>4, <2>5, <2>6, <2>7, TypesAreNext DEF FileInv
  <1>5. CASE SysWriteShort(write_buffer) /\ NotFlushed /\ torn' = TRUE
    <2>1. Typed' /\ Control' /\ Delivered' /\ Placed' /\ InFront'
      BY <1>1, <1>2, <1>3, <1>5, FlushShort
    <2> QED BY <2>1, TypesAreNext DEF FileInv
  <1>6. CASE WriteFails /\ NotFlushed /\ UNCHANGED <<kernel, torn>>
    <2>1. file' = file /\ offset' = offset /\ torn' = torn /\ offset \in 0..Len(file)
      BY <1>1, <1>6 DEF kernel, Typed
    <2>2. Typed' /\ Control' /\ Delivered' /\ Placed' /\ InFront'
      BY <1>1, <1>3, <1>6, <2>1, FlushFails
    <2> QED BY <2>2, TypesAreNext DEF FileInv
  <1> QED BY <1>4, <1>5, <1>6 DEF FlushWrite

(* buffered_flush with O_PREAPPEND fails before its first write. *)
LEMMA FlushLoadFailStep ==
    ASSUME FileInv, FlushLoadFail
    PROVE  FileInv'
  <1>1. Typed /\ Control /\ Placed /\ InFront
    BY TypesAre DEF FileInv
  <1>2. /\ stmt = "flush" /\ preappend /\ NotFlushed
        /\ file' = file /\ torn' = torn /\ offset' \in 0..Len(file)
    BY DEF FlushLoadFail
  <1>3. Flushing /\ stmt # "move_down"
    BY <1>2 DEF Flushing
  <1>4. Typed' /\ Control' /\ Delivered' /\ Placed' /\ InFront'
    BY <1>1, <1>2, <1>3, FlushFails
  <1> QED BY <1>4, TypesAreNext DEF FileInv

(* buffered_flush with O_PREAPPEND has read the file. *)
LEMMA FlushLoadStep ==
    ASSUME FileInv, FlushLoad
    PROVE  FileInv'
  <1>1. Typed /\ Control /\ InFront
    BY TypesAre DEF FileInv
  <1>2. /\ stmt = "flush" /\ preappend /\ stmt' = "prepend" /\ temp_buf' = file /\ offset' = 0
        /\ file' = file /\ flags' = flags /\ preappend' = preappend
        /\ read_buffer' = read_buffer /\ write_buffer' = write_buffer /\ caller' = caller
        /\ data' = data /\ want' = want /\ out' = out /\ flush_result' = flush_result
        /\ ref' = ref /\ pos' = pos /\ torn' = torn /\ errors' = errors /\ reading' = reading
    BY DEF FlushLoad, buffers, meant, history
  <1>3. 0 \in 0..Len(file) /\ "prepend" \in Stmts
    BY <1>1 DEF Typed, Stmts
  <1>4. Typed'
    BY <1>1, <1>2, <1>3 DEF Typed
  <1>5. Control'
    BY <1>1, <1>2 DEF Control, Flushing
  <1>6. Placed' /\ Delivered'
    BY <1>2 DEF Placed, Delivered
  <1>7. InFront'
    BY <1>1, <1>2, InFrontKept
  <1> QED BY <1>4, <1>5, <1>6, <1>7, TypesAreNext DEF FileInv

(* With O_PREAPPEND, a flush that is done has put the pending bytes in     *)
(* front of the old content.                                               *)
LEMMA InFrontDone ==
    ASSUME Typed, InFront, preappend, UNCHANGED <<ref, pos, torn>>, write_buffer' = <<>>,
           stmt' # "move_down", torn \/ file' = write_buffer \o Old, file' \in Seq(Bytes)
    PROVE  InFront'
  <1>1. CASE torn
    BY <1>1 DEF InFront
  <1>2. CASE ~ torn
    <2>1. Old' = file'
      BY DEF Old
    <2>2. <<>> \o file' = file'
      OBVIOUS
    <2>3. write_buffer' \o Old' = write_buffer \o Old
      BY <1>2, <2>1, <2>2
    <2>4. Len(write_buffer') <= pos
      BY EmptyString DEF Typed
    <2>5. /\ Len(write_buffer \o Old) = Len(ref)
          /\ From(write_buffer \o Old, pos) = From(ref, pos)
          /\ \A b \in Bytes : Count(b, write_buffer \o Old) = Count(b, ref)
      BY <1>2 DEF InFront
    <2>6. /\ Len(write_buffer' \o Old') = Len(ref')
          /\ From(write_buffer' \o Old', pos') = From(ref', pos')
          /\ \A b \in Bytes : Count(b, write_buffer' \o Old') = Count(b, ref')
      BY <2>3, <2>5
    <2> QED BY <2>4, <2>6 DEF InFront
  <1> QED BY <1>1, <1>2

(* buffered_flush writes the new bytes over the start of the file. *)
LEMMA FlushPrependStep ==
    ASSUME FileInv, FlushPrepend
    PROVE  FileInv'
  <1>1. Typed /\ Control /\ Placed /\ InFront
    BY TypesAre DEF FileInv
  <1>2. /\ stmt = "prepend" /\ preappend /\ ~ flags.append /\ temp_buf = file /\ offset = 0
        /\ write_buffer \in Seq(Bytes) /\ file \in Seq(Bytes)
    BY <1>1 DEF FlushPrepend, Control, Typed
  <1>3. Flushing /\ stmt # "move_down" /\ Old = file
    BY <1>2 DEF Flushing, Old
  <1>4. ASSUME SysWrite(write_buffer, Len(write_buffer))
        PROVE  /\ file' = Overlay(file, 0, write_buffer) /\ offset' = Len(write_buffer)
               /\ file' \in Seq(Bytes) /\ offset' \in 0..Len(file')
    <2>1. file' = Overlay(file, At, write_buffer) /\ offset' = At + Len(write_buffer)
      BY <1>1, <1>2, <1>4, WrittenAll
    <2>2. At = 0 /\ Len(write_buffer) \in 0..Len(write_buffer) /\ 0 + Len(write_buffer) = Len(write_buffer)
      BY <1>2 DEF At
    <2>3. file' \in Seq(Bytes) /\ offset' \in 0..Len(file')
      BY <1>1, <1>2, <1>4, <2>2, Written
    <2> QED BY <2>1, <2>2, <2>3
  <1>5. CASE SysWrite(write_buffer, Len(write_buffer)) /\ temp_buf = <<>> /\ Flushed
    <2>1. file' \in Seq(Bytes) /\ offset' \in 0..Len(file')
      BY <1>4, <1>5
    <2>2. /\ Typed' /\ Control' /\ Delivered' /\ stmt' # "move_down"
          /\ UNCHANGED <<flags, preappend, read_buffer, ref, pos, torn>> /\ write_buffer' = <<>>
      BY <1>1, <1>3, <1>5, <2>1, FlushDone
    <2>3. file' = write_buffer \o file
      <3>1. PICK w : w = Overlay(file, 0, write_buffer)
        OBVIOUS
      <3>2. Len(write_buffer) \in 0..Len(w) /\ Overlay(w, Len(write_buffer), file) = write_buffer \o file
        BY <1>2, <3>1, OverlayFront
      <3>3. w \in Seq(Bytes) /\ file' = w
        BY <1>4, <1>5, <3>1
      <3>4. Overlay(w, Len(write_buffer), <<>>) = w
        BY <3>2, <3>3, OverlayNothing
      <3> QED BY <1>2, <1>5, <3>2, <3>3, <3>4
    <2>4. InFront'
      BY <1>1, <1>2, <1>3, <2>1, <2>2, <2>3, InFrontDone
    <2>5. Placed'
      BY <1>2, <2>2 DEF Placed
    <2> QED BY <2>2, <2>4, <2>5, TypesAreNext DEF FileInv
  <1>6. CASE /\ SysWrite(write_buffer, Len(write_buffer)) /\ temp_buf # <<>>
             /\ stmt' = "move_down"
             /\ UNCHANGED <<flags, preappend, buffers, caller, locals, flush_result, meant, history>>
    <2>1. /\ flags' = flags /\ preappend' = preappend
          /\ read_buffer' = read_buffer /\ write_buffer' = write_buffer /\ caller' = caller
          /\ data' = data /\ want' = want /\ out' = out /\ temp_buf' = temp_buf
          /\ flush_result' = flush_result
          /\ ref' = ref /\ pos' = pos /\ torn' = torn /\ errors' = errors /\ reading' = reading
          /\ stmt' = "move_down"
      BY <1>6 DEF buffers, meant, history, locals
    <2>2. /\ file' = Overlay(file, 0, write_buffer) /\ offset' = Len(write_buffer)
          /\ file' \in Seq(Bytes) /\ offset' \in 0..Len(file')
      BY <1>4, <1>6
    <2>3. Typed'
      <3>1. stmt' \in Stmts
        BY <2>1 DEF Stmts
      <3> QED BY <1>1, <2>1, <2>2, <3>1 DEF Typed
    <2>4. Control'
      BY <1>1, <1>2, <1>3, <2>1 DEF Control, Flushing
    <2>5. Placed' /\ Delivered'
      BY <1>2, <2>1 DEF Placed, Delivered
    <2>6. InFront'
      <3>1. Old' = Old
        BY <1>2, <1>3, <2>1 DEF Old
      <3>2. file' = Overlay(temp_buf', 0, write_buffer') /\ offset' = Len(write_buffer')
        BY <1>2, <2>1, <2>2
      <3> QED BY <1>1, <2>1, <3>1, <3>2 DEF InFront
    <2> QED BY <2>3, <2>4, <2>5, <2>6, TypesAreNext DEF FileInv
  <1>7. CASE SysWriteShort(write_buffer) /\ NotFlushed /\ torn' = TRUE
    <2>1. Typed' /\ Control' /\ Delivered' /\ Placed' /\ InFront'
      BY <1>1, <1>2, <1>3, <1>7, FlushShort
    <2> QED BY <2>1, TypesAreNext DEF FileInv
  <1>8. CASE WriteFails /\ NotFlushed /\ UNCHANGED <<kernel, torn>>
    <2>1. file' = file /\ offset' = offset /\ torn' = torn /\ offset \in 0..Len(file)
      BY <1>1, <1>8 DEF kernel, Typed
    <2>2. Typed' /\ Control' /\ Delivered' /\ Placed' /\ InFront'
      BY <1>1, <1>3, <1>8, <2>1, FlushFails
    <2> QED BY <2>2, TypesAreNext DEF FileInv
  <1> QED BY <1>5, <1>6, <1>7, <1>8 DEF FlushPrepend

(* buffered_flush writes the old content behind them. *)
LEMMA FlushMoveDownStep ==
    ASSUME FileInv, FlushMoveDown
    PROVE  FileInv'
  <1>1. Typed /\ Control /\ Placed /\ InFront
    BY TypesAre DEF FileInv
  <1>2. /\ stmt = "move_down" /\ preappend /\ ~ flags.append
        /\ write_buffer \in Seq(Bytes) /\ file \in Seq(Bytes) /\ temp_buf \in Seq(Bytes)
    BY <1>1 DEF FlushMoveDown, Control, Typed
  <1>3. Flushing /\ Old = temp_buf
    BY <1>2 DEF Flushing, Old
  <1>4. CASE SysWrite(temp_buf, Len(temp_buf)) /\ Flushed
    <2>1. file' = Overlay(file, At, temp_buf) /\ Len(temp_buf) \in 0..Len(temp_buf)
      BY <1>1, <1>2, <1>4, WrittenAll
    <2>2. file' \in Seq(Bytes) /\ offset' \in 0..Len(file')
      BY <1>1, <1>2, <1>4, <2>1, Written
    <2>3. /\ Typed' /\ Control' /\ Delivered' /\ stmt' # "move_down"
          /\ UNCHANGED <<flags, preappend, read_buffer, ref, pos, torn>> /\ write_buffer' = <<>>
      BY <1>1, <1>3, <1>4, <2>2, FlushDone
    <2>4. torn \/ file' = write_buffer \o Old
      <3> SUFFICES ASSUME ~ torn PROVE file' = write_buffer \o temp_buf
        BY <1>3
      <3>1. file = Overlay(temp_buf, 0, write_buffer) /\ At = Len(write_buffer)
        BY <1>1, <1>2 DEF InFront, At
      <3>2. Overlay(Overlay(temp_buf, 0, write_buffer), Len(write_buffer), temp_buf)
              = write_buffer \o temp_buf
        BY <1>2, OverlayFront
      <3> QED BY <2>1, <3>1, <3>2
    <2>5. InFront'
      BY <1>1, <1>2, <2>2, <2>3, <2>4, InFrontDone
    <2>6. Placed'
      BY <1>2, <2>3 DEF Placed
    <2> QED BY <2>3, <2>5, <2>6, TypesAreNext DEF FileInv
  <1>5. CASE SysWriteShort(temp_buf) /\ NotFlushed /\ torn' = TRUE
    <2>1. Typed' /\ Control' /\ Delivered' /\ Placed' /\ InFront'
      BY <1>1, <1>2, <1>3, <1>5, FlushShort
    <2> QED BY <2>1, TypesAreNext DEF FileInv
  <1>6. CASE WriteFails /\ NotFlushed /\ torn' = TRUE /\ UNCHANGED kernel
    <2>1. Typed' /\ Control' /\ Delivered' /\ Placed' /\ InFront'
      BY <1>1, <1>2, <1>3, <1>6, FlushShort
    <2> QED BY <2>1, TypesAreNext DEF FileInv
  <1> QED BY <1>4, <1>5, <1>6 DEF FlushMoveDown

(* Every step of buffered_flush. *)
LEMMA FlushStep ==
    ASSUME FileInv, Flush
    PROVE  FileInv'
  BY FlushEmptyStep, FlushWriteStep, FlushLoadStep, FlushLoadFailStep, FlushPrependStep,
     FlushMoveDownStep DEF Flush

-----------------------------------------------------------------------------
(***************************************************************************)
(* The calls of the program.                                               *)
(***************************************************************************)
(* buffered_open. *)
LEMMA OpenStep ==
    ASSUME FileInv, NEW pre \in BOOLEAN, NEW access \in Access, NEW append \in BOOLEAN,
           Open(pre, access, append)
    PROVE  FileInv'
  <1>1. Typed /\ Control /\ Placed /\ InFront
    BY TypesAre DEF FileInv
  <1>2. /\ stmt = "closed" /\ stmt' = "idle" /\ preappend' = pre
        /\ file' = file /\ offset' = offset
        /\ read_buffer' = read_buffer /\ write_buffer' = write_buffer /\ caller' = caller
        /\ data' = data /\ want' = want /\ out' = out /\ temp_buf' = temp_buf
        /\ flush_result' = flush_result
        /\ ref' = ref /\ pos' = pos /\ torn' = torn /\ errors' = errors /\ reading' = reading
    BY DEF Open, kernel, buffers, locals, meant, history
  <1>3. /\ flags' \in [access : Access, append : BOOLEAN]
        /\ pre => ~ flags'.append
    <2>1. PICK a \in Access : flags' = [access |-> a, append |-> append]
      BY DEF Open, Access
    <2>2. pre => ~ append
      BY DEF Open
    <2> QED BY <2>1, <2>2
  <1>4. /\ offset = 0 /\ pos = 0 /\ ref = file /\ read_buffer = <<>> /\ write_buffer = <<>>
        /\ ~ torn
    BY <1>1, <1>2 DEF Control
  <1>5. Typed'
    <2>1. stmt' \in Stmts /\ preappend' \in BOOLEAN
      BY <1>2 DEF Stmts
    <2>2. Len(write_buffer') < BUFFER_SIZE
      BY <1>2, <1>4, EmptyString, FileAssumption
    <2> QED BY <1>1, <1>2, <1>3, <2>1, <2>2 DEF Typed
  <1>6. Control'
    BY <1>1, <1>2, <1>3 DEF Control, Flushing
  <1>7. Placed'
    <2>1. file \in Seq(Bytes) /\ 0 \in 0..Len(file)
      BY <1>1 DEF Typed
    <2>2. At' \in 0..Len(file)
      BY <1>2, <1>5, AtFileNext
    <2>3. Overlay(file, At', <<>>) = file
      BY <2>1, <2>2, OverlayNothing
    <2>4. SubSeq(file, 0 + 1, 0) = <<>>
      BY <2>1, NoBytes
    <2> QED BY <1>2, <1>4, <2>3, <2>4, EmptyString DEF Placed
  <1>8. Delivered'
    BY <1>2 DEF Delivered
  <1>9. InFront'
    <2>1. file \in Seq(Bytes)
      BY <1>1 DEF Typed
    <2>2. Old' = file /\ <<>> \o file = file
      BY <1>2, <2>1 DEF Old
    <2> QED BY <1>2, <1>4, <2>2, EmptyString DEF InFront
  <1> QED BY <1>5, <1>6, <1>7, <1>8, <1>9, TypesAreNext DEF FileInv

(* A call of buffered_write, which a program that has read does not make. *)
LEMMA WriteCallStep ==
    ASSUME ~ Mixes, FileInv, NEW d \in Strings(MaxCount), WriteCall(d)
    PROVE  FileInv'
  <1>1. Typed /\ Control /\ Placed /\ InFront
    BY TypesAre DEF FileInv
  <1>2. /\ stmt = "idle" /\ stmt' = "copy" /\ caller' = "write" /\ data' = d
        /\ ~ torn /\ ~ reading
        /\ file' = file /\ offset' = offset /\ flags' = flags /\ preappend' = preappend
        /\ read_buffer' = read_buffer /\ write_buffer' = write_buffer
        /\ want' = want /\ out' = out /\ temp_buf' = temp_buf
        /\ flush_result' = flush_result
        /\ ref' = ref /\ pos' = pos /\ torn' = torn /\ errors' = errors /\ reading' = reading
    BY DEF WriteCall, kernel, buffers, meant, history
  <1>3. Typed'
    <2>1. d \in Seq(Bytes) /\ Len(d) <= MaxCount
      BY StringsAre, FileAssumption
    <2>2. stmt' \in Stmts /\ caller' \in Callers
      BY <1>2 DEF Stmts, Callers
    <2> QED BY <1>1, <1>2, <2>1, <2>2 DEF Typed
  <1>4. Control'
    <2>1. errors' \/ Len(write_buffer') < BUFFER_SIZE
      BY <1>1, <1>2 DEF Typed
    <2> QED BY <1>1, <1>2, <2>1 DEF Control, Flushing
  <1>5. Placed' /\ InFront' /\ Delivered'
    BY <1>1, <1>2, PlacedKept, InFrontKept DEF Delivered
  <1> QED BY <1>3, <1>4, <1>5, TypesAreNext DEF FileInv

(* A call of buffered_read. *)
LEMMA ReadCallStep ==
    ASSUME FileInv, NEW n \in 0..MaxCount, ReadCall(n)
    PROVE  FileInv'
  <1>1. Typed /\ Control /\ Placed /\ InFront
    BY TypesAre DEF FileInv
  <1>2. /\ stmt = "idle" /\ stmt' = (IF write_buffer # <<>> THEN "flush" ELSE "fill")
        /\ caller' = "read" /\ want' = n /\ out' = <<>> /\ reading' = TRUE /\ ~ torn
        /\ file' = file /\ offset' = offset /\ flags' = flags /\ preappend' = preappend
        /\ read_buffer' = read_buffer /\ write_buffer' = write_buffer
        /\ data' = data /\ temp_buf' = temp_buf /\ flush_result' = flush_result
        /\ ref' = ref /\ pos' = pos /\ torn' = torn /\ errors' = errors
    BY DEF ReadCall, kernel, buffers, meant
  <1>3. MaxCount \in Nat /\ 0 <= MaxCount /\ 0 + n <= MaxCount
    BY FileAssumption
  <1>4. Typed'
    <2>1. stmt' \in Stmts /\ caller' \in Callers /\ reading' \in BOOLEAN /\ stmt' # "idle"
      BY <1>2 DEF Stmts, Callers
    <2> QED BY <1>1, <1>2, <1>3, <2>1, EmptyString DEF Typed
  <1>5. Control'
    <2>1. Len(out') + want' <= MaxCount
      BY <1>2, <1>3, EmptyString
    <2> QED BY <1>1, <1>2, <2>1 DEF Control, Flushing
  <1>6. Delivered'
    <2>1. pos \in 0..Len(ref) /\ ref \in Seq(Bytes)
      BY <1>1 DEF Typed
    <2>2. (pos - 0) + 1 = pos + 1 /\ 0 <= pos
      BY <2>1
    <2>3. SubSeq(ref, pos + 1, pos) = <<>>
      BY <2>1, NoBytes
    <2> QED BY <1>2, <2>2, <2>3, EmptyString DEF Delivered
  <1>7. Placed' /\ InFront'
    <2>1. stmt # "move_down" /\ stmt' # "move_down"
      BY <1>2
    <2> QED BY <1>1, <1>2, <2>1, PlacedKept, InFrontKept
  <1> QED BY <1>4, <1>5, <1>6, <1>7, TypesAreNext DEF FileInv

(* A call of buffered_flush. *)
LEMMA FlushCallStep ==
    ASSUME FileInv, FlushCall
    PROVE  FileInv'
  <1>1. Typed /\ Control /\ Placed /\ InFront
    BY TypesAre DEF FileInv
  <1>2. /\ stmt = "idle" /\ stmt' = "flush" /\ caller' = "flush"
        /\ file' = file /\ offset' = offset /\ flags' = flags /\ preappend' = preappend
        /\ read_buffer' = read_buffer /\ write_buffer' = write_buffer
        /\ data' = data /\ want' = want /\ out' = out /\ temp_buf' = temp_buf
        /\ flush_result' = flush_result
        /\ ref' = ref /\ pos' = pos /\ torn' = torn /\ errors' = errors /\ reading' = reading
    BY DEF FlushCall, kernel, buffers, locals, meant, history
  <1>3. Typed'
    <2>1. stmt' \in Stmts /\ caller' \in Callers
      BY <1>2 DEF Stmts, Callers
    <2> QED BY <1>1, <1>2, <2>1 DEF Typed
  <1>4. Control'
    BY <1>1, <1>2 DEF Control, Flushing
  <1>5. Placed' /\ InFront' /\ Delivered'
    BY <1>1, <1>2, PlacedKept, InFrontKept DEF Delivered
  <1> QED BY <1>3, <1>4, <1>5, TypesAreNext DEF FileInv

(* A call of buffered_close. *)
LEMMA CloseCallStep ==
    ASSUME FileInv, CloseCall
    PROVE  FileInv'
  <1>1. Typed /\ Control /\ Placed /\ InFront
    BY TypesAre DEF FileInv
  <1>2. /\ stmt = "idle" /\ stmt' = (IF write_buffer # <<>> THEN "flush" ELSE "close_fd")
        /\ caller' = "close" /\ flush_result' = 0
        /\ file' = file /\ offset' = offset /\ flags' = flags /\ preappend' = preappend
        /\ read_buffer' = read_buffer /\ write_buffer' = write_buffer
        /\ data' = data /\ want' = want /\ out' = out /\ temp_buf' = temp_buf
        /\ ref' = ref /\ pos' = pos /\ torn' = torn /\ errors' = errors /\ reading' = reading
    BY DEF CloseCall, kernel, buffers, locals, meant, history
  <1>3. Typed'
    <2>1. stmt' \in Stmts /\ caller' \in Callers /\ stmt' # "idle"
      BY <1>2 DEF Stmts, Callers
    <2> QED BY <1>1, <1>2, <2>1 DEF Typed
  <1>4. Control'
    BY <1>1, <1>2 DEF Control, Flushing
  <1>5. Placed' /\ InFront' /\ Delivered'
    <2>1. stmt # "move_down" /\ stmt' # "move_down" /\ stmt' # "fill"
      BY <1>2
    <2> QED BY <1>1, <1>2, <2>1, PlacedKept, InFrontKept DEF Delivered
  <1> QED BY <1>3, <1>4, <1>5, TypesAreNext DEF FileInv

(* The end of buffered_close. *)
LEMMA CloseFdStep ==
    ASSUME FileInv, CloseFd
    PROVE  FileInv'
  <1>1. Typed /\ Control
    BY TypesAre DEF FileInv
  <1>2. /\ stmt = "close_fd" /\ stmt' = "closed" /\ caller' = "none" /\ offset' = 0
        /\ flags' = [access |-> "O_RDWR", append |-> FALSE] /\ preappend' = FALSE
        /\ read_buffer' = <<>> /\ write_buffer' = <<>> /\ flush_result' = 0
        /\ ref' = file /\ pos' = 0
        /\ torn' = FALSE /\ errors' = FALSE /\ reading' = FALSE
        /\ file' = file /\ data' = data /\ want' = want /\ out' = out /\ temp_buf' = temp_buf
    BY DEF CloseFd, locals
  <1>3. file \in Seq(Bytes) /\ 0 \in 0..Len(file)
    BY <1>1 DEF Typed
  <1>4. Typed'
    <2>1. flags' \in [access : Access, append : BOOLEAN]
      BY <1>2 DEF Access
    <2>2. stmt' \in Stmts /\ caller' \in Callers /\ stmt' # "idle" /\ flush_result' \in {0, -1}
      BY <1>2 DEF Stmts, Callers
    <2>3. /\ preappend' \in BOOLEAN /\ torn' \in BOOLEAN /\ errors' \in BOOLEAN
          /\ reading' \in BOOLEAN
      BY <1>2, Zenon
    <2>4. 0 <= BUFFER_SIZE
      BY FileAssumption
    <2>5. /\ read_buffer' \in Seq(Bytes) /\ Len(read_buffer') <= BUFFER_SIZE
          /\ write_buffer' \in Seq(Bytes) /\ Len(write_buffer') <= BUFFER_SIZE
      BY <1>2, <2>4, EmptyString
    <2> QED BY <1>1, <1>2, <1>3, <2>1, <2>2, <2>3, <2>5 DEF Typed
  <1>5. Control'
    BY <1>1, <1>2 DEF Control, Flushing
  <1>6. Placed'
    <2>1. At' \in 0..Len(file)
      BY <1>2, <1>4, AtFileNext
    <2>2. Overlay(file, At', <<>>) = file
      BY <1>3, <2>1, OverlayNothing
    <2>3. SubSeq(file, 0 + 1, 0) = <<>>
      BY <1>3, NoBytes
    <2> QED BY <1>2, <2>2, <2>3, EmptyString DEF Placed
  <1>7. Delivered' /\ InFront'
    BY <1>2 DEF Delivered, InFront
  <1> QED BY <1>4, <1>5, <1>6, <1>7, TypesAreNext DEF FileInv

-----------------------------------------------------------------------------
(***************************************************************************)
(* buffered_write and buffered_read.                                       *)
(***************************************************************************)
(* buffered_write has copied everything. *)
LEMMA WriteReturnStep ==
    ASSUME FileInv, WriteReturn
    PROVE  FileInv'
  <1>1. Typed /\ Control /\ Placed /\ InFront
    BY TypesAre DEF FileInv
  <1>2. /\ stmt = "copy" /\ stmt' = "idle" /\ caller' = "none"
        /\ data' = <<>> /\ want' = 0 /\ out' = <<>>
        /\ file' = file /\ offset' = offset /\ flags' = flags /\ preappend' = preappend
        /\ read_buffer' = read_buffer /\ write_buffer' = write_buffer
        /\ temp_buf' = temp_buf /\ flush_result' = flush_result
        /\ ref' = ref /\ pos' = pos /\ torn' = torn /\ reading' = reading
    BY DEF WriteReturn, Return, kernel, buffers, meant
  <1>3. (errors' <=> errors) /\ errors' \in BOOLEAN
    <2>1. errors' = (errors \/ 0 = -1) /\ errors \in BOOLEAN
      BY <1>1 DEF WriteReturn, Return, Typed
    <2> QED BY <2>1
  <1>4. 0 <= MaxCount /\ 0 \in 0..MaxCount /\ 0 + 0 <= MaxCount
    BY FileAssumption
  <1>5. Typed'
    <2>1. stmt' \in Stmts /\ caller' \in Callers
      BY <1>2 DEF Stmts, Callers
    <2>2. errors' \/ Len(write_buffer') < BUFFER_SIZE
      BY <1>1, <1>2, <1>3 DEF Control
    <2> QED BY <1>1, <1>2, <1>3, <1>4, <2>1, <2>2, EmptyString DEF Typed
  <1>6. Control'
    <2>1. Len(out') + want' <= MaxCount
      BY <1>2, <1>4, EmptyString
    <2> QED BY <1>1, <1>2, <2>1 DEF Control, Flushing
  <1>7. Placed' /\ InFront' /\ Delivered'
    BY <1>1, <1>2, PlacedKept, InFrontKept DEF Delivered
  <1> QED BY <1>5, <1>6, <1>7, TypesAreNext DEF FileInv

(* buffered_read returns. *)
LEMMA ReadReturnStep ==
    ASSUME FileInv, ReadReturn
    PROVE  FileInv'
  <1>1. Typed /\ Control /\ Placed /\ InFront
    BY TypesAre DEF FileInv
  <1>2. /\ stmt = "fill" /\ stmt' = "idle" /\ caller' = "none"
        /\ data' = <<>> /\ want' = 0 /\ out' = <<>>
        /\ file' = file /\ offset' = offset /\ flags' = flags /\ preappend' = preappend
        /\ read_buffer' = read_buffer /\ write_buffer' = write_buffer
        /\ temp_buf' = temp_buf /\ flush_result' = flush_result
        /\ ref' = ref /\ pos' = pos /\ torn' = torn /\ reading' = reading
    BY DEF ReadReturn, Return, kernel, buffers, meant
  <1>3. errors' \in BOOLEAN
    BY <1>1, Zenon DEF ReadReturn, Return, Typed
  <1>4. 0 <= MaxCount /\ 0 \in 0..MaxCount /\ 0 + 0 <= MaxCount
    BY FileAssumption
  <1>5. Typed'
    <2>1. stmt' \in Stmts /\ caller' \in Callers
      BY <1>2 DEF Stmts, Callers
    <2>2. write_buffer = <<>> /\ 0 < BUFFER_SIZE
      BY <1>1, <1>2, FileAssumption DEF Control
    <2>3. Len(write_buffer') < BUFFER_SIZE
      BY <1>2, <2>2, EmptyString
    <2> QED BY <1>1, <1>2, <1>3, <1>4, <2>1, <2>3, EmptyString DEF Typed
  <1>6. Control'
    <2>1. Len(out') + want' <= MaxCount
      BY <1>2, <1>4, EmptyString
    <2> QED BY <1>1, <1>2, <2>1 DEF Control, Flushing
  <1>7. Placed' /\ InFront' /\ Delivered'
    BY <1>1, <1>2, PlacedKept, InFrontKept DEF Delivered
  <1> QED BY <1>5, <1>6, <1>7, TypesAreNext DEF FileInv

(* With nothing pending the file is the one the program means. *)
LEMMA NothingPending ==
    ASSUME Typed, Placed, ~ preappend, ~ torn, write_buffer = <<>>
    PROVE  /\ file = ref /\ pos + Len(read_buffer) = offset
           /\ read_buffer = SubSeq(ref, pos + 1, offset)
  <1>1. file \in Seq(Bytes) /\ At \in 0..Len(file)
    BY AtFile DEF Typed
  <1>2. Overlay(file, At, <<>>) = file
    BY <1>1, OverlayNothing
  <1> QED BY <1>2 DEF Placed

(* buffered_read fills its buffer. *)
LEMMA ReadFillStep ==
    ASSUME FileInv, ReadFill
    PROVE  FileInv'
  <1>0. BUFFER_SIZE \in Nat
    BY FileAssumption
  <1>1. Typed /\ Control /\ Placed /\ InFront /\ Delivered
    BY TypesAre DEF FileInv
  <1>2. /\ stmt = "fill" /\ stmt' = "fill" /\ read_buffer = <<>> /\ offset < Len(file)
        /\ file' = file /\ flags' = flags /\ preappend' = preappend
        /\ write_buffer' = write_buffer /\ caller' = caller
        /\ data' = data /\ want' = want /\ out' = out /\ temp_buf' = temp_buf
        /\ flush_result' = flush_result
        /\ ref' = ref /\ pos' = pos /\ torn' = torn /\ errors' = errors /\ reading' = reading
    BY DEF ReadFill, locals, meant, history
  <1>3. file \in Seq(Bytes) /\ offset \in Nat /\ Len(file) \in Nat
    BY <1>1 DEF Typed
  <1>4. PICK n : n = Least(BUFFER_SIZE, Len(file) - offset)
    OBVIOUS
  <1>5. n \in Nat /\ n <= BUFFER_SIZE /\ offset + n <= Len(file)
    BY <1>0, <1>2, <1>3, <1>4 DEF Least
  <1>6. read_buffer' = SubSeq(file, offset + 1, offset + n) /\ offset' = offset + n
    BY <1>4 DEF ReadFill
  <1>7. /\ read_buffer' \in Seq(Bytes) /\ Len(read_buffer') = n
    <2>1. PICK q : q = offset + n
      OBVIOUS
    <2>2. q \in Nat /\ offset <= q /\ q <= Len(file) /\ 0 \in 0..(q - offset) /\ q - offset = n
          /\ offset <= offset
      BY <1>3, <1>5, <2>1
    <2>3. read_buffer' = Piece(file, offset, q)
      BY <1>6, <2>1 DEF Piece
    <2>4. Piece(file, offset, q) \in Seq(Bytes) /\ Len(Piece(file, offset, q)) = q - offset
      <3>1. ReadsOn(file, offset, offset, q, 0)
        BY <1>3, <2>2, ReadOn
      <3> QED BY <3>1 DEF ReadsOn
    <2> QED BY <2>2, <2>3, <2>4
  <1>8. caller = "read" /\ write_buffer = <<>> /\ reading
    BY <1>1, <1>2 DEF Control
  <1>9. Typed'
    <2>1. offset' \in 0..Len(file') /\ Len(read_buffer') <= BUFFER_SIZE
      BY <1>0, <1>2, <1>3, <1>5, <1>6, <1>7
    <2> QED BY <1>1, <1>2, <1>7, <2>1 DEF Typed
  <1>10. Control'
    BY <1>1, <1>2, <1>8 DEF Control, Flushing
  <1>11. Delivered' /\ InFront'
    <2>1. Delivered'
      BY <1>1, <1>2 DEF Delivered
    <2>2. InFront'
      BY <1>1, <1>2, InFrontKept
    <2> QED BY <2>1, <2>2
  <1>12. ASSUME ~ preappend, ~ torn PROVE Placed'
    <2>1. file = ref /\ pos + Len(read_buffer) = offset
      BY <1>1, <1>8, <1>12, NothingPending
    <2>2. pos = offset
      <3>1. pos \in Nat
        BY <1>1 DEF Typed
      <3> QED BY <1>2, <2>1, <3>1, EmptyString
    <2>3. At' \in 0..Len(file)
      BY <1>2, <1>9, AtFileNext
    <2>4. Overlay(file, At', <<>>) = file
      BY <1>3, <2>3, OverlayNothing
    <2> QED BY <1>2, <1>6, <1>7, <1>8, <2>1, <2>2, <2>4 DEF Placed
  <1>13. ASSUME preappend \/ torn PROVE Placed'
    BY <1>2, <1>13 DEF Placed
  <1> QED BY <1>9, <1>10, <1>11, <1>12, <1>13, TypesAreNext DEF FileInv

(* buffered_read delivers from its buffer. *)
LEMMA ReadCopyStep ==
    ASSUME FileInv, ReadCopy
    PROVE  FileInv'
  <1>0. MaxCount \in Nat
    BY FileAssumption
  <1>1. Typed /\ Control /\ Placed /\ InFront /\ Delivered
    BY TypesAre DEF FileInv
  <1>2. /\ stmt = "fill" /\ stmt' = "fill"
        /\ file' = file /\ offset' = offset /\ flags' = flags /\ preappend' = preappend
        /\ write_buffer' = write_buffer /\ caller' = caller
        /\ data' = data /\ temp_buf' = temp_buf /\ flush_result' = flush_result
        /\ ref' = ref /\ torn' = torn /\ errors' = errors /\ reading' = reading
    BY DEF ReadCopy, kernel, history
  <1>3. PICK n, l, m : n = Least(want, Len(read_buffer)) /\ l = Len(read_buffer) /\ m = Len(out)
    OBVIOUS
  <1>4. /\ out' = out \o First(read_buffer, n) /\ read_buffer' = From(read_buffer, n)
        /\ want' = want - n /\ pos' = (IF preappend THEN pos ELSE pos + n)
    BY <1>3 DEF ReadCopy
  <1>5. /\ read_buffer \in Seq(Bytes) /\ out \in Seq(Bytes) /\ want \in 0..MaxCount
        /\ l \in Nat /\ m \in Nat /\ m + want <= MaxCount /\ l <= BUFFER_SIZE /\ BUFFER_SIZE \in Nat
    BY <1>1, <1>3, FileAssumption DEF Typed, Control
  <1>6. n \in 0..l /\ n <= want /\ n \in 0..Len(read_buffer)
    BY <1>0, <1>3, <1>5 DEF Least
  <1>7. /\ First(read_buffer, n) \in Seq(Bytes) /\ Len(First(read_buffer, n)) = n
        /\ read_buffer' \in Seq(Bytes) /\ Len(read_buffer') = l - n
    BY <1>3, <1>4, <1>5, <1>6, Pieces
  <1>8. out' \in Seq(Bytes) /\ Len(out') = m + n
    <2>1. PICK d : d = First(read_buffer, n)
      OBVIOUS
    <2>2. d \in Seq(Bytes) /\ Len(d) = n
      BY <1>7, <2>1
    <2>3. out \o d \in Seq(Bytes) /\ Len(out \o d) = Len(out) + Len(d)
      BY <1>5, <2>2, Joined
    <2> QED BY <1>3, <1>4, <2>1, <2>2, <2>3
  <1>9. want' \in 0..MaxCount /\ m + n <= MaxCount /\ (m + n) + want' <= MaxCount
        /\ l - n <= BUFFER_SIZE
    BY <1>0, <1>4, <1>5, <1>6
  <1>10. write_buffer = <<>> /\ ~ torn /\ reading
    BY <1>1, <1>2 DEF Control
  <1>11. Control'
    BY <1>1, <1>2, <1>8, <1>9, <1>10 DEF Control, Flushing
  <1>12. ASSUME pos' \in 0..Len(ref) PROVE Typed'
    BY <1>1, <1>2, <1>7, <1>8, <1>9, <1>12 DEF Typed
  <1>13. CASE preappend
    <2>1. pos' = pos /\ pos \in 0..Len(ref)
      BY <1>1, <1>4, <1>13 DEF Typed
    <2>2. Placed' /\ Delivered'
      BY <1>2, <1>13 DEF Placed, Delivered
    <2>3. InFront'
      BY <1>1, <1>2, <2>1, InFrontKept
    <2> QED BY <1>11, <1>12, <2>1, <2>2, <2>3, TypesAreNext DEF FileInv
  <1>14. CASE ~ preappend
    <2>1. file = ref /\ pos + l = offset /\ read_buffer = SubSeq(ref, pos + 1, offset)
      BY <1>1, <1>3, <1>10, <1>14, NothingPending
    <2>2. m <= pos /\ out = SubSeq(ref, (pos - m) + 1, pos)
      BY <1>1, <1>2, <1>3, <1>10, <1>14 DEF Delivered
    <2>3. ref \in Seq(Bytes) /\ pos \in Nat /\ offset \in Nat /\ offset <= Len(ref) /\ Len(ref) \in Nat
      BY <1>1, <2>1 DEF Typed
    <2>4. PICK a : a = pos - m
      OBVIOUS
    <2>5. /\ a \in Nat /\ a <= pos /\ pos <= offset /\ n \in 0..(offset - pos)
          /\ pos + n \in 0..Len(ref) /\ (pos + n) + (l - n) = offset
          /\ (pos + n) - (m + n) = a /\ m + n <= pos + n
      BY <1>5, <1>6, <2>1, <2>2, <2>3, <2>4
    <2>6. /\ From(read_buffer, n) = SubSeq(ref, (pos + n) + 1, offset)
          /\ out \o First(read_buffer, n) = SubSeq(ref, a + 1, pos + n)
      <3>1. read_buffer = Piece(ref, pos, offset) /\ out = Piece(ref, a, pos)
        BY <2>1, <2>2, <2>4 DEF Piece
      <3>2. /\ ref \in Seq(Bytes) /\ pos \in Nat /\ offset \in Nat /\ offset <= Len(ref)
            /\ a \in Nat /\ a <= pos /\ pos <= offset /\ n \in 0..(offset - pos)
        BY <2>3, <2>5
      <3>3. /\ From(Piece(ref, pos, offset), n) = Piece(ref, pos + n, offset)
            /\ Piece(ref, a, pos) \o First(Piece(ref, pos, offset), n) = Piece(ref, a, pos + n)
        <4>1. ReadsOn(ref, a, pos, offset, n)
          BY <3>2, ReadOn
        <4> QED BY <4>1 DEF ReadsOn
      <3> QED BY <3>1, <3>3 DEF Piece
    <2>7. pos' = pos + n
      BY <1>4, <1>14
    <2>8. Typed'
      BY <1>12, <2>5, <2>7
    <2>9. Delivered'
      BY <1>2, <1>4, <1>8, <2>5, <2>6, <2>7 DEF Delivered
    <2>10. Overlay(file, At, write_buffer) = ref /\ At' = At
      BY <1>1, <1>2, <1>10, <1>14 DEF Placed, At
    <2>11. Placed'
      BY <1>2, <1>4, <1>7, <1>10, <2>5, <2>6, <2>7, <2>10 DEF Placed
    <2>12. InFront'
      BY <1>2, <1>14 DEF InFront
    <2> QED BY <1>11, <2>8, <2>9, <2>11, <2>12, TypesAreNext DEF FileInv
  <1> QED BY <1>13, <1>14

(* buffered_write copies as much as the buffer takes, which may be nothing *)
(* after a flush that failed.                                              *)
LEMMA WriteCopyStep ==
    ASSUME FileInv, WriteCopy
    PROVE  FileInv'
  <1>0. BUFFER_SIZE \in Nat \ {0} /\ MaxCount \in Nat
    BY FileAssumption
  <1>1. Typed /\ Control /\ Placed /\ InFront
    BY TypesAre DEF FileInv
  <1>2. PICK n, l, m, d : /\ n = Least(Len(data), BUFFER_SIZE - Len(write_buffer))
                          /\ l = Len(write_buffer) /\ m = Len(data) /\ d = First(data, n)
    OBVIOUS
  <1>3. /\ stmt = "copy" /\ data # <<>>
        /\ write_buffer' = write_buffer \o d /\ data' = From(data, n) /\ Mean(d)
        /\ stmt' = (IF Len(write_buffer') = BUFFER_SIZE THEN "flush" ELSE "copy")
    BY <1>2 DEF WriteCopy
  <1>4. /\ file' = file /\ offset' = offset /\ flags' = flags /\ preappend' = preappend
        /\ read_buffer' = read_buffer /\ caller' = caller
        /\ want' = want /\ out' = out /\ temp_buf' = temp_buf /\ flush_result' = flush_result
        /\ torn' = torn /\ errors' = errors /\ reading' = reading
    BY DEF WriteCopy, kernel, history
  <1>5. caller = "write" /\ ~ torn /\ ~ reading /\ read_buffer = <<>> /\ out = <<>>
    BY <1>1, <1>3 DEF Control
  <1>6. /\ write_buffer \in Seq(Bytes) /\ data \in Seq(Bytes) /\ file \in Seq(Bytes)
        /\ ref \in Seq(Bytes) /\ pos \in 0..Len(ref) /\ pos \in Nat
        /\ l \in Nat /\ l <= BUFFER_SIZE /\ m \in Nat /\ m <= MaxCount
    BY <1>1, <1>2 DEF Typed
  <1>7. m > 0
    BY <1>2, <1>3, <1>6
  <1>8. n \in 0..m /\ l + n <= BUFFER_SIZE /\ l + n > 0 /\ n \in 0..Len(data)
    BY <1>0, <1>2, <1>6, <1>7 DEF Least
  <1>9. d \in Seq(Bytes) /\ Len(d) = n /\ data' \in Seq(Bytes) /\ Len(data') = m - n
    BY <1>2, <1>3, <1>6, <1>8, Pieces
  <1>10. write_buffer' \in Seq(Bytes) /\ Len(write_buffer') = l + n
    BY <1>2, <1>3, <1>6, <1>9, Joined
  <1>11. ASSUME ref' \in Seq(Bytes), pos' \in 0..Len(ref') PROVE Typed'
    <2>1. stmt' \in Stmts /\ stmt' # "idle"
      BY <1>3 DEF Stmts
    <2>2. m - n <= MaxCount
      BY <1>0, <1>6, <1>8
    <2> QED BY <1>1, <1>4, <1>8, <1>9, <1>10, <1>11, <2>1, <2>2 DEF Typed
  <1>12. Control'
    <2>1. stmt' = "copy" => Len(write_buffer') < BUFFER_SIZE
      BY <1>0, <1>3, <1>6, <1>8, <1>10
    <2>2. stmt' \in {"flush", "copy"}
      BY <1>3
    <2>3. caller' = "write"
      BY <1>4, <1>5
    <2> QED BY <1>1, <1>4, <1>5, <2>1, <2>2, <2>3 DEF Control, Flushing
  <1>13. Delivered'
    BY <1>3 DEF Delivered
  <1>14. CASE preappend
    <2>1. ref' = First(ref, pos) \o d \o From(ref, pos) /\ pos' = pos + Len(d)
      BY <1>1, <1>3, <1>14 DEF Mean, Control
    <2>2. Grown(ref', ref, d, pos)
      <3>1. ref \in Seq(Bytes) /\ d \in Seq(Bytes) /\ pos \in 0..Len(ref)
        BY <1>6, <1>9
      <3>2. ref' = First(ref, pos) \o d \o From(ref, pos)
        BY <2>1
      <3> QED BY <3>1, <3>2, Inserted
    <2>3. Old = file /\ Old' = file
      BY <1>3, <1>4 DEF Old
    <2>4. PICK x, v : x = write_buffer \o file /\ v = (write_buffer \o d) \o file
      OBVIOUS
    <2>5. /\ Len(write_buffer) <= pos /\ Len(x) = Len(ref) /\ From(x, pos) = From(ref, pos)
          /\ \A b \in Bytes : Count(b, x) = Count(b, ref)
      BY <1>1, <1>5, <1>14, <2>3, <2>4 DEF InFront
    <2>6. pos <= Len(write_buffer \o file)
      BY <1>6, <2>4, <2>5
    <2>7. Grown(v, x, d, pos)
      <3>1. write_buffer \in Seq(Bytes) /\ d \in Seq(Bytes) /\ file \in Seq(Bytes) /\ pos \in Nat
        BY <1>6, <1>9
      <3>2. Len(write_buffer) <= pos /\ v = (write_buffer \o d) \o file
        BY <2>4, <2>5
      <3>3. Grown(v, write_buffer \o file, d, pos)
        BY <2>6, <3>1, <3>2, AddedInFront
      <3> QED BY <2>4, <3>3
    <2>8. write_buffer' \o Old' = v
      BY <1>3, <2>3, <2>4
    <2>9. Len(write_buffer') <= pos'
      BY <1>2, <1>6, <1>8, <1>9, <1>10, <2>1, <2>5
    <2>10. /\ Len(v) = Len(ref') /\ From(v, pos') = From(ref', pos')
           /\ \A b \in Bytes : Count(b, v) = Count(b, ref')
      BY <2>1, <2>2, <2>5, <2>7 DEF Grown
    <2>11. InFront'
      <3>1. stmt' # "move_down"
        BY <1>3
      <3> QED BY <2>8, <2>9, <2>10, <3>1 DEF InFront
    <2>12. Placed'
      BY <1>4, <1>14 DEF Placed
    <2>13. Typed'
      <3>1. ref' \in Seq(Bytes) /\ Len(ref') = Len(ref) + Len(d)
        BY <2>2 DEF Grown
      <3>2. pos' \in 0..Len(ref')
        BY <1>6, <1>8, <1>9, <2>1, <3>1
      <3> QED BY <1>11, <3>1, <3>2
    <2> QED BY <1>12, <1>13, <2>11, <2>12, <2>13, TypesAreNext DEF FileInv
  <1>15. CASE ~ preappend
    <2>1. PICK at : at = IF flags.append THEN Len(ref) ELSE pos
      OBVIOUS
    <2>2. ref' = Overlay(ref, at, d) /\ pos' = at + Len(d)
      BY <1>3, <1>15, <2>1 DEF Mean
    <2>3. at \in 0..Len(ref)
      BY <1>6, <2>1
    <2>4. At \in 0..Len(file) /\ At' = At
      BY <1>1, <1>4, AtFile DEF At
    <2>5. ref = Overlay(file, At, write_buffer)
      BY <1>1, <1>5, <1>15 DEF Placed
    <2>6. at = At + l
      <3>1. CASE flags.append
        <4>1. At = Len(file) /\ at = Len(ref)
          BY <2>1, <3>1 DEF At
        <4>2. Len(ref) = IF At + Len(write_buffer) <= Len(file) THEN Len(file)
                         ELSE At + Len(write_buffer)
          BY <1>6, <2>4, <2>5, Overlaid
        <4>3. Len(file) \in Nat
          BY <1>6
        <4> QED BY <1>2, <1>6, <4>1, <4>2, <4>3
      <3>2. CASE ~ flags.append
        <4>1. At = offset /\ at = pos /\ offset \in Nat
          BY <1>1, <2>1, <3>2 DEF At, Typed
        <4>2. CASE write_buffer = <<>>
          <5>1. pos + Len(read_buffer) = offset
            BY <1>1, <1>5, <1>15, <4>2 DEF Placed
          <5> QED BY <1>2, <1>5, <1>6, <4>1, <4>2, <5>1, EmptyString
        <4>3. CASE write_buffer # <<>>
          BY <1>1, <1>2, <1>5, <1>15, <4>1, <4>3 DEF Placed
        <4> QED BY <4>2, <4>3
      <3> QED BY <3>1, <3>2
    <2>7. Overlay(Overlay(file, At, write_buffer), At + Len(write_buffer), d)
            = Overlay(file, At, write_buffer \o d)
      BY <1>6, <1>9, <2>4, OverlayTwice
    <2>8. Overlay(file', At', write_buffer') = ref'
      BY <1>2, <1>3, <1>4, <2>2, <2>4, <2>5, <2>6, <2>7
    <2>9. /\ ref' \in Seq(Bytes)
          /\ Len(ref') = IF at + Len(d) <= Len(ref) THEN Len(ref) ELSE at + Len(d)
      BY <1>6, <1>9, <2>2, <2>3, Overlaid
    <2>10. pos' \in 0..Len(ref')
      BY <1>6, <1>8, <1>9, <2>2, <2>3, <2>9
    <2>11. write_buffer' # <<>> /\ pos' = At' + Len(write_buffer')
      <3>1. write_buffer' # <<>>
        BY <1>8, <1>10, EmptyString
      <3>2. At \in Nat /\ n \in Nat
        BY <1>8, <2>4
      <3> QED BY <1>6, <1>9, <1>10, <2>2, <2>4, <2>6, <3>1, <3>2
    <2>12. Placed'
      BY <1>4, <1>5, <2>8, <2>11 DEF Placed
    <2>13. InFront'
      BY <1>4, <1>15 DEF InFront
    <2>14. Typed'
      BY <1>11, <2>9, <2>10
    <2> QED BY <1>12, <1>13, <2>12, <2>13, <2>14, TypesAreNext DEF FileInv
  <1> QED BY <1>14, <1>15

-----------------------------------------------------------------------------
(* Every step keeps the invariant, and so does a stutter. *)
LEMMA FileInvStep ==
    ASSUME ~ Mixes, FileInv, [FileNext]_fileVars
    PROVE  FileInv'
  <1>1. CASE Call
    BY <1>1, OpenStep, WriteCallStep, ReadCallStep, FlushCallStep, CloseCallStep DEF Call
  <1>2. CASE Step
    BY <1>2, FlushStep, WriteCopyStep, WriteReturnStep, ReadFillStep, ReadCopyStep, ReadReturnStep,
       CloseFdStep DEF Step
  <1>3. CASE UNCHANGED fileVars
    <2>1. /\ file' = file /\ offset' = offset /\ flags' = flags /\ preappend' = preappend
          /\ read_buffer' = read_buffer /\ write_buffer' = write_buffer
          /\ stmt' = stmt /\ caller' = caller
          /\ data' = data /\ want' = want /\ out' = out /\ temp_buf' = temp_buf
          /\ flush_result' = flush_result
          /\ ref' = ref /\ pos' = pos /\ torn' = torn /\ errors' = errors /\ reading' = reading
      BY <1>3 DEF fileVars, kernel, buffers, locals, meant, history
    <2>2. Typed /\ Control /\ Placed /\ InFront /\ Delivered
      BY TypesAre DEF FileInv
    <2>3. Typed'
      BY <2>1, <2>2 DEF Typed
    <2>4. Control'
      BY <2>1, <2>2 DEF Control, Flushing
    <2>5. Placed'
      BY <2>1, <2>2, PlacedKept
    <2>6. Delivered'
      BY <2>1, <2>2 DEF Delivered
    <2>7. InFront'
      <3>1. Old' = Old
        BY <2>1 DEF Old
      <3> QED BY <2>1, <2>2, <3>1 DEF InFront
    <2> QED BY <2>3, <2>4, <2>5, <2>6, <2>7, TypesAreNext DEF FileInv
  <1> QED BY <1>1, <1>2, <1>3 DEF FileNext

(* The invariant holds in every reachable state. *)
LEMMA FileSpecInv ==
    ASSUME ~ Mixes
    PROVE  FileSpec => []FileInv
  <1>1. FileInv /\ [FileNext]_fileVars => FileInv'
    BY FileInvStep
  <1> QED BY <1>1, FileInvInit, PTL DEF FileSpec

(* No buffer of buffered_open.c overflows and no offset leaves its file,   *)
(* and a program finds the write buffer full only after a call that        *)
(* failed.  For programs that do not write after they have read.           *)
THEOREM FileTypeCorrect ==
    ASSUME ~ Mixes
    PROVE  FileSpec => []FileTypeOK
  <1>1. FileInv => FileTypeOK
    BY DEF FileInv
  <1> QED BY <1>1, FileSpecInv, PTL

(* However write, flush, read and close are called and whatever system     *)
(* call fails, the file with the bytes still buffered is the one that the  *)
(* program means, as long as no write stopped short; with O_PREAPPEND the  *)
(* old content stays in one piece behind every byte written.               *)
THEOREM FileIsConsistent ==
    ASSUME ~ Mixes
    PROVE  FileSpec => []Consistent
  <1>1. FileInv => Consistent
    <2> SUFFICES ASSUME FileInv PROVE Consistent
      OBVIOUS
    <2>1. Placed /\ InFront
      BY DEF FileInv
    <2>2. ~ preappend /\ ~ torn => Overlay(file, At, write_buffer) = ref
      BY <2>1 DEF Placed
    <2>3. stmt # "move_down" => Old = file
      BY DEF Old
    <2> QED BY <2>1, <2>2, <2>3 DEF Consistent, InFront
  <1> QED BY <1>1, FileSpecInv, PTL

(* buffered_read delivers the bytes of the file from the program's         *)
(* position on, whatever the sizes of the buffer and of the calls.         *)
THEOREM FileReadsInOrder ==
    ASSUME ~ Mixes
    PROVE  FileSpec => []ReadsInOrder
  <1>1. FileInv => ReadsInOrder
    <2> SUFFICES ASSUME FileInv, ~ preappend, ~ torn, stmt = "fill"
                 PROVE  /\ pos + Len(read_buffer) = offset
                        /\ out \o read_buffer = SubSeq(ref, pos - Len(out) + 1, offset)
      BY DEF ReadsInOrder
    <2>1. Typed /\ Control /\ Placed /\ Delivered
      BY TypesAre DEF FileInv
    <2>2. write_buffer = <<>>
      BY <2>1 DEF Control
    <2>3. file = ref /\ pos + Len(read_buffer) = offset /\ read_buffer = SubSeq(ref, pos + 1, offset)
      BY <2>1, <2>2, NothingPending
    <2>4. PICK m, a : m = Len(out) /\ a = pos - m
      OBVIOUS
    <2>5. m <= pos /\ out = SubSeq(ref, a + 1, pos)
      BY <2>1, <2>4 DEF Delivered
    <2>6. /\ ref \in Seq(Bytes) /\ pos \in Nat /\ offset \in Nat /\ offset <= Len(ref)
          /\ m \in Nat /\ Len(read_buffer) \in Nat
      BY <2>1, <2>3, <2>4 DEF Typed
    <2>7. a \in Nat /\ a <= pos /\ pos <= offset /\ 0 \in 0..(offset - pos)
      BY <2>3, <2>4, <2>5, <2>6
    <2>8. out \o read_buffer = SubSeq(ref, a + 1, offset)
      <3>1. Piece(ref, a, pos) \o Piece(ref, pos, offset) = Piece(ref, a, offset)
        <4>1. ReadsOn(ref, a, pos, offset, 0)
          BY <2>6, <2>7, ReadOn
        <4> QED BY <4>1 DEF ReadsOn
      <3> QED BY <2>3, <2>5, <3>1 DEF Piece
    <2> QED BY <2>3, <2>4, <2>8
  <1> QED BY <1>1, FileSpecInv, PTL

(* A buffered_close that returns 0 has written everything, also when its   *)
(* first flush failed and the second did not.                              *)
THEOREM FileSavedOnClose ==
    ASSUME ~ Mixes
    PROVE  FileSpec => []SavedOnClose
  <1>1. FileInv => SavedOnClose
    <2> SUFFICES ASSUME FileInv, stmt = "close_fd", flush_result = 0
                 PROVE  write_buffer = <<>> /\ (~ preappend /\ ~ torn => file = ref)
      BY DEF SavedOnClose
    <2>1. Typed /\ Control /\ Placed
      BY TypesAre DEF FileInv
    <2>2. write_buffer = <<>>
      BY <2>1 DEF Control
    <2> QED BY <2>1, <2>2, NothingPending
  <1> QED BY <1>1, FileSpecInv, PTL

=============================================================================
