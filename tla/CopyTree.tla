------------------------------ MODULE CopyTree ------------------------------
(***************************************************************************)
(* copytree of ex5 (copytree.c, part3.c): a directory is copied with all   *)
(* that is in it; links are copied as links (-l) or followed, permissions  *)
(* are copied (-p) or not, and an entry that cannot be copied is skipped.  *)
(*                                                                         *)
(* The source is a tree of numbered nodes; the number of a node is also    *)
(* its name, so a path is the sequence of the nodes it goes through.  Of a *)
(* mode only two bits are kept: "w", that this user can make entries in a  *)
(* directory, and "gw", one that the umask clears.  (For the superuser all *)
(* directories have the first.)  The file system is external.              *)
(***************************************************************************)
EXTENDS Integers, FiniteSets, SequencesExt

CONSTANTS
    N,            \* number of nodes in the source
    Modes,        \* the modes of its directories and files
    MAXSYMLINKS,  \* links the kernel follows in one path
    MaxFailures   \* bound of the model: entries at which calls fail in a run

ASSUME CopyAssumption ==
    /\ N \in Nat \ {0}
    /\ Modes \subseteq SUBSET {"w", "gw"}
    /\ MAXSYMLINKS \in Nat /\ MaxFailures \in Nat

Nodes == 1..N
Root == 1          \* the source directory
Nowhere == 0       \* what a broken link points to
umask == {"gw"}
LinkMode == {"w", "gw"}   \* lstat's mode of a link, 0777
DefaultMode == {"w"}      \* 0755 and 0644

VARIABLES
    kind, up, mode, target,              \* the source: types, directories, modes, links
    copy_symlinks, copy_permissions,     \* -l and -p
    pc,
    stack,       \* the calls of copy_directory in progress
    file,        \* the entry that copy_file is copying, or Nowhere
    dst,         \* the destination: what is at which path
    failed       \* history: the paths at which a call has failed

source == <<kind, up, mode, target>>
flags == <<copy_symlinks, copy_permissions>>
vars == <<source, flags, pc, stack, file, dst, failed>>

(* Without -p no mode is read, so one choice of modes stands for all. *)
Init ==
    /\ kind \in [Nodes -> {"dir", "file", "link"}]
    /\ kind[Root] = "dir"
    /\ up \in [Nodes -> 0..(N - 1)]
    /\ \A n \in Nodes : up[n] < n /\ (n # Root => up[n] # 0 /\ kind[up[n]] = "dir")
    /\ target \in [Nodes -> Nodes \union {Nowhere}]
    /\ \A n \in Nodes : kind[n] # "link" => target[n] = Nowhere
    /\ mode \in [Nodes -> Modes \union {LinkMode}]
    /\ \A n \in Nodes : IF kind[n] = "link" THEN mode[n] = LinkMode ELSE mode[n] \in Modes
    /\ copy_symlinks \in BOOLEAN
    /\ copy_permissions \in BOOLEAN
    /\ copy_permissions \/ \A n \in Nodes : kind[n] # "link" => mode[n] = DefaultMode
    /\ pc = "main"
    /\ stack = <<>>
    /\ file = Nowhere
    /\ dst = << >>
    /\ failed = {}

-----------------------------------------------------------------------------
(* The kernel follows a link to its target, and that again if it is one;   *)
(* N links on the way are a circle.                                        *)
IsLink(n) == n # Nowhere /\ kind[n] = "link"

Chain(n) ==
    LET at[k \in 0..N] == IF k = 0 THEN n
                          ELSE IF IsLink(at[k - 1]) THEN target[at[k - 1]] ELSE at[k - 1]
    IN  at

Final(n) == IF IsLink(n) THEN Chain(n)[N] ELSE n

Hops(n) ==
    IF IsLink(n) THEN LET at == Chain(n) IN Cardinality({k \in 0..(N - 1) : IsLink(at[k])}) ELSE 0

(* What stat and open find, links links into the path. *)
Follow(n, links) ==
    IF Hops(n) < N /\ links + Hops(n) <= MAXSYMLINKS THEN Final(n) ELSE Nowhere

Entries(d) == {n \in Nodes : up[n] = d}

DirAt(path) == path \in DOMAIN dst /\ dst[path].type = "dir"

(* open, symlink and mkdir of a new name need a directory to put it in. *)
Creatable(path) ==
    /\ path \notin DOMAIN dst
    /\ path # <<>> => DirAt(Front(path)) /\ "w" \in dst[Front(path)].mode

Make(path, object) == dst' = [q \in DOMAIN dst \union {path} |->
                                IF q = path THEN object ELSE dst[q]]

Fails(path) ==
    /\ failed' = failed \union {path}
    /\ Cardinality(failed') <= MaxFailures

-----------------------------------------------------------------------------
(* copy_directory, called by main or for entry n: stat, mkdir, opendir.    *)
(* src and links are the path it is given; callers is the stack below.     *)
EnterDirectory(n, links, path, callers) ==
    LET d == Follow(n, links)
    IN  /\ Creatable(path)
        /\ Make(path, [type |-> "dir",
                       mode |-> IF copy_permissions THEN mode[d] \ umask ELSE DefaultMode])
        /\ \/ /\ stack' = Append(callers, [path |-> path, links |-> links + Hops(n), todo |-> Entries(d)])
              /\ UNCHANGED failed
           \/ /\ Fails(path)             \* opendir
              /\ stack' = callers

(* stat or mkdir fails. *)
EnterFails(path, callers) ==
    /\ \/ ~ Creatable(path) /\ UNCHANGED failed
       \/ Fails(path)
    /\ stack' = callers
    /\ UNCHANGED dst

Main ==
    /\ pc = "main"
    /\ EnterDirectory(Root, 0, <<>>, <<>>) \/ EnterFails(<<>>, <<>>)
    /\ pc' = "copy"
    /\ UNCHANGED <<source, flags, file>>

-----------------------------------------------------------------------------
Top == Last(stack)

(* readdir returns n, in any order; the loop goes on with the others. *)
Readdir(n) ==
    /\ pc = "copy" /\ stack # <<>>
    /\ n \in Top.todo

Others(n) == [stack EXCEPT ![Len(stack)].todo = @ \ {n}]
PathOf(n) == Append(Top.path, n)

(* lstat fails: the next entry.  Mutant: the end of the loop. *)
EntryFailsBreak(n) ==
    /\ Readdir(n)
    /\ Fails(PathOf(n))
    /\ stack' = [stack EXCEPT ![Len(stack)].todo = {}]
    /\ UNCHANGED <<source, flags, pc, file, dst>>

EntryFails(n) ==
    /\ Readdir(n)
    /\ Fails(PathOf(n))
    /\ stack' = Others(n)
    /\ UNCHANGED <<source, flags, pc, file, dst>>

IsDir(n) ==
    \/ kind[n] = "dir"
    \/ /\ kind[n] = "link" /\ ~ copy_symlinks
       /\ LET t == Follow(n, Top.links) IN t # Nowhere /\ kind[t] = "dir"

EntryDirectory(n) ==
    /\ Readdir(n)
    /\ IsDir(n)
    /\ EnterDirectory(n, Top.links, PathOf(n), Others(n)) \/ EnterFails(PathOf(n), Others(n))
    /\ UNCHANGED <<source, flags, pc, file>>

(* copy_file of a link, with -l. *)
CopyLink(n) ==
    /\ Readdir(n)
    /\ kind[n] = "link" /\ copy_symlinks
    /\ Creatable(PathOf(n))
    /\ Make(PathOf(n), [type |-> "link", to |-> target[n]])
    /\ stack' = Others(n)
    /\ UNCHANGED <<source, flags, pc, file, failed>>

(* copy_file of anything else; the program may be stopped after each step. *)
(* open follows links and makes an empty file.  If copy_directory's stat   *)
(* of a link to a directory has failed, the directory is opened like this. *)
OpenFile(n) ==
    /\ Readdir(n)
    /\ kind[n] = "link" => ~ copy_symlinks
    /\ Follow(n, Top.links) # Nowhere
    /\ Creatable(PathOf(n))
    /\ \/ ~ IsDir(n) /\ UNCHANGED failed
       \/ IsDir(n) /\ kind[n] = "link" /\ Fails(PathOf(n))
    /\ Make(PathOf(n), [type |-> "file", of |-> Follow(n, Top.links),
                        whole |-> FALSE, mode |-> DefaultMode])
    /\ stack' = Others(n)
    /\ file' = n /\ pc' = "write"
    /\ UNCHANGED <<source, flags>>

LeaveFile == pc' = "copy" /\ file' = Nowhere
CloseFile == IF copy_permissions THEN pc' = "chmod" /\ UNCHANGED file ELSE LeaveFile

(* The loop of read and write.  whole = FALSE is any part of the bytes.    *)
(* After a failed write there is no chmod, after a failed read there is;   *)
(* the read of a directory fails.                                          *)
CopyLoop ==
    /\ pc = "write"
    /\ LET path == PathOf(file)
           src == dst[path].of
       IN  \/ /\ kind[src] = "file"
              /\ dst' = [dst EXCEPT ![path].whole = TRUE]
              /\ CloseFile
              /\ UNCHANGED failed
           \/ /\ Fails(path)             \* read
              /\ CloseFile
              /\ UNCHANGED dst
           \/ /\ kind[src] = "file"
              /\ Fails(path)             \* write
              /\ LeaveFile
              /\ UNCHANGED dst
    /\ UNCHANGED <<source, flags, stack>>

(* Mutant: the mode is lstat's, which for a link is not the target's. *)
FileModeOfLink(n) == mode[n]
FileMode(n) == mode[Follow(n, Top.links)]

(* -p: stat or chmod may fail. *)
CopyMode ==
    /\ pc = "chmod"
    /\ \/ dst' = [dst EXCEPT ![PathOf(file)].mode = FileMode(file)] /\ UNCHANGED failed
       \/ Fails(PathOf(file)) /\ UNCHANGED dst
    /\ LeaveFile
    /\ UNCHANGED <<source, flags, stack>>

(* The object cannot be opened or made: a broken link, a directory that    *)
(* does not let us, or a failure (see EntryFails).                         *)
CopyNothing(n) ==
    /\ Readdir(n) /\ ~ IsDir(n)
    /\ \/ ~ Creatable(PathOf(n))
       \/ kind[n] = "link" /\ ~ copy_symlinks /\ Follow(n, Top.links) = Nowhere
    /\ stack' = Others(n)
    /\ UNCHANGED <<source, flags, pc, file, dst, failed>>

Return ==
    /\ pc = "copy" /\ stack # <<>>
    /\ Top.todo = {}
    /\ stack' = Front(stack)
    /\ UNCHANGED <<source, flags, pc, file, dst, failed>>

Exit ==
    /\ pc = "copy" /\ stack = <<>>
    /\ pc' = "exited"
    /\ UNCHANGED <<source, flags, stack, file, dst, failed>>

Ended == pc = "exited" /\ UNCHANGED vars

Next ==
    \/ Main \/ CopyLoop \/ CopyMode \/ Return \/ Exit \/ Ended
    \/ \E n \in Nodes : \/ EntryFails(n) \/ EntryDirectory(n)
                        \/ CopyLink(n) \/ OpenFile(n) \/ CopyNothing(n)

Spec == Init /\ [][Next]_vars

-----------------------------------------------------------------------------
(* The node a path of the destination is a copy of, and the links that its *)
(* directories are reached through.                                        *)
NodeAt(path) == IF path = <<>> THEN Root ELSE Last(path)
LinksTo(path) ==
    LET sum[k \in 0..Len(path)] == IF k = 0 THEN 0 ELSE sum[k - 1] + Hops(path[k])
    IN  sum[Len(path)]

(* A path of the source: every node but the first is in the directory      *)
(* before it, which with -l was not reached through a link.                *)
SourcePath(path) ==
    \A i \in 1..Len(path) :
      LET before == SubSeq(path, 1, i - 1)
      IN  /\ up[path[i]] = Final(NodeAt(before))
          /\ copy_symlinks => kind[NodeAt(before)] = "dir"

(* The file that copy_file is at work on. *)
Copying(path) == pc \in {"write", "chmod"} /\ path = PathOf(file)

(* At any time, so also if the program is stopped, the destination holds   *)
(* copies only, each where the source has its original: links with their   *)
(* text, files with all their bytes and, with -p, the very mode of the     *)
(* file they are copied from.  Two kinds of files may be incomplete or     *)
(* still have the default mode: the one being copied, and those at whose   *)
(* path a call has failed, which may also stand for a directory that stat  *)
(* failed for.  A directory never has a permission that its original, or   *)
(* the default, does not have, and lacks at most what umask clears.        *)
CopiesOnly ==
    \A path \in DOMAIN dst :
      LET n == NodeAt(path)
          t == Final(n)
          m == IF copy_permissions THEN mode[t] ELSE DefaultMode
      IN  /\ SourcePath(path)
          /\ path # <<>> => DirAt(Front(path))
          /\ \/ kind[n] = "link" /\ copy_symlinks /\ dst[path] = [type |-> "link", to |-> target[n]]
             \/ /\ kind[t] = "dir" /\ dst[path].type = "dir"
                /\ m \ umask \subseteq dst[path].mode /\ dst[path].mode \subseteq m
             \/ kind[t] = "file" /\ dst[path] = [type |-> "file", of |-> t, whole |-> TRUE, mode |-> m]
             \/ /\ Copying(path) \/ path \in failed
                /\ dst[path].type = "file" /\ dst[path].of = t
                /\ dst[path].mode \in {DefaultMode, m}
                /\ kind[t] = "dir" => path \in failed /\ ~ dst[path].whole

(* A failure costs its own entry only: when the program ends every entry   *)
(* of every directory copied is there, unless a call failed for it, it is  *)
(* a link to nowhere, or -p has made a directory the user cannot write in. *)
(* Links that lead in a circle are followed as far as the kernel does.     *)
NothingLeftOut ==
    pc = "exited" =>
      /\ <<>> \in DOMAIN dst \union failed
      /\ \A path \in DOMAIN dst \ failed :
           dst[path].type = "dir" =>
             \A n \in Entries(Final(NodeAt(path))) :
               \/ Append(path, n) \in DOMAIN dst \union failed
               \/ ~ copy_symlinks /\ Follow(n, LinksTo(path)) = Nowhere
               \/ copy_permissions /\ "w" \notin dst[path].mode

=============================================================================
