------------------------------- MODULE XvInode -------------------------------
(***************************************************************************)
(* Inodes of ex5/bonus: the inode table of fs.c and the system calls of    *)
(* sysfile.c and exec.c that work on it, for files of the root directory   *)
(* and processes on several CPUs.                                          *)
(*                                                                         *)
(* A critical section of itable.lock is one step, and so is what a process *)
(* does with an inode while it has that inode's sleep-lock, unless the     *)
(* inode on disk can be seen by ialloc in between.  The content of files   *)
(* is left out, and with it bmap, readi, writei and itrunc.                *)
(***************************************************************************)
EXTENDS Integers, FiniteSets, FiniteSetsExt

CONSTANTS
    Procs, NoProc,
    Names,       \* names in the root directory
    ninodes,     \* inodes on disk: 1..ninodes
    NINODE,      \* entries of the inode table
    OpenModes,   \* the omode arguments of open: sets of flags, O_RDONLY is {}
    Permissions  \* the mode arguments of chmod: sets of owner bits

ASSUME InodeAssumption ==
    /\ IsFiniteSet(Procs) /\ NoProc \notin Procs
    /\ IsFiniteSet(Names)
    /\ ninodes \in Nat /\ NINODE \in Nat
    /\ OpenModes \subseteq SUBSET {"O_WRONLY", "O_RDWR", "O_CREATE", "O_TRUNC"}
    /\ Permissions \subseteq SUBSET {"r", "w", "x"}

Inums == 1..ninodes
Slots == 1..NINODE
T_FILE == 1
Inodes == [type : {0, T_FILE}, nlink : Nat, permissions : SUBSET {"r", "w", "x"}]
NoInode == [type |-> 0, nlink |-> 0, permissions |-> {}]

VARIABLES
    disk,       \* the dinodes
    dir,        \* the root directory: name -> inode number, 0 for none
    dirlock,    \* holder of the directory's sleep-lock
    inum, ref, valid, data,  \* fields of an entry; data is its copy of the dinode
    lock,       \* holder of its sleep-lock
    place,      \* next step of every process
    call,       \* its system call: <<name, first argument, second argument>>
    ip,         \* its local ip, an entry or 0
    fd          \* the entry of its open file or 0; NOFILE is 1 here

entries == <<inum, ref, valid>>
local == <<call, fd>>
inodeVars == <<disk, dir, dirlock, entries, data, lock, place, call, ip, fd>>

Idle == <<"none">>

InodeInit ==
    /\ disk = [i \in Inums |-> NoInode]
    /\ dir = [n \in Names |-> 0]
    /\ dirlock = NoProc
    /\ inum = [e \in Slots |-> 0]
    /\ ref = [e \in Slots |-> 0]
    /\ valid = [e \in Slots |-> FALSE]
    /\ data = [e \in Slots |-> NoInode]
    /\ lock = [e \in Slots |-> NoProc]
    /\ place = [p \in Procs |-> "idle"]
    /\ call = [p \in Procs |-> Idle]
    /\ ip = [p \in Procs |-> 0]
    /\ fd = [p \in Procs |-> 0]

Goto(p, from, to) ==
    /\ place[p] = from
    /\ place' = [place EXCEPT ![p] = to]

Is(p, op) == call[p][1] = op
Name(p) == call[p][2]
Arg(p) == call[p][3]

SysReturn(p, from) ==
    /\ Goto(p, from, "idle")
    /\ call' = [call EXCEPT ![p] = Idle]
    /\ ip' = [ip EXCEPT ![p] = 0]

-----------------------------------------------------------------------------
(* fs.c *)
Cached(i) == {e \in Slots : ref[e] > 0 /\ inum[e] = i}
Empty == {e \in Slots : ref[e] = 0}

(* iget: the entry that has inode i, or else the first one not in use.     *)
(* With as many entries as inodes there is one (see NoDangling); without,  *)
(* the panic of iget is no step of the model, and nothing is said of it.   *)
iget(p, i) ==
    \/ \E e \in Cached(i) :
         /\ ref' = [ref EXCEPT ![e] = @ + 1]
         /\ ip' = [ip EXCEPT ![p] = e]
         /\ UNCHANGED <<inum, valid>>
    \/ /\ Cached(i) = {}
       /\ Empty # {}
       /\ LET e == Min(Empty)
          IN  /\ inum' = [inum EXCEPT ![e] = i]
              /\ ref' = [ref EXCEPT ![e] = 1]
              /\ valid' = [valid EXCEPT ![e] = FALSE]
              /\ ip' = [ip EXCEPT ![p] = e]

(* ilock reads the inode from disk if the entry is not valid. *)
ilock(p, from, to) ==
    /\ Goto(p, from, to)
    /\ lock[ip[p]] = NoProc
    /\ lock' = [lock EXCEPT ![ip[p]] = p]
    /\ data' = [data EXCEPT ![ip[p]] = IF valid[ip[p]] THEN @ ELSE disk[inum[ip[p]]]]
    /\ valid' = [valid EXCEPT ![ip[p]] = TRUE]
    /\ UNCHANGED <<disk, dir, dirlock, inum, ref, local, ip>>

iunlock(p) == lock' = [lock EXCEPT ![ip[p]] = NoProc]

(* A store to a field of ip, and iupdate. *)
iupdate(p, new) ==
    /\ data' = [data EXCEPT ![ip[p]] = new]
    /\ disk' = [disk EXCEPT ![inum[ip[p]]] = new]

Nlink(p, n) == [data[ip[p]] EXCEPT !.nlink = n]

(* The first half of iunlockput. *)
Unlock(p, from) ==
    /\ Goto(p, from, "iput")
    /\ iunlock(p)
    /\ UNCHANGED <<disk, dir, dirlock, entries, data, local, ip>>

LastRef(p) == ref[ip[p]] = 1 /\ valid[ip[p]] /\ data[ip[p]].nlink = 0

(* ref--, and the caller's end_op, with the iunlockput(dp) of a create     *)
(* that failed.  The other fields of an entry without references are not   *)
(* read before iget and ilock set them; they are cleared here.             *)
IputReturn(p, from) ==
    LET e == ip[p]
    IN  /\ SysReturn(p, from)
        /\ ref' = [ref EXCEPT ![e] = @ - 1]
        /\ IF ref[e] = 1
           THEN /\ inum' = [inum EXCEPT ![e] = 0]
                /\ valid' = [valid EXCEPT ![e] = FALSE]
                /\ data' = [data EXCEPT ![e] = NoInode]
           ELSE UNCHANGED <<inum, valid, data>>
        /\ dirlock' = IF dirlock = p THEN NoProc ELSE dirlock
        /\ UNCHANGED <<disk, dir, lock, fd>>

IputDrop(p) == ~ (place[p] = "iput" /\ LastRef(p)) /\ IputReturn(p, "iput")

(* Mutant: the test for other references is missing. *)
IputLastShared(p) ==
    /\ Goto(p, "iput", "free")
    /\ valid[ip[p]] /\ data[ip[p]].nlink = 0
    /\ lock[ip[p]] = NoProc
    /\ lock' = [lock EXCEPT ![ip[p]] = p]
    /\ UNCHANGED <<disk, dir, dirlock, entries, data, local, ip>>

IputLast(p) ==
    /\ Goto(p, "iput", "free")
    /\ LastRef(p)
    /\ lock[ip[p]] = NoProc
    /\ lock' = [lock EXCEPT ![ip[p]] = p]
    /\ UNCHANGED <<disk, dir, dirlock, entries, data, local, ip>>

(* From here on ialloc can take the inode. *)
IputFree(p) ==
    /\ Goto(p, "free", "invalidate")
    /\ iupdate(p, [data[ip[p]] EXCEPT !.type = 0])
    /\ UNCHANGED <<dir, dirlock, entries, lock, local, ip>>

IputInvalidate(p) ==
    /\ Goto(p, "invalidate", "drop")
    /\ valid' = [valid EXCEPT ![ip[p]] = FALSE]
    /\ iunlock(p)
    /\ UNCHANGED <<disk, dir, dirlock, inum, ref, data, local, ip>>

iput(p) ==
    IputDrop(p) \/ IputLast(p) \/ IputFree(p) \/ IputInvalidate(p) \/ IputReturn(p, "drop")

-----------------------------------------------------------------------------
(* Paths: namei looks a name up with the directory locked. *)
Namei(p) ==
    /\ Goto(p, "namei", "ilock")
    /\ dirlock = NoProc
    /\ dir[Name(p)] # 0
    /\ iget(p, dir[Name(p)])
    /\ UNCHANGED <<disk, dir, dirlock, data, lock, local>>

NameiNone(p) ==
    /\ SysReturn(p, "namei")
    /\ dirlock = NoProc
    /\ dir[Name(p)] = 0
    /\ UNCHANGED <<disk, dir, dirlock, entries, data, lock, fd>>

(* create, when the name exists: the directory is unlocked first. *)
CreateFound(p) ==
    /\ Is(p, "create")
    /\ Goto(p, "parent", "ilock")
    /\ dirlock = NoProc
    /\ dir[Name(p)] # 0
    /\ iget(p, dir[Name(p)])
    /\ UNCHANGED <<disk, dir, dirlock, data, lock, local>>

FreeInums == {i \in Inums : disk[i].type = 0}

(* create and ialloc: dirlookup finds nothing, and the directory stays     *)
(* locked.                                                                 *)
CreateAlloc(p) ==
    /\ Is(p, "create")
    /\ place[p] = "parent"
    /\ dirlock = NoProc
    /\ dir[Name(p)] = 0
    /\ FreeInums # {}
    /\ LET i == Min(FreeInums)
       IN  /\ disk' = [disk EXCEPT ![i] = [type |-> T_FILE, nlink |-> 0,
                                            permissions |-> {"r", "w", "x"}]]
           /\ call' = [call EXCEPT ![p] = <<"create", Name(p), Arg(p), i>>]
    /\ place' = [place EXCEPT ![p] = "iget"]
    /\ dirlock' = p
    /\ UNCHANGED <<dir, entries, data, lock, ip, fd>>

CreateNone(p) ==
    /\ Is(p, "create")
    /\ SysReturn(p, "parent")
    /\ dirlock = NoProc
    /\ dir[Name(p)] = 0
    /\ FreeInums = {}
    /\ UNCHANGED <<disk, dir, dirlock, entries, data, lock, fd>>

CreateGet(p) ==
    /\ Goto(p, "iget", "ilock_new")
    /\ iget(p, call[p][4])
    /\ UNCHANGED <<disk, dir, dirlock, data, lock, local>>

CreateInit(p) ==
    /\ Goto(p, "init", "dirlink")
    /\ iupdate(p, Nlink(p, 1))
    /\ UNCHANGED <<dir, dirlock, entries, lock, local, ip>>

CreateLink(p) ==
    /\ Goto(p, "dirlink", "locked")
    /\ dir' = [dir EXCEPT ![Name(p)] = inum[ip[p]]]
    /\ dirlock' = NoProc
    /\ UNCHANGED <<disk, entries, data, lock, local, ip>>

(* dirlink finds no disk block.  (Mutant: without ip->nlink = 0.) *)
CreateFailKeeps(p) ==
    /\ Goto(p, "dirlink", "iput")
    /\ iunlock(p)
    /\ UNCHANGED <<disk, dir, dirlock, entries, data, local, ip>>

CreateFail(p) ==
    /\ Goto(p, "dirlink", "iput")
    /\ iupdate(p, Nlink(p, 0))
    /\ iunlock(p)
    /\ UNCHANGED <<dir, dirlock, entries, local, ip>>

Create(p) ==
    \/ CreateFound(p) \/ CreateAlloc(p) \/ CreateNone(p) \/ CreateGet(p)
    \/ ilock(p, "ilock_new", "init") \/ CreateInit(p) \/ CreateLink(p) \/ CreateFail(p)

-----------------------------------------------------------------------------
(* check_permission compares the whole mode, so that flags next to         *)
(* O_WRONLY or O_RDWR make both tests false.                               *)
check_permission(p) ==
    /\ Arg(p) \in {{}, {"O_RDWR"}} => "r" \in data[ip[p]].permissions
    /\ Arg(p) \in {{"O_WRONLY"}, {"O_RDWR"}} => "w" \in data[ip[p]].permissions

Opening(p) == Is(p, "open") \/ Is(p, "create")

(* sys_open, the inode locked: refused, out of descriptors, or opened.     *)
(* (Mutant: a refused open forgets iput.)                                  *)
OpenRefusedLeaks(p) ==
    /\ Opening(p)
    /\ SysReturn(p, "locked")
    /\ ~ check_permission(p) \/ fd[p] # 0
    /\ iunlock(p)
    /\ UNCHANGED <<disk, dir, dirlock, entries, data, fd>>

OpenRefused(p) ==
    /\ Opening(p)
    /\ Unlock(p, "locked")
    /\ ~ check_permission(p) \/ fd[p] # 0

Open(p) ==
    /\ Opening(p)
    /\ SysReturn(p, "locked")
    /\ check_permission(p)
    /\ fd[p] = 0
    /\ fd' = [fd EXCEPT ![p] = ip[p]]
    /\ iunlock(p)
    /\ UNCHANGED <<disk, dir, dirlock, entries, data>>

(* sys_chmod *)
Chmod(p) ==
    /\ Is(p, "chmod")
    /\ Goto(p, "locked", "iput")
    /\ iupdate(p, [data[ip[p]] EXCEPT !.permissions = Arg(p)])
    /\ iunlock(p)
    /\ UNCHANGED <<dir, dirlock, entries, local, ip>>

(* sys_getperm, and what exec does with the inode whether or not it may    *)
(* run the file.                                                           *)
Getperm(p) == Is(p, "getperm") /\ Unlock(p, "locked")

(* sys_link *)
LinkInc(p) ==
    /\ Is(p, "link")
    /\ Goto(p, "locked", "link")
    /\ iupdate(p, Nlink(p, data[ip[p]].nlink + 1))
    /\ iunlock(p)
    /\ UNCHANGED <<dir, dirlock, entries, local, ip>>

LinkEnter(p) ==
    /\ Goto(p, "link", "iput")
    /\ dirlock = NoProc
    /\ dir[Arg(p)] = 0
    /\ dir' = [dir EXCEPT ![Arg(p)] = inum[ip[p]]]
    /\ UNCHANGED <<disk, dirlock, entries, data, lock, local, ip>>

(* The new name exists, or there is no disk block for it.  (dirlookup's    *)
(* reference to the inode of that name is dropped before the lock is.)     *)
LinkBad(p) ==
    /\ Goto(p, "link", "bad")
    /\ dirlock = NoProc
    /\ UNCHANGED <<disk, dir, dirlock, entries, data, lock, local, ip>>

LinkUndo(p) ==
    /\ Goto(p, "undo", "iput")
    /\ iupdate(p, Nlink(p, data[ip[p]].nlink - 1))
    /\ iunlock(p)
    /\ UNCHANGED <<dir, dirlock, entries, local, ip>>

Link(p) ==
    LinkInc(p) \/ LinkEnter(p) \/ LinkBad(p) \/ ilock(p, "bad", "undo") \/ LinkUndo(p)

(* sys_unlink: the directory stays locked until the name is gone, the      *)
(* inode until nlink is written.                                           *)
UnlinkFind(p) ==
    /\ Is(p, "unlink")
    /\ Goto(p, "parent", "ilock")
    /\ dirlock = NoProc
    /\ dir[Name(p)] # 0
    /\ iget(p, dir[Name(p)])
    /\ dirlock' = p
    /\ UNCHANGED <<disk, dir, data, lock, local>>

UnlinkNone(p) ==
    /\ Is(p, "unlink")
    /\ SysReturn(p, "parent")
    /\ dirlock = NoProc
    /\ dir[Name(p)] = 0
    /\ UNCHANGED <<disk, dir, dirlock, entries, data, lock, fd>>

(* Mutant: the entry is not erased. *)
UnlinkEraseNot(p) ==
    /\ Is(p, "unlink")
    /\ Goto(p, "locked", "unlink")
    /\ dirlock' = NoProc
    /\ UNCHANGED <<disk, dir, entries, data, lock, local, ip>>

UnlinkErase(p) ==
    /\ Is(p, "unlink")
    /\ Goto(p, "locked", "unlink")
    /\ dir' = [dir EXCEPT ![Name(p)] = 0]
    /\ dirlock' = NoProc
    /\ UNCHANGED <<disk, entries, data, lock, local, ip>>

UnlinkDec(p) ==
    /\ Goto(p, "unlink", "iput")
    /\ iupdate(p, Nlink(p, data[ip[p]].nlink - 1))
    /\ iunlock(p)
    /\ UNCHANGED <<dir, dirlock, entries, local, ip>>

Unlink(p) == UnlinkFind(p) \/ UnlinkNone(p) \/ UnlinkErase(p) \/ UnlinkDec(p)

-----------------------------------------------------------------------------
(* The system calls a process can make. *)
Begin(p, c, to) ==
    /\ Goto(p, "idle", to)
    /\ call' = [call EXCEPT ![p] = c]
    /\ UNCHANGED <<disk, dir, dirlock, entries, data, lock, ip, fd>>

Close(p) ==
    /\ fd[p] # 0
    /\ Goto(p, "idle", "iput")
    /\ ip' = [ip EXCEPT ![p] = fd[p]]
    /\ fd' = [fd EXCEPT ![p] = 0]
    /\ UNCHANGED <<disk, dir, dirlock, entries, data, lock, call>>

SysCall(p) ==
    \/ \E n \in Names :
         \/ \E m \in OpenModes :
              IF "O_CREATE" \in m THEN Begin(p, <<"create", n, m>>, "parent")
                                  ELSE Begin(p, <<"open", n, m>>, "namei")
         \/ \E m \in Permissions : Begin(p, <<"chmod", n, m>>, "namei")
         \/ Begin(p, <<"getperm", n>>, "namei")
         \/ \E new \in Names : Begin(p, <<"link", n, new>>, "namei")
         \/ Begin(p, <<"unlink", n>>, "parent")
    \/ Close(p)

Step(p) ==
    \/ Namei(p) \/ NameiNone(p) \/ ilock(p, "ilock", "locked")
    \/ Create(p) \/ OpenRefused(p) \/ Open(p)
    \/ Chmod(p) \/ Getperm(p) \/ Link(p) \/ Unlink(p) \/ iput(p)

InodeNext == \E p \in Procs : SysCall(p) \/ Step(p)

InodeSpec == InodeInit /\ [][InodeNext]_inodeVars

-----------------------------------------------------------------------------
Places == {"idle", "namei", "parent", "ilock", "locked", "iget", "ilock_new", "init",
           "dirlink", "link", "bad", "undo", "unlink", "iput", "free", "invalidate", "drop"}

(* The types of the variables; in particular no count is ever negative. *)
TypeOK ==
    /\ disk \in [Inums -> Inodes]
    /\ dir \in [Names -> Inums \union {0}]
    /\ dirlock \in Procs \union {NoProc}
    /\ inum \in [Slots -> Inums \union {0}]
    /\ ref \in [Slots -> Nat]
    /\ valid \in [Slots -> BOOLEAN]
    /\ data \in [Slots -> Inodes]
    /\ lock \in [Slots -> Procs \union {NoProc}]
    /\ place \in [Procs -> Places]
    /\ ip \in [Procs -> Slots \union {0}]
    /\ fd \in [Procs -> Slots \union {0}]

At(locs) == {p \in Procs : place[p] \in locs}

(* The kernel's panics are out of reach for any interleaving of calls:     *)
(* ilock of an entry without references or of a free inode, unlink of an   *)
(* inode without links; and iput's acquiresleep, made with itable.lock     *)
(* held, never waits, as its comment says.                                 *)
NoPanic ==
    /\ \A p \in At({"ilock", "ilock_new", "bad"}) :
         /\ ref[ip[p]] >= 1
         /\ lock[ip[p]] = NoProc /\ ~ valid[ip[p]] => disk[inum[ip[p]]].type # 0
    /\ \A p \in At({"locked"}) : Is(p, "unlink") => data[ip[p]].nlink >= 1
    /\ \A p \in At({"iput"}) : LastRef(p) => lock[ip[p]] = NoProc

(* The types are right, and ref counts exactly the pointers to an entry:   *)
(* the local ip of a process inside a call and the open files.  No error   *)
(* path keeps one.                                                         *)
RefCounts ==
    /\ TypeOK
    /\ \A e \in Slots :
         ref[e] = Cardinality({p \in Procs : ip[p] = e}) + Cardinality({p \in Procs : fd[p] = e})

(* The calls between a change of nlink and the directory entry it is for. *)
LinksPending(i) == {p \in At({"link", "bad", "undo", "unlink", "dirlink"}) : inum[ip[p]] = i}

(* The nlink of an allocated inode is the number of its names, apart from  *)
(* the calls in progress.                                                  *)
LinkCounts ==
    \A i \in Inums : disk[i].type # 0 =>
      disk[i].nlink = Cardinality({n \in Names : dir[n] = i}) + Cardinality(LinksPending(i))

(* No inode is in the table twice, and every name and every open file      *)
(* belongs to an inode that is allocated: none is freed, or handed out     *)
(* again by ialloc, while somebody can still reach it.                     *)
NoDangling ==
    /\ \A i \in Inums : Cardinality(Cached(i)) <= 1
    /\ \A n \in Names : dir[n] # 0 => disk[dir[n]].type # 0
    /\ \A p \in Procs : fd[p] # 0 => disk[inum[fd[p]]].type # 0

(* An allocated inode that has no name is still referenced, or about to be *)
(* by the create that allocated it: no path through create, link or unlink *)
(* leaves an inode behind that nobody can free.                            *)
NoLeak ==
    \A i \in Inums : disk[i].type # 0 =>
      \/ \E n \in Names : dir[n] = i
      \/ Cached(i) # {}
      \/ \E p \in At({"iget"}) : call[p][4] = i

=============================================================================
