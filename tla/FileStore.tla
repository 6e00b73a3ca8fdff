----------------------------- MODULE FileStore -----------------------------
(***************************************************************************)
(* What the block layer of ex5/bonus/fs.c promises to its callers: a file  *)
(* is a sequence of bytes that only its own calls change, a write that     *)
(* stops short has stored what it says, and after a crash every file is as *)
(* it was when a set of calls, with none in progress, had ended.           *)
(***************************************************************************)
EXTENDS Integers, Sequences

CONSTANTS
    Files,
    Bytes,
    Unknown,   \* a byte that may have one value or another
    MaxSize    \* MAXFILE * BSIZE

VARIABLES
    content,   \* the bytes of every file, as of the last call on it that ended
    saved      \* the contents that survive a crash

FileInit ==
    /\ content = [f \in Files |-> <<>>]
    /\ saved = content

(* The log has been committed with this step, or not. *)
Commit == saved' \in {saved, content'}

(* new is old after a write of b at off that stored tot bytes and failed   *)
(* in the next ones: those up to off + n are unknown from then on, because *)
(* they may be stored now and gone later.                                  *)
Written(old, new, off, n, tot, b) ==
    /\ Len(new) = IF off + tot > Len(old) THEN off + tot ELSE Len(old)
    /\ \A k \in 1..Len(new) :
         new[k] = CASE k \in (off + 1)..(off + tot) -> b
                    [] k \in (off + tot + 1)..(off + n) -> Unknown
                    [] OTHER -> old[k]

Write(f) ==
    \E off \in 0..Len(content[f]), n \in 0..MaxSize, b \in Bytes :
      /\ off + n <= MaxSize
      /\ \E tot \in 0..n : Written(content[f], content'[f], off, n, tot, b)

Truncate(f) == content'[f] = <<>>

Call(f) ==
    /\ Write(f) \/ Truncate(f)
    /\ \A g \in Files \ {f} : content'[g] = content[g]
    /\ Commit

Crash == content' = saved /\ UNCHANGED saved

FileNext == Crash \/ \E f \in Files : Call(f)

FileSpec == FileInit /\ [][FileNext]_<<content, saved>>

=============================================================================
