---------------------------- MODULE BufferedFile ----------------------------
(***************************************************************************)
(* The buffered files of ex2 (buffered_open.c): reads and writes that go   *)
(* through two buffers of BUFFER_SIZE bytes, and the O_PREAPPEND mode, in  *)
(* which every flush rewrites the file with the new bytes in front.        *)
(*                                                                         *)
(* The kernel's file is external: its content, the offset of fd, and       *)
(* read, write and lseek, which may fail; write may also stop short.  A    *)
(* call that returns early because its pointer is NULL, and a              *)
(* buffered_open that fails, change nothing and are left out.              *)
(***************************************************************************)
EXTENDS Integers, Sequences, FiniteSets

CONSTANTS
    BUFFER_SIZE,
    Bytes,       \* the bytes programs write
    MaxCount,    \* bound of the model: largest count of a read or a write
    MaxLen,      \* bound of the model: no write makes the file longer
    CallsMayFail, \* whether system calls may fail
    Mixes        \* whether a program may write again after it has read

ASSUME FileAssumption ==
    /\ BUFFER_SIZE \in Nat \ {0}
    /\ MaxCount \in Nat /\ MaxLen \in Nat
    /\ CallsMayFail \in BOOLEAN /\ Mixes \in BOOLEAN

VARIABLES
    file, offset,                 \* content of the file, offset of fd
    flags,                        \* access mode and O_APPEND
    preappend,
    read_buffer,                  \* the bytes read ahead and not delivered yet
    write_buffer,                 \* its first write_buffer_pos bytes
    stmt, caller,                 \* next statement; who has called buffered_flush
    data,                         \* what buffered_write has still to copy
    want, out,                    \* what buffered_read has still to deliver, and its out_buf
    temp_buf,                     \* the local of buffered_flush
    flush_result,                 \* the local of buffered_close
    ref, pos,                     \* the file as the program means it, and its position
    torn, errors, reading         \* a write stopped short; a call failed; a call read

kernel == <<file, offset>>
buffers == <<read_buffer, write_buffer>>
locals == <<data, want, out, temp_buf>>
meant == <<ref, pos>>
history == <<torn, errors, reading>>
fileVars == <<kernel, flags, preappend, buffers, stmt, caller, locals, flush_result, meant, history>>

Least(m, n) == IF m < n THEN m ELSE n
First(s, n) == SubSeq(s, 1, n)
From(s, n) == SubSeq(s, n + 1, Len(s))   \* all but the first n

Strings(n) == UNION {[1..k -> Bytes] : k \in 0..n}

Access == {"O_RDONLY", "O_WRONLY", "O_RDWR"}

(* No buffered_file_t exists yet. *)
FileInit ==
    /\ file \in Strings(BUFFER_SIZE)
    /\ offset = 0
    /\ flags = [access |-> "O_RDWR", append |-> FALSE]
    /\ preappend = FALSE
    /\ read_buffer = <<>> /\ write_buffer = <<>>
    /\ stmt = "closed" /\ caller = "none"
    /\ data = <<>> /\ want = 0 /\ out = <<>> /\ temp_buf = <<>>
    /\ flush_result = 0
    /\ ref = file /\ pos = 0
    /\ torn = FALSE /\ errors = FALSE /\ reading = FALSE

-----------------------------------------------------------------------------
(* buffered_open; with O_PREAPPEND a file opened for writing is opened for *)
(* reading too.  (Programs do not combine it with O_APPEND, which would    *)
(* move both writes of a flush to the end.)                                *)
Open(pre, access, append) ==
    /\ ~ (pre /\ append)
    /\ stmt = "closed" /\ stmt' = "idle"
    /\ preappend' = pre
    /\ flags' = [access |-> IF pre /\ access = "O_WRONLY" THEN "O_RDWR" ELSE access,
                 append |-> append]
    /\ UNCHANGED <<kernel, buffers, caller, locals, flush_result, meant, history>>

-----------------------------------------------------------------------------
(* The system calls.  O_APPEND moves the offset to the end before a write. *)
Readable == flags.access # "O_WRONLY"
Writable == flags.access # "O_RDONLY"

At == IF flags.append THEN Len(file) ELSE offset

Overlay(s, at, d) ==
    First(s, at) \o d \o From(s, at + Len(d))

(* write(fd, d, Len(d)) returns n. *)
SysWrite(d, n) ==
    /\ Writable
    /\ file' = Overlay(file, At, First(d, n))
    /\ offset' = At + n

(* How a write may go wrong: it fails, and nothing is written, or it       *)
(* stops short.                                                            *)
WriteFails == CallsMayFail \/ ~ Writable

SysWriteShort(d) ==
    /\ CallsMayFail
    /\ \E n \in 1..(Len(d) - 1) :
         /\ At + n <= MaxLen
         /\ SysWrite(d, n)

-----------------------------------------------------------------------------
(* A call returns to the program, with -1 if r is -1. *)
Return(r) ==
    /\ stmt' = "idle"
    /\ errors' = (errors \/ r = -1)
    /\ data' = <<>> /\ want' = 0 /\ out' = <<>>
    /\ caller' = "none"

(* buffered_flush returns r to its caller: the program, buffered_write,    *)
(* buffered_read, or buffered_close, which tries once more.                *)
ToProgram(r) == caller = "flush" /\ Return(r) /\ UNCHANGED flush_result

(* Mutant: the failure is ignored. *)
ToWriteIgnored(r) ==
    /\ caller = "write"
    /\ stmt' = "copy"
    /\ UNCHANGED <<data, want, out, errors, caller, flush_result>>

ToWrite(r) ==
    /\ caller = "write"
    /\ \/ r = 0 /\ stmt' = "copy" /\ UNCHANGED <<data, want, out, errors, caller>>
       \/ r = -1 /\ Return(r)
    /\ UNCHANGED flush_result

ToRead(r) ==
    /\ caller = "read"
    /\ \/ r = 0 /\ stmt' = "fill" /\ UNCHANGED <<data, want, out, errors, caller>>
       \/ r = -1 /\ Return(r)
    /\ UNCHANGED flush_result

(* Mutant: the result of the second try is not looked at. *)
ToCloseBlind(r) ==
    /\ \/ /\ caller = "close" /\ r = -1
          /\ stmt' = "flush" /\ caller' = "close_again"
       \/ /\ caller = "close_again" \/ (caller = "close" /\ r = 0)
          /\ stmt' = "close_fd" /\ UNCHANGED caller
    /\ UNCHANGED <<data, want, out, errors, flush_result>>

ToClose(r) ==
    /\ \/ /\ caller = "close" /\ r = -1
          /\ stmt' = "flush" /\ caller' = "close_again" /\ UNCHANGED flush_result
       \/ /\ caller = "close_again" \/ (caller = "close" /\ r = 0)
          /\ stmt' = "close_fd" /\ flush_result' = r /\ UNCHANGED caller
    /\ UNCHANGED <<data, want, out, errors>>

FlushReturn(r) ==
    /\ ToProgram(r) \/ ToWrite(r) \/ ToRead(r) \/ ToClose(r)
    /\ temp_buf' = <<>>
    /\ UNCHANGED <<flags, preappend, read_buffer, meant, reading>>

FlushCall ==
    /\ Len(file) + Len(write_buffer) <= MaxLen
    /\ stmt = "idle" /\ stmt' = "flush"
    /\ caller' = "flush"
    /\ UNCHANGED <<kernel, flags, preappend, buffers, locals, flush_result, meant, history>>

FlushEmpty ==
    /\ stmt = "flush"
    /\ write_buffer = <<>>
    /\ FlushReturn(0)
    /\ UNCHANGED <<kernel, write_buffer, torn>>

(* The end of a flush that wrote everything. *)
Flushed ==
    /\ write_buffer' = <<>>
    /\ FlushReturn(0)
    /\ UNCHANGED torn

(* The end of one that did not: the buffer is kept. *)
NotFlushed ==
    /\ FlushReturn(-1)
    /\ UNCHANGED write_buffer

FlushWrite ==
    /\ stmt = "flush"
    /\ write_buffer # <<>> /\ ~ preappend
    /\ \/ SysWrite(write_buffer, Len(write_buffer)) /\ Flushed
       \/ SysWriteShort(write_buffer) /\ NotFlushed /\ torn' = TRUE
       \/ WriteFails /\ NotFlushed /\ UNCHANGED <<kernel, torn>>

(* O_PREAPPEND, up to the first write: the file is read into temp_buf.     *)
(* lseek, malloc or read may fail, and read may stop short.  (Mutant: no   *)
(* lseek back to the start.)                                               *)
FlushLoadNoSeek ==
    /\ stmt = "flush"
    /\ write_buffer # <<>> /\ preappend
    /\ stmt' = "prepend"
    /\ temp_buf' = file
    /\ offset' = Len(file)
    /\ UNCHANGED <<file, flags, preappend, buffers, caller, data, want, out, flush_result, meant,
                   history>>

FlushLoad ==
    /\ stmt = "flush"
    /\ write_buffer # <<>> /\ preappend
    /\ stmt' = "prepend"
    /\ temp_buf' = file
    /\ offset' = 0
    /\ UNCHANGED <<file, flags, preappend, buffers, caller, data, want, out, flush_result, meant,
                   history>>

FlushLoadFail ==
    /\ stmt = "flush"
    /\ write_buffer # <<>> /\ preappend
    /\ CallsMayFail
    /\ offset' \in 0..Len(file)
    /\ NotFlushed
    /\ UNCHANGED <<file, torn>>

FlushPrepend ==
    /\ stmt = "prepend"
    /\ \/ /\ SysWrite(write_buffer, Len(write_buffer))
          /\ \/ temp_buf = <<>> /\ Flushed
             \/ /\ temp_buf # <<>>
                /\ stmt' = "move_down"
                /\ UNCHANGED <<flags, preappend, buffers, caller, locals, flush_result, meant, history>>
       \/ SysWriteShort(write_buffer) /\ NotFlushed /\ torn' = TRUE
       \/ WriteFails /\ NotFlushed /\ UNCHANGED <<kernel, torn>>

FlushMoveDown ==
    /\ stmt = "move_down"
    /\ \/ SysWrite(temp_buf, Len(temp_buf)) /\ Flushed
       \/ SysWriteShort(temp_buf) /\ NotFlushed /\ torn' = TRUE
       \/ WriteFails /\ NotFlushed /\ torn' = TRUE /\ UNCHANGED kernel

Flush == FlushEmpty \/ FlushWrite \/ FlushLoad \/ FlushLoadFail \/ FlushPrepend \/ FlushMoveDown

-----------------------------------------------------------------------------
(* buffered_write.  (Bound of the model: once a write has stopped short,   *)
(* which the program has been told, it only flushes again and closes.)     *)
WriteCall(d) ==
    /\ ~ torn
    /\ Mixes \/ ~ reading
    /\ Len(file) + Len(write_buffer) + Len(d) <= MaxLen
    /\ stmt = "idle" /\ stmt' = "copy"
    /\ caller' = "write"
    /\ data' = d
    /\ UNCHANGED <<kernel, flags, preappend, buffers, want, out, temp_buf, flush_result, meant, history>>

(* What the program means the bytes d to do: to come at its position, or,  *)
(* with O_APPEND, at the end, over what is there; with O_PREAPPEND, after  *)
(* its earlier bytes, before the old content.                              *)
Mean(d) ==
    LET at == IF flags.append THEN Len(ref) ELSE pos
    IN  /\ ref' = IF preappend THEN First(ref, pos) \o d \o From(ref, pos)
                               ELSE Overlay(ref, at, d)
        /\ pos' = at + Len(d)

(* Mutant: the space left in the buffer is not looked at. *)
WriteCopyAll ==
    /\ stmt = "copy"
    /\ data # <<>>
    /\ write_buffer' = write_buffer \o data
    /\ data' = <<>>
    /\ Mean(data)
    /\ stmt' = IF Len(write_buffer') = BUFFER_SIZE THEN "flush" ELSE "copy"
    /\ UNCHANGED <<kernel, flags, preappend, read_buffer, caller, want, out, temp_buf, flush_result,
                   history>>

WriteCopy ==
    /\ stmt = "copy"
    /\ data # <<>>
    /\ LET n == Least(Len(data), BUFFER_SIZE - Len(write_buffer))
       IN  /\ write_buffer' = write_buffer \o First(data, n)
           /\ data' = From(data, n)
           /\ Mean(First(data, n))
    /\ stmt' = IF Len(write_buffer') = BUFFER_SIZE THEN "flush" ELSE "copy"
    /\ UNCHANGED <<kernel, flags, preappend, read_buffer, caller, want, out, temp_buf, flush_result,
                   history>>

WriteReturn ==
    /\ stmt = "copy"
    /\ data = <<>>
    /\ Return(0)
    /\ UNCHANGED <<kernel, flags, preappend, buffers, temp_buf, flush_result, meant, torn, reading>>

-----------------------------------------------------------------------------
(* buffered_read *)
ReadCall(n) ==
    /\ ~ torn
    /\ stmt = "idle"
    /\ stmt' = IF write_buffer # <<>> THEN "flush" ELSE "fill"
    /\ caller' = "read"
    /\ want' = n
    /\ out' = <<>>
    /\ reading' = TRUE
    /\ UNCHANGED <<kernel, flags, preappend, buffers, data, temp_buf, flush_result, meant, torn, errors>>

ReadFill ==
    /\ stmt = "fill"
    /\ want > 0 /\ read_buffer = <<>>
    /\ Readable /\ offset < Len(file)
    /\ LET r == Least(BUFFER_SIZE, Len(file) - offset)
       IN  /\ read_buffer' = SubSeq(file, offset + 1, offset + r)
           /\ offset' = offset + r
    /\ UNCHANGED <<file, flags, preappend, write_buffer, stmt, caller, locals, flush_result, meant, history>>

(* Mutant: read_buffer_pos stays where it is. *)
ReadCopyStays ==
    /\ stmt = "fill"
    /\ want > 0 /\ read_buffer # <<>>
    /\ LET n == Least(want, Len(read_buffer))
       IN  /\ out' = out \o First(read_buffer, n)
           /\ want' = want - n
           /\ pos' = IF preappend THEN pos ELSE pos + n
    /\ UNCHANGED <<kernel, flags, preappend, buffers, stmt, caller, data, temp_buf, flush_result, ref,
                   history>>

ReadCopy ==
    /\ stmt = "fill"
    /\ want > 0 /\ read_buffer # <<>>
    /\ LET n == Least(want, Len(read_buffer))
       IN  /\ out' = out \o First(read_buffer, n)
           /\ read_buffer' = From(read_buffer, n)
           /\ want' = want - n
           /\ pos' = IF preappend THEN pos ELSE pos + n
    /\ UNCHANGED <<kernel, flags, preappend, write_buffer, stmt, caller, data, temp_buf, flush_result, ref,
                   history>>

(* count bytes delivered, or the end of the file; or read fails. *)
ReadReturn ==
    /\ stmt = "fill"
    /\ \/ want = 0 /\ Return(0)
       \/ want > 0 /\ read_buffer = <<>> /\ Readable /\ offset = Len(file) /\ Return(0)
       \/ want > 0 /\ read_buffer = <<>> /\ (CallsMayFail \/ ~ Readable) /\ Return(-1)
    /\ UNCHANGED <<kernel, flags, preappend, buffers, temp_buf, flush_result, meant, torn, reading>>

-----------------------------------------------------------------------------
(* buffered_close.  close may fail too; the descriptor and the buffers are *)
(* gone all the same.                                                      *)
CloseCall ==
    /\ stmt = "idle"
    /\ stmt' = IF write_buffer # <<>> THEN "flush" ELSE "close_fd"
    /\ caller' = "close"
    /\ flush_result' = 0
    /\ UNCHANGED <<kernel, flags, preappend, buffers, locals, meant, history>>

CloseFd ==
    /\ stmt = "close_fd"
    /\ stmt' = "closed" /\ caller' = "none"
    /\ offset' = 0
    /\ flags' = [access |-> "O_RDWR", append |-> FALSE] /\ preappend' = FALSE
    /\ read_buffer' = <<>> /\ write_buffer' = <<>>
    /\ flush_result' = 0
    /\ ref' = file /\ pos' = 0
    /\ torn' = FALSE /\ errors' = FALSE /\ reading' = FALSE
    /\ UNCHANGED <<file, locals>>

-----------------------------------------------------------------------------
Call ==
    \/ \E pre \in BOOLEAN, access \in Access, append \in BOOLEAN : Open(pre, access, append)
    \/ \E d \in Strings(MaxCount) : WriteCall(d)
    \/ \E n \in 0..MaxCount : ReadCall(n)
    \/ FlushCall \/ CloseCall

Step ==
    Flush \/ WriteCopy \/ WriteReturn \/ ReadFill \/ ReadCopy \/ ReadReturn \/ CloseFd

FileNext == Call \/ Step

(* The program's thread goes on with the call it has made. *)
FileSpec == FileInit /\ [][FileNext]_fileVars /\ WF_fileVars(Step)

-----------------------------------------------------------------------------
(* The types of the variables: no buffer overflows, and a program finds    *)
(* the write buffer full only after a flush that failed.                   *)
FileTypeOK ==
    /\ file \in Seq(Bytes) /\ offset \in 0..Len(file)
    /\ flags \in [access : Access, append : BOOLEAN]
    /\ preappend \in BOOLEAN
    /\ read_buffer \in Strings(BUFFER_SIZE)
    /\ write_buffer \in Strings(BUFFER_SIZE)
    /\ stmt = "idle" /\ ~ errors => Len(write_buffer) < BUFFER_SIZE
    /\ stmt \in {"closed", "idle", "flush", "prepend", "move_down", "copy", "fill", "close_fd"}
    /\ caller \in {"none", "flush", "write", "read", "close", "close_again"}
    /\ data \in Strings(MaxCount) /\ want \in 0..MaxCount
    /\ out \in Strings(MaxCount) /\ temp_buf \in Seq(Bytes)
    /\ flush_result \in {0, -1}
    /\ ref \in Seq(Bytes) /\ pos \in 0..Len(ref)
    /\ {torn, errors, reading} \subseteq BOOLEAN

Count(b, s) == Cardinality({k \in 1..Len(s) : s[k] = b})

(* As long as no write stopped short, and whatever else failed, the file   *)
(* is the one the program means.  Without O_PREAPPEND: with what           *)
(* buffered_write still keeps in its buffer put where the next flush will  *)
(* put it.  With O_PREAPPEND: the old content is, in one piece, at its     *)
(* end, and every byte written is in front of it or in the buffer.         *)
Consistent ==
    /\ ~ preappend /\ ~ torn => Overlay(file, At, write_buffer) = ref
    /\ preappend /\ ~ torn /\ stmt # "move_down" =>
         LET all == write_buffer \o file
         IN  /\ Len(all) = Len(ref)
             /\ From(all, pos) = From(ref, pos)
             /\ \A b \in Bytes : Count(b, all) = Count(b, ref)

(* buffered_read delivers, and has read ahead, the bytes of the file from  *)
(* the program's position on, pending writes included.                     *)
ReadsInOrder ==
    ~ preappend /\ ~ torn /\ stmt = "fill" =>
      /\ pos + Len(read_buffer) = offset
      /\ out \o read_buffer = SubSeq(ref, pos - Len(out) + 1, offset)

(* A buffered_close that returns 0 has put every byte in the file, unless  *)
(* a write stopped short.                                                  *)
SavedOnClose ==
    stmt = "close_fd" /\ flush_result = 0 =>
      /\ write_buffer = <<>>
      /\ ~ preappend /\ ~ torn => file = ref

(* Every call returns: the loops of buffered_write and buffered_read end   *)
(* even when every flush fails.                                            *)
CallsReturn == stmt # "idle" ~> stmt \in {"idle", "closed"}

=============================================================================
