------------------------------- MODULE CopyFd -------------------------------
(***************************************************************************)
(* The regular-file branch of bootstrapbox cp's copy_file (cp.c 279-338)   *)
(* and the copy loop it calls, bb_copyfd_eof in copyfd.c: one step per     *)
(* system call (open, unlink, read, write, close) and one per stretch of   *)
(* code between them.  The file system may return short counts and errors *)
(* (the constant Faults says which).  EINTR is retried by safe_read and    *)
(* safe_write without any change of state, so it is a stuttering step and  *)
(* is not modelled.                                                        *)
(*                                                                         *)
(* size_t and int are W bits wide (32 on the ARM target): counts are kept  *)
(* modulo 2^W and the size_t result of bb_full_fd_action is converted to   *)
(* int as the target does.  Byte i of the source is the number i, so a     *)
(* byte written out of place differs from the source.                      *)
(***************************************************************************)
EXTENDS Integers, Sequences

CONSTANTS
    W,        \* bits of size_t and int
    BUFSIZ,   \* size of the copy buffer (4096 in the code)
    MaxLen,   \* longest source file
    Faults,   \* the faults the file system may produce, a subset of FaultKinds
    NoFile    \* model value: the destination path does not exist

FaultKinds ==
    {"short_read", "short_write", "read_error", "write_error", "open_error",
     "close_error"}

ASSUME /\ W \in Nat \ {0, 1}
       /\ BUFSIZ \in Nat \ {0}
       /\ MaxLen \in Nat
       /\ Faults \subseteq FaultKinds

\* size_t arithmetic and the size_t -> int conversion of the target
Wrap(x) == x % (2^W)
ToInt(x) == IF x < 2^(W-1) THEN x ELSE x - 2^W

\* copyfd.c:34 defines ULONG_MAX as 0xffffffff, the largest size_t on the target
ULONG_MAX == 2^W - 1

Junk == 0                                \* a byte that is not the source's
Bytes == 0..MaxLen
SourceOf(n) == [i \in 1..n |-> i]
Sources == {SourceOf(n) : n \in 0..MaxLen}

VARIABLES
    source,       \* contents of the source file
    dest,         \* contents of the destination path, or NoFile
    force,        \* FILEUTILS_FORCE (-f)
    dest_exists,  \* copy_file's dest_exists
    pc,           \* the next step of copy_file
    rpos,         \* file offset of src_fd
    buffer,       \* the BUFSIZ buffer of bb_full_fd_action
    total, xread, wrote, status,  \* bb_full_fd_action's locals
    rlen, rtotal, \* bb_full_read's len and total; its buf is buffer + rtotal
    wlen, wtotal, \* bb_full_write's len and total; its buf is buffer + wtotal
    result        \* copy_file's status

vars == <<source, dest, force, dest_exists, pc, rpos, buffer, total, xread,
          wrote, status, rlen, rtotal, wlen, wtotal, result>>
fdvars == <<rpos, buffer, total, xread, wrote, status, rlen, rtotal, wlen, wtotal>>

PCs == {"open_src", "open_trunc", "unlink", "create", "fd_begin", "loop",
        "read", "after_read", "write", "after_write", "fd_ret", "close_dst",
        "close_src", "done"}

TypeOK ==
    /\ source \in Sources
    /\ dest = NoFile \/ dest \in Seq(Bytes)
    /\ force \in BOOLEAN /\ dest_exists \in BOOLEAN
    /\ pc \in PCs
    /\ rpos \in 0..Len(source)
    /\ buffer \in [1..BUFSIZ -> Bytes]
    /\ {total, xread, wrote, wlen} \subseteq 0..ULONG_MAX
    /\ status \in {-1, 0}
    /\ rlen \in 0..BUFSIZ /\ rtotal \in 0..BUFSIZ /\ wtotal \in 0..BUFSIZ
    /\ result \in {-1, 0}

\* lstat of the destination (cp.c 186-198): it exists or it does not.
Init ==
    /\ source \in Sources
    /\ dest \in {NoFile, <<Junk>>}
    /\ force \in BOOLEAN
    /\ dest_exists = (dest # NoFile)
    /\ pc = "open_src"
    /\ rpos = 0
    /\ buffer = [i \in 1..BUFSIZ |-> Junk]
    /\ total = 0 /\ xread = 0 /\ wrote = 0 /\ status = -1
    /\ rlen = 0 /\ rtotal = 0 /\ wlen = 0 /\ wtotal = 0
    /\ result = 0

\* What open(), unlink() and close() may return: success, or failure when
\* the file system fails them.
Outcomes(kind) == IF kind \in Faults THEN BOOLEAN ELSE {TRUE}

\* copy_file gives up: return -1 (src_fd is closed, its result ignored)
GiveUp ==
    /\ pc' = "done"
    /\ result' = -1

OpenSrc ==
    /\ pc = "open_src"
    /\ \E ok \in Outcomes("open_error") :
          IF ok THEN pc' = (IF dest_exists THEN "open_trunc" ELSE "create")
                     /\ UNCHANGED result
                ELSE GiveUp
    /\ UNCHANGED <<source, dest, force, dest_exists, fdvars>>

\* open(dest, O_WRONLY|O_TRUNC); on failure -f unlinks and recreates
OpenTrunc ==
    /\ pc = "open_trunc"
    /\ \E ok \in Outcomes("open_error") :
          CASE ok -> dest' = <<>> /\ pc' = "fd_begin" /\ UNCHANGED result
            [] force -> pc' = "unlink" /\ UNCHANGED <<dest, result>>
            [] OTHER -> GiveUp /\ UNCHANGED dest
    /\ UNCHANGED <<source, force, dest_exists, fdvars>>

Unlink ==
    /\ pc = "unlink"
    /\ \E ok \in Outcomes("open_error") :
          IF ok THEN dest' = NoFile /\ dest_exists' = FALSE /\ pc' = "create"
                     /\ UNCHANGED result
                ELSE GiveUp /\ UNCHANGED <<dest, dest_exists>>
    /\ UNCHANGED <<source, force, fdvars>>

\* open(dest, O_WRONLY|O_CREAT, mode)
Create ==
    /\ pc = "create"
    /\ \E ok \in Outcomes("open_error") :
          IF ok THEN dest' = <<>> /\ pc' = "fd_begin" /\ UNCHANGED result
                ELSE GiveUp /\ UNCHANGED dest
    /\ UNCHANGED <<source, force, dest_exists, fdvars>>

\* bb_copyfd_eof(src_fd, dst_fd): size 0 means ULONG_MAX; malloc the buffer
FdBegin ==
    /\ pc = "fd_begin"
    /\ buffer' = [i \in 1..BUFSIZ |-> Junk]
    /\ total' = 0 /\ wrote' = 0 /\ status' = -1
    /\ pc' = "loop"
    /\ UNCHANGED <<source, dest, force, dest_exists, rpos, xread, rlen, rtotal,
                   wlen, wtotal, result>>

\* The amount asked of bb_full_read: BUFSIZ, or what is left below size.
Request(size) ==
    IF size < Wrap(total + BUFSIZ) THEN size - total ELSE BUFSIZ

\* while (total < size): call bb_full_read, or leave the loop
Loop ==
    /\ pc = "loop"
    /\ IF total < ULONG_MAX
          THEN /\ rlen' = Request(ULONG_MAX)
               /\ rtotal' = 0
               /\ pc' = "read"
          ELSE /\ pc' = "fd_ret"
               /\ UNCHANGED <<rlen, rtotal>>
    /\ UNCHANGED <<source, dest, force, dest_exists, rpos, buffer, total, xread,
                   wrote, status, wlen, wtotal, result>>

\* bb_full_read returns v, stored in the size_t xread
ReadReturn(v) == xread' = Wrap(v) /\ pc' = "after_read"

\* What one read() may return with avail bytes left before end of file:
\* the count asked for or (short reads) any smaller one, 0 at end of file,
\* -1 on an I/O error.
ReadResults(avail) ==
    LET full == IF rlen < avail THEN rlen ELSE avail
        counts == IF avail = 0 THEN {0}
                  ELSE IF "short_read" \in Faults THEN 1..full ELSE {full}
    IN  counts \cup (IF "read_error" \in Faults THEN {-1} ELSE {})

\* A mistaken bb_full_read that does not stop at end of file.
ReadStopNoBreak(cc) ==
    IF cc < 0 THEN ReadReturn(cc) /\ UNCHANGED <<rpos, buffer, rlen, rtotal>>
              ELSE UNCHANGED <<rpos, buffer, rlen, rtotal, xread, pc>>
\* cc < 0: return cc; cc == 0: end of file, return what was read so far
ReadStop(cc) ==
    /\ ReadReturn(IF cc < 0 THEN cc ELSE rtotal)
    /\ UNCHANGED <<rpos, buffer, rlen, rtotal>>

\* A mistaken bb_full_read that does not advance buf after a short read.
ReadIntoNoAdvance(n) ==
    [i \in 1..BUFSIZ |-> IF i <= n THEN source[rpos + i] ELSE buffer[i]]
ReadInto(n) ==
    [i \in 1..BUFSIZ |->
        IF rtotal < i /\ i <= rtotal + n THEN source[rpos + i - rtotal]
                                          ELSE buffer[i]]

\* One safe_read() inside bb_full_read's loop
Read ==
    /\ pc = "read"
    /\ \E cc \in ReadResults(Len(source) - rpos) :
          IF cc > 0
             THEN /\ buffer' = ReadInto(cc)
                  /\ rpos' = rpos + cc
                  /\ rtotal' = rtotal + cc
                  /\ rlen' = rlen - cc
                  /\ IF rlen = cc THEN ReadReturn(rtotal + cc)
                                  ELSE UNCHANGED <<xread, pc>>
             ELSE ReadStop(cc)
    /\ UNCHANGED <<source, dest, force, dest_exists, total, wrote, status, wlen,
                   wtotal, result>>

\* if (xread > 0) write it out; xread < 0 cannot hold for a size_t;
\* xread == 0: all done
AfterRead ==
    /\ pc = "after_read"
    /\ IF xread > 0
          THEN pc' = "write" /\ wlen' = xread /\ wtotal' = 0
               /\ UNCHANGED status
          ELSE pc' = "fd_ret" /\ status' = 0 /\ UNCHANGED <<wlen, wtotal>>
    /\ UNCHANGED <<source, dest, force, dest_exists, rpos, buffer, total, xread,
                   wrote, rlen, rtotal, result>>

\* bb_full_write returns v, stored in the size_t wrote
WriteReturn(v) == wrote' = Wrap(v) /\ pc' = "after_write"

\* What one write() may return: the bytes asked for or (short writes) fewer,
\* -1 on an I/O error such as ENOSPC.  The buffer ends at BUFSIZ and the
\* memory after it is taken as unmapped: a write from there fails (EFAULT)
\* and one that crosses it stops at the end.
WriteResults ==
    LET room == IF wlen < BUFSIZ - wtotal THEN wlen ELSE BUFSIZ - wtotal
        counts == IF room = 0 THEN {}
                  ELSE IF "short_write" \in Faults THEN 1..room ELSE {room}
    IN  counts \cup (IF "write_error" \in Faults \/ room = 0 THEN {-1} ELSE {})

\* One safe_write() inside bb_full_write's loop
Write ==
    /\ pc = "write"
    /\ \E cc \in WriteResults :
          IF cc > 0
             THEN /\ dest' = dest \o SubSeq(buffer, wtotal + 1, wtotal + cc)
                  /\ wtotal' = wtotal + cc
                  /\ wlen' = wlen - cc
                  /\ IF wlen = cc THEN WriteReturn(wtotal + cc)
                                  ELSE UNCHANGED <<wrote, pc>>
             ELSE WriteReturn(cc) /\ UNCHANGED <<dest, wlen, wtotal>>
    /\ UNCHANGED <<source, force, dest_exists, rpos, buffer, total, xread, status,
                   rlen, rtotal, result>>

\* if (wrote < xread) "Write Error", break; else total += wrote
AfterWrite ==
    /\ pc = "after_write"
    /\ IF wrote < xread
          THEN pc' = "fd_ret" /\ UNCHANGED total
          ELSE pc' = "loop" /\ total' = Wrap(total + wrote)
    /\ UNCHANGED <<source, dest, force, dest_exists, rpos, buffer, xread, wrote,
                   status, rlen, rtotal, wlen, wtotal, result>>

\* A mistaken copy_file that keeps bb_copyfd_eof's count as its status.
FdRetKeepsCount ==
    /\ pc = "fd_ret"
    /\ LET ret == IF status = 0 \/ total # 0 THEN total ELSE Wrap(-1)
       IN  result' = ToInt(ret)
    /\ pc' = "close_dst"
    /\ UNCHANGED <<source, dest, force, dest_exists, fdvars>>
\* bb_full_fd_action's return, bb_copyfd_eof's int, and cp.c:327
FdRet ==
    /\ pc = "fd_ret"
    /\ LET ret == IF status = 0 \/ total # 0 THEN total ELSE Wrap(-1)
       IN  result' = IF ToInt(ret) = -1 THEN -1 ELSE result
    /\ pc' = "close_dst"
    /\ UNCHANGED <<source, dest, force, dest_exists, fdvars>>

CloseDst ==
    /\ pc = "close_dst"
    /\ pc' = "close_src"
    /\ \E ok \in Outcomes("close_error") :
          IF ok THEN UNCHANGED result ELSE result' = -1
    /\ UNCHANGED <<source, dest, force, dest_exists, fdvars>>

CloseSrc ==
    /\ pc = "close_src"
    /\ pc' = "done"
    /\ \E ok \in Outcomes("close_error") :
          IF ok THEN UNCHANGED result ELSE result' = -1
    /\ UNCHANGED <<source, dest, force, dest_exists, fdvars>>

Next ==
    \/ OpenSrc \/ OpenTrunc \/ Unlink \/ Create
    \/ FdBegin \/ Loop \/ Read \/ AfterRead \/ Write \/ AfterWrite \/ FdRet
    \/ CloseDst \/ CloseSrc

\* cp runs alone and every step is a system call that returns.
Spec == Init /\ [][Next]_vars /\ WF_vars(Next)

-----------------------------------------------------------------------------
(* Properties *)

\* No read() or write() of the copy loop reaches past the end of the
\* BUFSIZ buffer: the amount bb_full_fd_action asks of bb_full_read, and
\* then of bb_full_write, fits in the buffer from where the call stands
\* (not checked by CopyFd.cfg: a read error makes xread SIZE_MAX, which
\* bb_full_write is then asked to write; README "Known defects").
BufferBound ==
    /\ pc = "read" => rtotal + rlen <= BUFSIZ
    /\ pc = "write" => wtotal + wlen <= BUFSIZ

\* The phase of the copy as cp's caller sees it.
Phase ==
    CASE pc \in {"open_src", "open_trunc", "unlink", "create"} -> "prepare"
      [] pc = "done" -> IF result = 0 THEN "ok" ELSE "fail"
      [] OTHER -> "copy"

Abs == INSTANCE CopyFile WITH phase <- Phase

\* copy_file and bb_copyfd_eof implement the promise of CopyFile: the
\* destination is only emptied before the copy, then only ever holds a
\* growing prefix of the source, and copy_file returns 0 only when the
\* destination holds the whole source.
CopyRefines == Abs!Spec

\* copy_file returns: every read and write loop of copyfd.c ends.
CopyTerminates == <>(pc = "done")

=============================================================================
