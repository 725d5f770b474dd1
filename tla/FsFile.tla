------------------------------- MODULE FsFile --------------------------------
(* Blocking files and streams behind asynchronous interfaces.               *)
EXTENDS Integers, Sequences, FiniteSets, SequencesExt, FiniteSetsExt

(* krse/fs/file.rs: a File whose operations run on a thread of the blocking    *)
(* pool, with the buffer of krse/io/blocking.rs that reads fill ahead and      *)
(* writes pass through.  One task uses the file; it may drop an operation that *)
(* is pending (the thread goes on) and start another.  `lpos' is where the     *)
(* user is in the file: what was read, written and sought, and nothing else.   *)

CONSTANTS
    Initial,      \* the bytes of the file
    Reads,        \* sizes of the buffers the task reads into
    Writes,       \* the byte strings it writes
    Seeks,        \* [from, off] with from "start", "current" or "end"
    Sizes,        \* the arguments of set_len
    MAX_BUF,
    Fails,        \* the errors that may happen: a subset of {"write", "read", "seek"}
    Syncs,        \* whether sync_all and the like are called
    Cancels,      \* whether a pending operation may be dropped
    MaxOps        \* bound on the operations started

VARIABLES
    content, cur,   \* the file, and the position of its descriptor
    state,          \* "Idle" or "Busy"
    buf,            \* the unread bytes of the buffer, while the file has it
    job,            \* what the thread does: [op, arg, back, done, ok], and for whom
    lwe,            \* last_write_err
    op,             \* the operation being polled: [name, arg, ph], or NoOp
    ops,
    lpos,           \* ghost: where the user is
    holders,        \* operations on a clone of the descriptor: sync and metadata
    failed, told,   \* ghost: writes that failed; errors given to the user
    panicked, got   \* ghost: whether the last read was right
vars == <<content, cur, state, buf, job, lwe, op, ops, lpos, holders, failed, told, panicked, got>>
ghost == <<failed, told, got>>

NoOp == [name |-> "none", arg |-> 0, ph |-> "none"]
NoJob == [op |-> "none", arg |-> 0, user |-> 0, back |-> 0, done |-> FALSE, ok |-> TRUE]
Drop(s, n) == SubSeq(s, n + 1, Len(s))
Lower(a, b) == IF a < b THEN a ELSE b

Init ==
    /\ content = Initial /\ cur = 0 /\ state = "Idle" /\ buf = <<>> /\ job = NoJob /\ lwe = FALSE
    /\ op = NoOp /\ ops = 0 /\ lpos = 0 /\ holders = 0 /\ failed = 0 /\ told = 0 /\ panicked = FALSE /\ got = TRUE

\* A call of the user.
start(name, arg) ==
    /\ op = NoOp /\ ~panicked /\ ops < MaxOps
    /\ op' = [name |-> name, arg |-> arg, ph |-> IF name \in {"seek", "set_len", "sync", "into_std"} THEN "flush" ELSE "go"]
    /\ ops' = ops + 1
    /\ UNCHANGED <<content, cur, state, buf, job, lwe, lpos, holders, ghost, panicked>>

\* The future of the operation is dropped.
cancel ==
    /\ Cancels /\ op # NoOp /\ op' = NoOp
    /\ UNCHANGED <<content, cur, state, buf, job, lwe, ops, lpos, holders, ghost, panicked>>

Launch(o, arg, back) ==
    /\ state' = "Busy" /\ buf' = <<>>
    /\ job' = [op |-> o, arg |-> arg, user |-> op.arg, back |-> back, done |-> FALSE, ok |-> TRUE]
\* The finished operation gives the buffer back.
Reap == state' = "Idle" /\ job' = NoJob /\ UNCHANGED buf
Return == op' = NoOp
Files == <<content, cur, ops, holders, failed, panicked>>
Ready == op # NoOp /\ ~panicked /\ (state = "Idle" \/ job.done)

\* Buf::copy_to into the buffer of the user.
copy_to(n) ==
    LET k == Lower(Len(buf), n) IN
    /\ buf' = Drop(buf, k) /\ lpos' = lpos + k
    /\ got' = (SubSeq(buf, 1, k) = SubSeq(content, lpos + 1, Lower(lpos + k, Len(content))))

\* poll_read.
poll_read ==
    /\ Ready /\ op.name = "read"
    /\ CASE state = "Idle" /\ buf # <<>> -> copy_to(op.arg) /\ Return /\ UNCHANGED <<state, job, lwe, told>>
         [] state = "Idle" /\ buf = <<>> -> Launch("read", Lower(op.arg, MAX_BUF), 0) /\ UNCHANGED <<op, lwe, lpos, told, got>>
         [] state = "Busy" /\ job.op = "read" ->
                IF job.ok THEN copy_to(op.arg) /\ state' = "Idle" /\ job' = NoJob /\ Return /\ UNCHANGED <<lwe, told>>
                ELSE Reap /\ Return /\ UNCHANGED <<lwe, lpos, told, got>>
         [] state = "Busy" /\ job.op = "write" -> Reap /\ lwe' = (lwe \/ ~job.ok) /\ UNCHANGED <<op, lpos, told, got>>
         [] OTHER -> Reap /\ UNCHANGED <<op, lwe, lpos, told, got>>
    /\ panicked' = (state = "Busy" /\ ((job.op # "read" /\ buf # <<>>) \/ (job.op = "write" /\ ~job.ok /\ lwe)))
    /\ UNCHANGED <<content, cur, ops, holders, failed>>

\* An error a write left behind is given to the next operation that can give one.
TakeErr == lwe' = FALSE /\ told' = told + 1

\* poll_write: unread bytes are taken back by a relative seek before the write.
poll_write ==
    /\ op.name = "write" /\ ~panicked
    /\ IF lwe THEN TakeErr /\ Return /\ UNCHANGED <<state, buf, job>>
       ELSE /\ Ready
            /\ IF state = "Idle"
               THEN Launch("write", SubSeq(op.arg, 1, Lower(Len(op.arg), MAX_BUF)), Len(buf)) /\ Return /\ UNCHANGED <<lwe, told>>
               ELSE /\ Reap
                    /\ IF job.op = "write" /\ ~job.ok THEN Return /\ told' = told + 1 ELSE UNCHANGED <<op, told>>
                    /\ UNCHANGED lwe
    /\ UNCHANGED <<Files, lpos, got>>

\* poll_flush.
poll_flush ==
    /\ op.name = "flush" /\ ~panicked
    /\ IF lwe THEN TakeErr /\ Return /\ UNCHANGED <<state, job, buf>>
       ELSE /\ Ready /\ Return
            /\ IF state = "Idle" THEN UNCHANGED <<state, job, buf, told>>
               ELSE Reap /\ told' = IF job.op = "write" /\ ~job.ok THEN told + 1 ELSE told
            /\ UNCHANGED lwe
    /\ UNCHANGED <<Files, lpos, got>>

\* complete_inflight: poll_flush, whose error is kept for later.
complete_inflight ==
    /\ op.ph = "flush" /\ ~panicked
    /\ op' = [op EXCEPT !.ph = "go"]
    /\ IF lwe THEN UNCHANGED <<state, job, buf, lwe>>
       ELSE /\ Ready
            /\ IF state = "Idle" THEN UNCHANGED <<state, job, buf, lwe>>
               ELSE Reap /\ lwe' = (job.op = "write" /\ ~job.ok)
    /\ UNCHANGED <<Files, lpos, told, got>>


\* SeekFrom::Current counts from where the user is, not from where the buffer ends.
Offset(s, back) == IF s.from = "current" THEN [s EXCEPT !.off = @ - back] ELSE s

\* seek: the buffer is given up, and the thread's answer awaited.
seek ==
    /\ op.name = "seek" /\ op.ph = "go" /\ ~panicked
    /\ Launch("seek", Offset(op.arg, Len(buf)), 0) /\ op' = [op EXCEPT !.ph = "wait"]
    /\ panicked' = (state = "Busy")
    /\ UNCHANGED <<content, cur, ops, holders, lwe, lpos, ghost>>

\* set_len: unread bytes are given back to the descriptor first.
set_len ==
    /\ op.name = "set_len" /\ op.ph = "go" /\ ~panicked
    /\ Launch("set_len", op.arg, Len(buf)) /\ op' = [op EXCEPT !.ph = "wait"]
    /\ panicked' = (state = "Busy")
    /\ UNCHANGED <<content, cur, ops, holders, lwe, lpos, ghost>>

seek_done ==
    /\ op.name \in {"seek", "set_len"} /\ op.ph = "wait" /\ Ready
    /\ Reap /\ Return /\ UNCHANGED <<Files, lwe, lpos, told, got>>

\* AsyncSeek: start_seek, then poll_complete.
start_seek ==
    /\ op.name = "aseek" /\ op.ph \in {"go", "loop"} /\ ~panicked
    /\ IF lwe /\ op.ph = "go" THEN TakeErr /\ Return /\ UNCHANGED <<state, buf, job>>
       ELSE /\ Ready /\ UNCHANGED told
            /\ IF state = "Idle"
               THEN Launch("seek", Offset(op.arg, Len(buf)), 0) /\ op' = [op EXCEPT !.ph = "wait"] /\ UNCHANGED lwe
               ELSE /\ Reap /\ op' = [op EXCEPT !.ph = "loop"]
                    /\ lwe' = (job.op = "write" /\ ~job.ok)
    /\ UNCHANGED <<Files, lpos, got>>

poll_complete ==
    /\ op.name = "aseek" /\ op.ph = "wait" /\ ~panicked
    /\ IF lwe THEN TakeErr /\ Return /\ UNCHANGED <<state, buf, job>>
       ELSE /\ Ready /\ Reap /\ Return /\ UNCHANGED <<lwe, told>>
    /\ UNCHANGED <<Files, lpos, got>>

\* sync_all, sync_data and metadata: a clone of the descriptor goes to a thread.
sync ==
    /\ op.name = "sync" /\ op.ph = "go" /\ op' = [op EXCEPT !.ph = "wait"] /\ holders' = holders + 1
    /\ UNCHANGED <<content, cur, state, buf, job, lwe, ops, lpos, ghost, panicked>>
sync_done ==
    /\ holders > 0 /\ holders' = holders - 1
    /\ op' = IF op.name = "sync" /\ op.ph = "wait" THEN NoOp ELSE op
    /\ UNCHANGED <<content, cur, state, buf, job, lwe, ops, lpos, ghost, panicked>>

\* into_std, after which there is no File: the descriptor must have one owner left.
into_std ==
    /\ op.name = "into_std" /\ op.ph = "go" /\ ~panicked
    /\ panicked' = (holders > 0 \/ (state = "Busy" /\ ~job.done))
    /\ op' = [NoOp EXCEPT !.name = "gone"]
    /\ UNCHANGED <<content, cur, state, buf, job, lwe, ops, lpos, holders, ghost>>

-----------------------------------------------------------------------------
(* The thread. *)

Put(c, p, bytes) ==
    LET padded == c \o [i \in 1..(IF p > Len(c) THEN p - Len(c) ELSE 0) |-> 0] IN
    SubSeq(padded, 1, p) \o bytes \o SubSeq(padded, p + Len(bytes) + 1, Len(padded))

Finish(ok) == job' = [job EXCEPT !.done = TRUE, !.ok = ok]
Target(s, from) == CASE s.from = "start" -> s.off [] s.from = "current" -> from + s.off [] OTHER -> Len(content) + s.off

\* Buf::read_from.
thread_read ==
    /\ job.op = "read" /\ ~job.done
    /\ \/ LET n == Lower(job.arg, IF cur < Len(content) THEN Len(content) - cur ELSE 0) IN
          buf' = SubSeq(content, cur + 1, cur + n) /\ cur' = cur + n /\ Finish(TRUE)
       \/ "read" \in Fails /\ Finish(FALSE) /\ UNCHANGED <<buf, cur>>
    /\ UNCHANGED <<content, lpos, failed>>

\* Buf::write_to: all of it, or some of it and an error.
thread_write ==
    /\ job.op = "write" /\ ~job.done
    /\ LET at == cur - job.back IN
       \/ content' = Put(content, at, job.arg) /\ cur' = at + Len(job.arg) /\ Finish(TRUE) /\ UNCHANGED failed
       \/ /\ "write" \in Fails
          /\ \E k \in 0..(Len(job.arg) - 1) :
                content' = Put(content, at, SubSeq(job.arg, 1, k)) /\ cur' = at + k
          /\ Finish(FALSE) /\ failed' = failed + 1
    /\ lpos' = lpos + (cur' - (cur - job.back)) /\ UNCHANGED buf

thread_seek ==
    /\ job.op = "seek" /\ ~job.done
    /\ LET t == Target(job.arg, cur) IN
       IF t >= 0 THEN cur' = t /\ Finish(TRUE) ELSE Finish(FALSE) /\ UNCHANGED cur
    /\ lpos' = IF Target(job.user, lpos) >= 0 THEN Target(job.user, lpos) ELSE lpos
    /\ UNCHANGED <<content, buf, failed>>

thread_set_len ==
    /\ job.op = "set_len" /\ ~job.done /\ Finish(TRUE)
    /\ cur' = cur - job.back
    /\ content' = SubSeq(Put(content, job.arg, <<>>), 1, job.arg)
    /\ UNCHANGED <<buf, lpos, failed>>

thread ==
    /\ (thread_read \/ thread_write \/ thread_seek \/ thread_set_len)
    /\ UNCHANGED <<state, lwe, op, ops, holders, told, panicked, got>>

Calls ==
    \/ \E n \in Reads : start("read", n)
    \/ \E b \in Writes : start("write", b)
    \/ start("flush", 0)
    \/ \E s \in Seeks : start("seek", s) \/ start("aseek", s)
    \/ \E n \in Sizes : start("set_len", n)
    \/ Syncs /\ start("sync", 0)
    \/ start("into_std", 0)

Done == (op.name = "gone" \/ panicked \/ (op = NoOp /\ ops = MaxOps)) /\ UNCHANGED vars

Next ==
    \/ Calls \/ cancel \/ thread
    \/ poll_read \/ poll_write \/ poll_flush \/ complete_inflight
    \/ seek \/ set_len \/ seek_done \/ start_seek \/ poll_complete \/ sync \/ sync_done \/ into_std
    \/ Done

Spec == Init /\ [][Next]_vars

-----------------------------------------------------------------------------
\* Reading ahead, dropped operations and the seeks that take unread bytes back never
\* move the user: whenever no other operation is under way the descriptor is past the
\* user by exactly the unread bytes, and these are the bytes of the file there.
WhereTheUserIs ==
    state = "Idle" \/ job.op = "read" =>
        /\ lpos = cur - Len(buf)
        /\ buf # <<>> => buf = SubSeq(content, lpos + 1, cur)

\* A write that failed on the thread is told to the user once, by the next operation
\* that can tell it, and is never forgotten while the file is used.
NoErrorIsLost ==
    failed = told + (IF lwe THEN 1 ELSE 0) + (IF state = "Busy" /\ job.done /\ job.op = "write" /\ ~job.ok THEN 1 ELSE 0)

\* The assertions and `unreachable!' of the file hold.
NeverPanics == ~panicked

FileSound == WhereTheUserIs /\ NoErrorIsLost /\ NeverPanics /\ got

-----------------------------------------------------------------------------
(* krse/io/blocking.rs: Blocking<T>, which stdin, stdout and stderr are made   *)
(* of.  Each read, write and flush runs on a thread of the blocking pool; a    *)
(* write answers before it has happened.  One task uses it and may drop an     *)
(* operation that is pending.                                                  *)

CONSTANTS
    Kind,      \* "read" (stdin) or "write" (stdout, stderr)
    Input     \* the bytes a reader finds

VARIABLES
    rest,        \* bytes not yet read
    written,     \* bytes the stream has taken; how many of them are flushed
    flushed,
    accepted,    \* bytes poll_write has answered for
    std_state, std_buf,  \* "Idle" or "Busy"; the unread bytes
    std_job,         \* [op, data, done, ok]
    need_flush,
    std_op, std_ops,
    delivered,   \* bytes given to the reader
    lost, std_told,  \* ghost: writes and flushes that failed; errors given
    clean        \* ghost: what had been accepted when a flush last answered Ok
stdVars == <<rest, written, flushed, accepted, std_state, std_buf, std_job, need_flush, std_op, std_ops, delivered, lost, std_told, clean>>

StdNoOp == [name |-> "none", n |-> 0]
StdNoJob == [op |-> "none", data |-> <<>>, done |-> FALSE, ok |-> TRUE]
StdLower(a, b) == IF a < b THEN a ELSE b
StdDrop(s, n) == SubSeq(s, n + 1, Len(s))
\* The n bytes after the first k ever written.
Fresh(k, n) == [i \in 1..n |-> k + i]

StdInit ==
    /\ rest = Input /\ written = <<>> /\ flushed = 0 /\ accepted = 0
    /\ std_state = "Idle" /\ std_buf = <<>> /\ std_job = StdNoJob /\ need_flush = FALSE
    /\ std_op = StdNoOp /\ std_ops = 0 /\ delivered = <<>> /\ lost = 0 /\ std_told = 0 /\ clean = 0

std_start(name, n) ==
    /\ std_op = StdNoOp /\ std_ops < MaxOps /\ std_op' = [name |-> name, n |-> n] /\ std_ops' = std_ops + 1
    /\ UNCHANGED <<rest, written, flushed, accepted, std_state, std_buf, std_job, need_flush, delivered, lost, std_told, clean>>

std_cancel ==
    /\ std_op # StdNoOp /\ std_op' = StdNoOp
    /\ UNCHANGED <<rest, written, flushed, accepted, std_state, std_buf, std_job, need_flush, std_ops, delivered, lost, std_told, clean>>

StdLaunch(o, d) == std_state' = "Busy" /\ std_job' = [op |-> o, data |-> d, done |-> FALSE, ok |-> TRUE]
StdReap == std_state' = "Idle" /\ std_job' = StdNoJob
StdReady == std_state = "Idle" \/ std_job.done

Deliver == std_buf' = StdDrop(std_buf, StdLower(Len(std_buf), std_op.n)) /\ delivered' = delivered \o SubSeq(std_buf, 1, StdLower(Len(std_buf), std_op.n))

\* poll_read: unread bytes first; else a thread reads, and its error is given once.
std_poll_read ==
    /\ std_op.name = "read" /\ StdReady
    /\ IF std_state = "Idle" /\ std_buf = <<>>
       THEN StdLaunch("read", [i \in 1..StdLower(std_op.n, MAX_BUF) |-> 0]) /\ UNCHANGED <<std_buf, delivered, std_op, std_told>>
       ELSE /\ StdReap /\ std_op' = StdNoOp
            /\ IF std_state = "Idle" \/ std_job.ok THEN Deliver /\ UNCHANGED std_told ELSE std_told' = std_told + 1 /\ UNCHANGED <<std_buf, delivered>>
    /\ UNCHANGED <<rest, written, flushed, accepted, need_flush, std_ops, lost, clean>>

\* poll_write: the thread has to be done with the write before; its error comes now.
std_poll_write ==
    /\ std_op.name = "write" /\ StdReady
    /\ IF std_state = "Idle"
       THEN LET n == StdLower(std_op.n, MAX_BUF) IN
            /\ StdLaunch("write", Fresh(accepted, n)) /\ accepted' = accepted + n
            /\ need_flush' = TRUE /\ std_op' = StdNoOp /\ UNCHANGED std_told
       ELSE /\ StdReap /\ UNCHANGED <<accepted, need_flush>>
            /\ IF std_job.ok THEN UNCHANGED <<std_op, std_told>> ELSE std_op' = StdNoOp /\ std_told' = std_told + 1
    /\ UNCHANGED <<rest, written, flushed, std_buf, std_ops, delivered, lost, clean>>

\* poll_flush: the write under way, then a flush if one is due, then the answer.
std_poll_flush ==
    /\ std_op.name = "flush" /\ StdReady
    /\ CASE std_state = "Busy" -> /\ StdReap /\ UNCHANGED <<need_flush, clean>>
                                  /\ IF std_job.ok THEN UNCHANGED <<std_op, std_told>> ELSE std_op' = StdNoOp /\ std_told' = std_told + 1
         [] std_state = "Idle" /\ need_flush -> StdLaunch("flush", <<>>) /\ need_flush' = FALSE /\ UNCHANGED <<std_op, std_told, clean>>
         [] OTHER -> std_op' = StdNoOp /\ clean' = accepted /\ UNCHANGED <<std_state, std_job, need_flush, std_told>>
    /\ UNCHANGED <<rest, written, flushed, accepted, std_buf, std_ops, delivered, lost>>

-----------------------------------------------------------------------------
(* The thread: Buf::read_from, Buf::write_to (write_all) and flush. *)

StdFinish(ok) == std_job' = [std_job EXCEPT !.done = TRUE, !.ok = ok]
std_thread ==
    /\ std_state = "Busy" /\ ~std_job.done
    /\ \/ /\ StdFinish(TRUE) /\ UNCHANGED lost
          /\ CASE std_job.op = "read" ->
                    /\ \E n \in 0..StdLower(Len(std_job.data), Len(rest)) :
                           (n = 0 => rest = <<>>) /\ std_buf' = SubSeq(rest, 1, n) /\ rest' = StdDrop(rest, n)
                    /\ UNCHANGED <<written, flushed>>
               [] std_job.op = "write" -> written' = written \o std_job.data /\ UNCHANGED <<rest, flushed, std_buf>>
               [] OTHER -> flushed' = Len(written) /\ UNCHANGED <<rest, written, std_buf>>
       \/ /\ Fails /\ StdFinish(FALSE) /\ lost' = lost + 1
          /\ IF std_job.op = "write" THEN \E k \in 0..(Len(std_job.data) - 1) : written' = written \o SubSeq(std_job.data, 1, k)
             ELSE UNCHANGED written
          /\ UNCHANGED <<rest, flushed, std_buf>>
    /\ UNCHANGED <<accepted, std_state, need_flush, std_op, std_ops, delivered, std_told, clean>>

StdDone == std_op = StdNoOp /\ std_ops = MaxOps /\ UNCHANGED stdVars

StdNext ==
    \/ \E n \in Sizes : std_start(Kind, n)
    \/ Kind = "write" /\ std_start("flush", 0)
    \/ std_cancel \/ std_poll_read \/ std_poll_write \/ std_poll_flush \/ std_thread \/ StdDone

StdSpec == StdInit /\ [][StdNext]_stdVars

-----------------------------------------------------------------------------
\* What was read is given out once and in order, also by a read that takes over the
\* thread of one that was dropped.
ReadsInOrder == delivered \o std_buf \o rest = Input

\* When a flush has answered Ok and nothing failed, every byte accepted until then is
\* written and flushed, also when an earlier flush was dropped half way.
FlushMeansFlushed == lost = 0 => /\ flushed >= clean
                                 /\ written = Fresh(0, Len(written))
                                 /\ Len(written) <= accepted

\* An error of the thread is given to one operation; only the last may still be waiting.
ErrorsAreTold == lost = std_told + (IF std_state = "Busy" /\ std_job.done /\ ~std_job.ok THEN 1 ELSE 0)

\* Unread bytes and the buffer of a write are never mixed up: the assertions of Buf.
BufferIsFree == std_state = "Busy" /\ ~std_job.done => std_buf = <<>>

BlockingSound == ReadsInOrder /\ FlushMeansFlushed /\ ErrorsAreTold /\ BufferIsFree
=============================================================================
