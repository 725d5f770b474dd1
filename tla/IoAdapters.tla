----------------------------- MODULE IoAdapters ------------------------------
(* The adapters of krse::io: buffered readers and what is read through them,*)
(* buffered writers and copy, and the two halves of a split stream.         *)
EXTENDS Naturals, Sequences, FiniteSets, SequencesExt, FiniteSetsExt

(* The reading side of krse::io::util: BufReader, Take and Chain stacked over  *)
(* two byte sources, and the futures and streams that read through them (read, *)
(* read_exact, read_to_end, read_until, read_line, the integer readers, Lines  *)
(* and Split).  A poll is the set of its outcomes: the sources may be pending, *)
(* fail, or give any non-empty piece.                                          *)

CONSTANTS
    Stack,       \* "outer": BufReader<Take<Chain>>; "inner": Take<Chain<BufReader>>
    Mode,        \* "plain", or the reader is owned by "lines" or "split"
    Inputs,      \* pairs of byte sequences
    Limits, Sizes, CAP,
    MaxOps       \* bound: operations of the user

NL == 10
CR == 13
BAD == 255       \* never part of a valid UTF-8 string

VARIABLES
    input,
    io,       \* [s: what the sources still hold, b: the readers' buffers, first: done_first, limit]
    fut,      \* the future being polled
    own,      \* Lines or Split: [buf, read]
    taken,    \* bytes the user or a future has been given, in order
    last,     \* the latest result
    segs,     \* what Lines or Split have returned
    ops

vars == <<input, io, fut, own, taken, last, segs, ops>>

NoFut == [op |-> "none", arg |-> 0, buf |-> <<>>, read |-> 0]
NoResult == [op |-> "none", arg |-> 0, res |-> "none", d |-> <<>>]

Out(r, d, x) == [r |-> r, d |-> d, io |-> x]
Prefix(s, n) == SubSeq(s, 1, Min({n, Len(s)}))
Rest(s, n) == SubSeq(s, n + 1, Len(s))

\* A source of bytes: outside the module.
Source(x, i, len) ==
    {Out("pending", <<>>, x), Out("err", <<>>, x)} \cup
    (IF len = 0 \/ x.s[i] = <<>> THEN {Out("ok", <<>>, x)}
     ELSE {Out("ok", Prefix(x.s[i], n), [x EXCEPT !.s[i] = Rest(@, n)]) : n \in 1..Min({len, Len(x.s[i])})})

-----------------------------------------------------------------------------
(* BufReader: i names its buffer, outs the outcomes of reading its inner one.  *)

Filled(x, i, outs) ==
    IF x.b[i] # <<>> THEN {Out("ok", x.b[i], x)}
    ELSE {IF o.r = "ok" THEN Out("ok", o.d, [o.io EXCEPT !.b[i] = o.d]) ELSE o : o \in outs}

\* A large read bypasses an empty buffer.
BufferedRead(x, i, len, direct, fill) ==
    IF x.b[i] = <<>> /\ len >= CAP THEN direct
    ELSE {IF o.r = "ok" THEN Out("ok", Prefix(o.d, len), [o.io EXCEPT !.b[i] = Rest(@, Min({len, Len(@)}))]) ELSE o :
             o \in fill}

InnerFill(x, i) == Filled(x, i, Source(x, i, CAP))
InnerRead(x, i, len) == BufferedRead(x, i, len, Source(x, i, len), InnerFill(x, i))

\* Chain: the second reader is used once the first has nothing more.
PartRead(x, i, len) == IF Stack = "outer" THEN Source(x, i, len) ELSE InnerRead(x, i, len)

chain_read(x, len) ==
    IF x.first THEN PartRead(x, 2, len)
    ELSE UNION {IF o.r = "ok" /\ o.d = <<>> /\ len # 0
                THEN PartRead([o.io EXCEPT !.first = TRUE], 2, len) ELSE {o} : o \in PartRead(x, 1, len)}

chain_fill_buf(x) ==
    IF x.first THEN InnerFill(x, 2)
    ELSE UNION {IF o.r = "ok" /\ o.d = <<>> THEN InnerFill([o.io EXCEPT !.first = TRUE], 2) ELSE {o} :
                   o \in InnerFill(x, 1)}

chain_consume(x, n) == [x EXCEPT !.b[IF x.first THEN 2 ELSE 1] = Rest(@, Min({n, Len(@)}))]

\* Take.
take_read(x, len) ==
    IF x.limit = 0 THEN {Out("ok", <<>>, x)}
    ELSE {[o EXCEPT !.io.limit = @ - Len(o.d)] : o \in chain_read(x, Min({len, x.limit}))}

take_fill_buf(x) ==
    IF x.limit = 0 THEN {Out("ok", <<>>, x)}
    ELSE {[o EXCEPT !.d = Prefix(@, x.limit)] : o \in chain_fill_buf(x)}

take_consume(x, n) == [chain_consume(x, Min({n, x.limit})) EXCEPT !.limit = @ - Min({n, x.limit})]

\* The whole stack.
poll_fill_buf(x) == IF Stack = "outer" THEN Filled(x, 1, take_read(x, CAP)) ELSE take_fill_buf(x)
poll_read(x, len) ==
    IF Stack = "outer" THEN BufferedRead(x, 1, len, take_read(x, len), poll_fill_buf(x)) ELSE take_read(x, len)
consume(x, n) ==
    IF Stack = "outer" THEN [x EXCEPT !.b[1] = Rest(@, Min({n, Len(@)}))] ELSE take_consume(x, n)

-----------------------------------------------------------------------------
Init ==
    /\ input \in Inputs
    /\ \E l \in Limits : io = [s |-> input, b |-> << <<>>, <<>> >>, first |-> FALSE, limit |-> l]
    /\ fut = NoFut /\ own = [buf |-> <<>>, read |-> 0]
    /\ taken = <<>> /\ last = NoResult /\ segs = <<>> /\ ops = 0

\* AsyncReadExt and AsyncBufReadExt: a future borrows the reader (the user's buffer is
\* empty at first).
start(op, arg) ==
    /\ fut.op = "none" /\ ops < MaxOps
    /\ ops' = ops + 1 /\ fut' = [op |-> op, arg |-> arg, buf |-> <<>>, read |-> 0]
    /\ UNCHANGED <<input, io, own, taken, last, segs>>

\* The future is dropped: what it had read is gone with it.
drop_future ==
    /\ fut.op # "none" /\ fut' = NoFut
    /\ UNCHANGED <<input, io, own, taken, last, segs, ops>>

Finish(res, d) == fut' = NoFut /\ last' = [op |-> fut.op, arg |-> fut.arg, res |-> res, d |-> d]

Read ==
    /\ fut.op = "read"
    /\ \E o \in poll_read(io, fut.arg) :
           /\ io' = o.io /\ taken' = taken \o o.d
           /\ IF o.r = "pending" THEN UNCHANGED <<fut, last>> ELSE Finish(o.r, o.d)
    /\ UNCHANGED <<input, own, segs, ops>>

\* One turn of the loop; a reader that ends early is an error.
ReadExact ==
    /\ fut.op \in {"read_exact", "read_int"}
    /\ IF Len(fut.buf) = fut.arg THEN Finish("ok", fut.buf) /\ UNCHANGED <<io, taken>>
       ELSE \E o \in poll_read(io, fut.arg - Len(fut.buf)) :
                /\ io' = o.io /\ taken' = taken \o o.d
                /\ CASE o.r = "pending" -> UNCHANGED <<fut, last>>
                     [] o.r = "err" -> Finish("err", fut.buf)
                     [] o.r = "ok" /\ o.d = <<>> -> Finish("eof", fut.buf)
                     [] OTHER -> fut' = [fut EXCEPT !.buf = @ \o o.d] /\ UNCHANGED last
    /\ UNCHANGED <<input, own, segs, ops>>

\* read_u8 and read_i8: one poll.
ReadByte ==
    /\ fut.op = "read_u8"
    /\ \E o \in poll_read(io, 1) :
           /\ io' = o.io /\ taken' = taken \o o.d
           /\ IF o.r = "pending" THEN UNCHANGED <<fut, last>>
              ELSE Finish(IF o.r = "ok" /\ o.d = <<>> THEN "eof" ELSE o.r, o.d)
    /\ UNCHANGED <<input, own, segs, ops>>

Utf8(s) == \A i \in DOMAIN s : s[i] # BAD

\* The buffer grows by 32 bytes whenever it is full.
read_to_end_internal(len) ==
    \E o \in poll_read(io, len) :
        /\ io' = o.io /\ taken' = taken \o o.d
        /\ CASE o.r = "pending" -> UNCHANGED <<fut, last>>
             [] o.r = "ok" /\ o.d # <<>> -> fut' = [fut EXCEPT !.buf = @ \o o.d] /\ UNCHANGED last
             [] OTHER -> Finish(IF o.r = "ok" /\ fut.op = "read_to_string" /\ ~Utf8(fut.buf) THEN "invalid" ELSE o.r,
                                fut.buf)

ReadToEnd ==
    /\ fut.op \in {"read_to_end", "read_to_string"}
    /\ \E room \in {1, CAP} : read_to_end_internal(room)
    /\ UNCHANGED <<input, own, segs, ops>>

Place(s, byte) == IF Contains(s, byte) THEN Min({i \in DOMAIN s : s[i] = byte}) ELSE Len(s)

\* One turn: what the buffer holds up to the delimiter, [res, used, buf, read, io].
read_until_internal(byte, f) ==
    {IF o.r = "ok"
     THEN LET used == Place(o.d, byte)
          IN [res |-> IF used = 0 \/ o.d[used] = byte THEN "done" ELSE "more", used |-> Prefix(o.d, used),
              buf |-> f.buf \o Prefix(o.d, used), read |-> f.read + used, io |-> consume(o.io, used)]
     ELSE [res |-> o.r, used |-> <<>>, buf |-> f.buf, read |-> f.read, io |-> o.io] : o \in poll_fill_buf(io)}

ReadUntil ==
    /\ fut.op = "read_until"
    /\ \E t \in read_until_internal(fut.arg, fut) :
           /\ io' = t.io /\ taken' = taken \o t.used
           /\ CASE t.res = "pending" -> UNCHANGED <<fut, last>>
                [] t.res = "more" -> fut' = [fut EXCEPT !.buf = t.buf, !.read = t.read] /\ UNCHANGED last
                [] OTHER -> Finish(IF t.res = "done" THEN "ok" ELSE t.res, t.buf)
    /\ UNCHANGED <<input, own, segs, ops>>

\* The string is given back only if it is one.
ReadLine ==
    /\ fut.op = "read_line"
    /\ \E t \in read_until_internal(NL, fut) :
           /\ io' = t.io /\ taken' = taken \o t.used
           /\ CASE t.res = "pending" -> UNCHANGED <<fut, last>>
                [] t.res = "more" -> fut' = [fut EXCEPT !.buf = t.buf, !.read = t.read] /\ UNCHANGED last
                [] OTHER -> Finish(IF t.res = "done" THEN (IF Utf8(t.buf) THEN "ok" ELSE "invalid") ELSE t.res, t.buf)
    /\ UNCHANGED <<input, own, segs, ops>>

DropLast(s, byte) == IF s # <<>> /\ Last(s) = byte THEN Front(s) ELSE s
Stripped(s) == IF s # <<>> /\ Last(s) = NL THEN DropLast(Front(s), CR) ELSE s

\* Lines::poll_next_line.  An invalid line stays in `bytes`.
poll_next_line ==
    /\ fut.op = "next_line"
    /\ \E t \in read_until_internal(NL, own) :
           /\ io' = t.io /\ taken' = taken \o t.used
           /\ CASE t.res \in {"pending", "more"} ->
                       own' = [buf |-> t.buf, read |-> t.read] /\ UNCHANGED <<fut, last, segs>>
                [] t.res = "err" -> Finish("err", <<>>) /\ UNCHANGED <<own, segs>>
                [] t.res = "done" /\ ~Utf8(t.buf) ->
                       Finish("invalid", <<>>) /\ own' = [buf |-> t.buf, read |-> 0] /\ UNCHANGED segs
                [] t.res = "done" /\ Utf8(t.buf) /\ t.read = 0 /\ t.buf = <<>> ->
                       Finish("none", <<>>) /\ own' = [buf |-> <<>>, read |-> 0] /\ UNCHANGED segs
                [] OTHER -> /\ Finish("ok", Stripped(t.buf)) /\ own' = [buf |-> <<>>, read |-> 0]
                            /\ segs' = Append(segs, Stripped(t.buf))
    /\ UNCHANGED <<input, ops>>

\* Split::poll_next_segment.
poll_next_segment ==
    /\ fut.op = "next_segment"
    /\ \E t \in read_until_internal(NL, own) :
           /\ io' = t.io /\ taken' = taken \o t.used
           /\ CASE t.res \in {"pending", "more"} ->
                       own' = [buf |-> t.buf, read |-> t.read] /\ UNCHANGED <<fut, last, segs>>
                [] t.res = "err" -> Finish("err", <<>>) /\ UNCHANGED <<own, segs>>
                [] t.res = "done" /\ t.read = 0 /\ t.buf = <<>> ->
                       Finish("none", <<>>) /\ own' = [buf |-> <<>>, read |-> 0] /\ UNCHANGED segs
                [] OTHER -> /\ Finish("ok", DropLast(t.buf, NL)) /\ own' = [buf |-> <<>>, read |-> 0]
                            /\ segs' = Append(segs, DropLast(t.buf, NL))
    /\ UNCHANGED <<input, ops>>

Next ==
    \/ Mode = "plain" /\ (\/ \E n \in Sizes : \E op \in {"read", "read_exact"} : start(op, n)
                          \/ start("read_int", 2) \/ start("read_u8", 1) \/ start("read_to_end", 0)
                          \/ start("read_to_string", 0) \/ start("read_until", NL) \/ start("read_line", NL))
    \/ Mode = "lines" /\ start("next_line", NL)
    \/ Mode = "split" /\ start("next_segment", NL)
    \/ drop_future \/ Read \/ ReadExact \/ ReadByte \/ ReadToEnd \/ ReadUntil \/ ReadLine
    \/ poll_next_line \/ poll_next_segment

Spec == Init /\ [][Next]_vars

-----------------------------------------------------------------------------
Whole == input[1] \o input[2]
Buffered == IF Stack = "outer" THEN io.b[1] \o io.s[1] \o io.s[2] ELSE io.b[1] \o io.s[1] \o io.b[2] \o io.s[2]

\* Every byte of the two readers is given once and in order, whatever mixture of
\* operations, sizes, failures and dropped futures reads them, and no more than the limit.
NothingLost ==
    /\ taken \o Buffered = Whole
    /\ \E l \in Limits : Len(taken) + io.limit + (IF Stack = "outer" THEN Len(io.b[1]) ELSE 0) = l

AtEnd == io.limit = 0 \/ Buffered = <<>>

\* What a future's Ok means: as many bytes as were asked for, a delimiter only at the end.
ResultsRight ==
    last.res = "ok" =>
        /\ last.op \in {"read_exact", "read_int", "read_u8"} => Len(last.d) = last.arg
        /\ last.op \in {"read_until", "read_line"} => \A i \in DOMAIN last.d : last.d[i] = NL => i = Len(last.d)
        /\ last.op \in {"read_line", "read_to_string"} => Utf8(last.d)

\* An end of stream is told only at the end.
EndIsEnd ==
    fut.op = "none" /\ (\/ last.res \in {"none", "eof"}
                        \/ last.res = "ok" /\ last.op \in {"read_to_end", "read_to_string"}
                        \/ last.res = "ok" /\ last.op = "read" /\ last.d = <<>> /\ last.arg > 0
                        \/ (last.res = "ok" /\ last.op \in {"read_until", "read_line"}
                                /\ (last.d = <<>> \/ Last(last.d) # NL))) =>
        AtEnd \/ last.op = "none"

\* The lines of a byte sequence: what stands between the newlines, the rest being a
\* line of its own if it is not empty.
Cuts(s) == {i \in DOMAIN s : s[i] = NL}
NthCut(s, k) == IF k = 0 THEN 0 ELSE CHOOSE i \in Cuts(s) : Cardinality({j \in Cuts(s) : j <= i}) = k
LinesOf(s) ==
    [k \in 1..(Cardinality(Cuts(s)) + IF s # <<>> /\ Last(s) # NL THEN 1 ELSE 0) |->
        SubSeq(s, NthCut(s, k - 1) + 1, IF k <= Cardinality(Cuts(s)) THEN NthCut(s, k) ELSE Len(s))]

\* Lines and Split return the lines of what they have read, also when a call is dropped
\* half-way or fails and is made again.
LinesRight ==
    /\ Mode = "lines" /\ Utf8(taken) => segs = [k \in DOMAIN segs |-> Stripped(LinesOf(taken)[k])]
    /\ Mode = "split" => segs = [k \in DOMAIN segs |-> DropLast(LinesOf(taken)[k], NL)]
    /\ Mode # "plain" /\ last.res = "none" /\ last.op # "none" => Len(segs) = Len(LinesOf(taken))

ReadSound == NothingLost /\ ResultsRight /\ EndIsEnd /\ LinesRight

-----------------------------------------------------------------------------
(* The writing side of krse::io::util: BufWriter (alone or in a BufStream)     *)
(* over a byte sink, and the futures write, write_all, flush, shutdown, the    *)
(* integer writers and copy.  The sink may be pending, fail, or take any part  *)
(* of what it is given.                                                        *)

CONSTANTS
    COPY,        \* the buffer of copy, 2048 bytes in the code
    Input       \* what copy reads

VARIABLES
    buf, written,    \* BufWriter
    sunk,            \* what the sink has taken
    flushed, shut,   \* bytes flushed by the sink; the sink was shut down
    write_fut,             \* [op, buf, pos, cap, read_done, step]
    src,             \* what copy's reader still holds
    accepted,        \* bytes the adapter has told its callers it took
    write_last, write_ops

writeVars == <<buf, written, sunk, flushed, shut, write_fut, src, accepted, write_last, write_ops>>

WriteNoFut == [op |-> "none", buf |-> <<>>, pos |-> 0, cap |-> 0, read_done |-> FALSE, amt |-> 0]
WriteRest(s, n) == SubSeq(s, n + 1, Len(s))

WriteInit ==
    /\ buf = <<>> /\ written = 0 /\ sunk = <<>> /\ flushed = 0 /\ shut = FALSE
    /\ write_fut = WriteNoFut /\ src = Input /\ accepted = <<>> /\ write_last = [op |-> "none", res |-> "none"] /\ write_ops = 0

\* The sink's answers to a write of n bytes: outside the module.
Sink(n) == {[r |-> "pending", n |-> 0], [r |-> "err", n |-> 0]} \cup {[r |-> "ok", n |-> k] : k \in 0..n}

\* BufWriter::flush_buf, from k bytes written: every sequence of answers of the sink, as
\* the bytes written in the end and the result.
FlushFrom == [k \in 0..CAP |-> [len \in 0..CAP |->
    IF k >= len THEN {[r |-> "ok", n |-> k]}
    ELSE {[r |-> "pending", n |-> m] : m \in k..(len - 1)} \cup {[r |-> "err", n |-> m] : m \in k..(len - 1)}
         \cup {[r |-> "zero", n |-> m] : m \in k..(len - 1)} \cup {[r |-> "ok", n |-> len]}]]

\* A pending flush keeps its place; any other drains what was written.
flush_buf(f) ==
    /\ sunk' = sunk \o SubSeq(buf, written + 1, f.n)
    /\ IF f.r = "pending" THEN written' = f.n /\ UNCHANGED buf
       ELSE written' = 0 /\ buf' = WriteRest(buf, f.n)

Flushes == FlushFrom[written][Len(buf)]

Kept == UNCHANGED <<buf, written, sunk>>
Give(r, n) == [r |-> r, n |-> n]

\* BufWriter::poll_write of d; the result is w.
poll_write(d, w) ==
    LET full == Len(buf) + Len(d) > CAP
    IN IF full
       THEN \E f \in Flushes :
              IF f.r # "ok" THEN flush_buf(f) /\ w = Give(f.r, 0)
              ELSE IF Len(d) >= CAP
              THEN \E a \in Sink(Len(d)) :
                       /\ w = a /\ buf' = <<>> /\ written' = 0
                       /\ sunk' = sunk \o WriteRest(buf, written) \o SubSeq(d, 1, a.n)
              ELSE /\ w = Give("ok", Len(d)) /\ buf' = d /\ written' = 0 /\ sunk' = sunk \o WriteRest(buf, written)
       ELSE IF Len(d) >= CAP
       THEN \E a \in Sink(Len(d)) : w = a /\ sunk' = sunk \o SubSeq(d, 1, a.n) /\ UNCHANGED <<buf, written>>
       ELSE w = Give("ok", Len(d)) /\ buf' = buf \o d /\ UNCHANGED <<written, sunk>>

Answers == [r : {"ok", "err", "zero", "pending"}, n : 0..Max({CAP, COPY} \cup Sizes)]

WriteFinish(res) == write_fut' = WriteNoFut /\ write_last' = [op |-> write_fut.op, res |-> res]

-----------------------------------------------------------------------------
\* The bytes of an operation are numbered, so that each is known again.
Fresh(n) == [i \in 1..n |-> 10 * (write_ops + 1) + i]

write_start(op, n) ==
    /\ write_fut.op = "none" /\ write_ops < MaxOps /\ ~shut
    /\ write_ops' = write_ops + 1 /\ write_fut' = [WriteNoFut EXCEPT !.op = op, !.buf = Fresh(n)]
    /\ write_last' = [op |-> "none", res |-> "none"]
    /\ UNCHANGED <<buf, written, sunk, flushed, shut, src, accepted>>

write_drop_future ==
    /\ write_fut.op # "none" /\ write_fut' = WriteNoFut
    /\ UNCHANGED <<buf, written, sunk, flushed, shut, src, accepted, write_last, write_ops>>

Write ==
    /\ write_fut.op = "write"
    /\ \E w \in Answers :
           /\ poll_write(write_fut.buf, w) /\ accepted' = accepted \o SubSeq(write_fut.buf, 1, w.n)
           /\ IF w.r = "pending" THEN UNCHANGED <<write_fut, write_last>> ELSE WriteFinish(w.r)
    /\ UNCHANGED <<flushed, shut, src, write_ops>>

\* One turn of the loop.
WriteAll ==
    /\ write_fut.op = "write_all"
    /\ IF write_fut.buf = <<>> THEN WriteFinish("ok") /\ Kept /\ UNCHANGED accepted
       ELSE \E w \in Answers :
              /\ poll_write(write_fut.buf, w) /\ accepted' = accepted \o SubSeq(write_fut.buf, 1, w.n)
              /\ CASE w.r = "pending" -> UNCHANGED <<write_fut, write_last>>
                   [] w.r = "ok" /\ w.n > 0 -> write_fut' = [write_fut EXCEPT !.buf = WriteRest(@, w.n)] /\ UNCHANGED write_last
                   [] OTHER -> WriteFinish(IF w.r = "ok" THEN "zero" ELSE w.r)
    /\ UNCHANGED <<flushed, shut, src, write_ops>>

\* An integer: a sink that takes nothing is asked again.
WriteInt ==
    /\ write_fut.op = "write_int"
    /\ IF write_fut.pos = Len(write_fut.buf) THEN WriteFinish("ok") /\ Kept /\ UNCHANGED accepted
       ELSE \E w \in Answers :
              /\ poll_write(WriteRest(write_fut.buf, write_fut.pos), w)
              /\ accepted' = accepted \o SubSeq(write_fut.buf, write_fut.pos + 1, write_fut.pos + w.n)
              /\ CASE w.r = "pending" -> UNCHANGED <<write_fut, write_last>>
                   [] w.r = "ok" -> write_fut' = [write_fut EXCEPT !.pos = @ + w.n] /\ UNCHANGED write_last
                   [] OTHER -> WriteFinish(w.r)
    /\ UNCHANGED <<flushed, shut, src, write_ops>>

\* write_u8, write_i8: a sink that takes nothing leaves the future pending.
WriteByte ==
    /\ write_fut.op = "write_u8"
    /\ \E w \in Answers :
           /\ poll_write(write_fut.buf, w) /\ accepted' = accepted \o SubSeq(write_fut.buf, 1, w.n)
           /\ IF w.r = "pending" \/ (w.r = "ok" /\ w.n = 0) THEN UNCHANGED <<write_fut, write_last>> ELSE WriteFinish(w.r)
    /\ UNCHANGED <<flushed, shut, src, write_ops>>

\* poll_flush: the buffer first, then the sink.
poll_flush ==
    /\ write_fut.op = "flush"
    /\ \E f \in Flushes :
           /\ flush_buf(f)
           /\ IF f.r = "pending" THEN UNCHANGED <<write_fut, write_last, flushed>>
              ELSE IF f.r # "ok" THEN WriteFinish(f.r) /\ UNCHANGED flushed
              ELSE \/ UNCHANGED <<write_fut, write_last, flushed>>
                   \/ WriteFinish("err") /\ UNCHANGED flushed
                   \/ WriteFinish("ok") /\ flushed' = Len(sunk')
    /\ UNCHANGED <<shut, src, accepted, write_ops>>

poll_shutdown ==
    /\ write_fut.op = "shutdown"
    /\ \E f \in Flushes :
           /\ flush_buf(f)
           /\ IF f.r = "pending" THEN UNCHANGED <<write_fut, write_last, shut>>
              ELSE IF f.r # "ok" THEN WriteFinish(f.r) /\ UNCHANGED shut
              ELSE \/ UNCHANGED <<write_fut, write_last, shut>>
                   \/ WriteFinish("ok") /\ shut' = TRUE
    /\ UNCHANGED <<flushed, src, accepted, write_ops>>

-----------------------------------------------------------------------------
(* Copy: its three parts, in the order of its loop. *)

copy_read ==
    /\ write_fut.op = "copy" /\ write_fut.pos = write_fut.cap /\ ~write_fut.read_done
    /\ \/ UNCHANGED <<write_fut, write_last, src>>
       \/ WriteFinish("err") /\ UNCHANGED src
       \/ src = <<>> /\ write_fut' = [write_fut EXCEPT !.read_done = TRUE] /\ UNCHANGED <<write_last, src>>
       \/ \E n \in 1..Min({COPY, Len(src)}) :
              /\ write_fut' = [write_fut EXCEPT !.pos = 0, !.cap = n, !.buf = SubSeq(src, 1, n)]
              /\ src' = WriteRest(src, n) /\ UNCHANGED write_last
    /\ Kept /\ UNCHANGED <<flushed, shut, accepted, write_ops>>

copy_write ==
    /\ write_fut.op = "copy" /\ write_fut.pos < write_fut.cap
    /\ \E w \in Answers :
           /\ poll_write(WriteRest(write_fut.buf, write_fut.pos), w)
           /\ accepted' = accepted \o SubSeq(write_fut.buf, write_fut.pos + 1, write_fut.pos + w.n)
           /\ CASE w.r = "pending" -> UNCHANGED <<write_fut, write_last>>
                [] w.r = "ok" /\ w.n > 0 -> write_fut' = [write_fut EXCEPT !.pos = @ + w.n, !.amt = @ + w.n] /\ UNCHANGED write_last
                [] OTHER -> WriteFinish(IF w.r = "ok" THEN "zero" ELSE w.r)
    /\ UNCHANGED <<flushed, shut, src, write_ops>>

copy_flush ==
    /\ write_fut.op = "copy" /\ write_fut.pos = write_fut.cap /\ write_fut.read_done
    /\ \E f \in Flushes :
           /\ flush_buf(f)
           /\ IF f.r = "pending" THEN UNCHANGED <<write_fut, write_last, flushed>>
              ELSE IF f.r # "ok" THEN WriteFinish(f.r) /\ UNCHANGED flushed
              ELSE \/ UNCHANGED <<write_fut, write_last, flushed>>
                   \/ WriteFinish("ok") /\ flushed' = Len(sunk')
    /\ UNCHANGED <<shut, src, accepted, write_ops>>

WriteNext ==
    \/ \E n \in Sizes : \E op \in {"write", "write_all"} : write_start(op, n)
    \/ write_start("write_int", 2) \/ write_start("write_u8", 1) \/ write_start("flush", 0) \/ write_start("shutdown", 0) \/ write_start("copy", 0)
    \/ write_drop_future \/ Write \/ WriteAll \/ WriteInt \/ WriteByte \/ poll_flush \/ poll_shutdown
    \/ copy_read \/ copy_write \/ copy_flush

WriteSpec == WriteInit /\ [][WriteNext]_writeVars

-----------------------------------------------------------------------------
\* The sink gets every byte the adapter took, once and in order, and nothing else: a
\* flush that is interrupted, fails or is dropped repeats and loses none.
InOrder == accepted = sunk \o WriteRest(buf, written)

\* The buffer never outgrows its capacity.
Bounded == Len(buf) <= CAP /\ written <= Len(buf)

\* A flush, a copy or a shutdown that answers Ok leaves nothing behind.
FlushIsFlush ==
    /\ write_fut.op = "none" /\ write_last.res = "ok" /\ write_last.op \in {"flush", "copy"} => buf = <<>> /\ flushed = Len(accepted)
    /\ shut => buf = <<>>
    /\ write_fut.op = "none" /\ write_last.op = "copy" /\ write_last.res = "ok" => src = <<>>

WriteSound == InOrder /\ Bounded /\ FlushIsFlush

-----------------------------------------------------------------------------
(* krse::io::split: the read half and the write half of one stream, used by    *)
(* two tasks on two threads, and the spin lock between them.                   *)

CONSTANTS
    MaxPolls     \* bound: operations of each half

Halves == {"rd", "wr"}

VARIABLES
    locked,      \* Inner::locked
    pc,          \* where each half's task is: "idle", "lock", "stream", "unlock", "again"
    woken,       \* the task has been woken since it was last polled
    ready,       \* the stream would answer this half
    waits,       \* the stream holds this half's waker
    result,      \* what the poll is to return
    polls, done, \* operations started and finished
    whole        \* "split", "joined" or "panic"

splitVars == <<locked, pc, woken, ready, waits, result, polls, done, whole>>

SplitInit ==
    /\ locked = FALSE /\ pc = [h \in Halves |-> "idle"] /\ woken = [h \in Halves |-> FALSE]
    /\ ready = [h \in Halves |-> FALSE] /\ waits = [h \in Halves |-> FALSE]
    /\ result = [h \in Halves |-> "none"] /\ polls = [h \in Halves |-> 0] /\ done = [h \in Halves |-> 0]
    /\ whole = "split"

\* An operation begins, or its woken task polls it again.
split_start(h) ==
    /\ whole = "split" /\ pc[h] = "idle" /\ polls[h] < MaxPolls
    /\ pc' = [pc EXCEPT ![h] = "lock"] /\ polls' = [polls EXCEPT ![h] = @ + 1]
    /\ UNCHANGED <<locked, woken, ready, waits, result, done, whole>>

repoll(h) ==
    /\ pc[h] = "again" /\ woken[h]
    /\ pc' = [pc EXCEPT ![h] = "lock"] /\ woken' = [woken EXCEPT ![h] = FALSE]
    /\ UNCHANGED <<locked, ready, waits, result, polls, done, whole>>

\* poll_lock: a task that finds the lock taken wakes itself.
poll_lock(h) ==
    /\ pc[h] = "lock"
    /\ IF ~locked THEN locked' = TRUE /\ pc' = [pc EXCEPT ![h] = "stream"] /\ UNCHANGED woken
       ELSE woken' = [woken EXCEPT ![h] = TRUE] /\ pc' = [pc EXCEPT ![h] = "again"] /\ UNCHANGED locked
    /\ UNCHANGED <<ready, waits, result, polls, done, whole>>

\* The stream's poll_read, poll_write, poll_flush or poll_shutdown, under the lock.
poll_stream(h) ==
    /\ pc[h] = "stream"
    /\ pc' = [pc EXCEPT ![h] = "unlock"]
    /\ IF ready[h]
       THEN /\ result' = [result EXCEPT ![h] = "ready"] /\ ready' = [ready EXCEPT ![h] = FALSE]
            /\ UNCHANGED waits
       ELSE /\ result' = [result EXCEPT ![h] = "pending"] /\ waits' = [waits EXCEPT ![h] = TRUE]
            /\ UNCHANGED ready
    /\ UNCHANGED <<locked, woken, polls, done, whole>>

\* Drop of the Guard, and the poll returns.
unlock(h) ==
    /\ pc[h] = "unlock" /\ locked' = FALSE
    /\ IF result[h] = "ready" THEN pc' = [pc EXCEPT ![h] = "idle"] /\ done' = [done EXCEPT ![h] = @ + 1]
       ELSE pc' = [pc EXCEPT ![h] = "again"] /\ UNCHANGED done
    /\ UNCHANGED <<woken, ready, waits, result, polls, whole>>

\* ReadHalf::unsplit: both halves are needed, so neither is in use.
unsplit ==
    /\ whole = "split" /\ \A h \in Halves : pc[h] = "idle" /\ polls[h] = MaxPolls
    /\ whole' = IF locked THEN "panic" ELSE "joined"
    /\ UNCHANGED <<locked, pc, woken, ready, waits, result, polls, done>>

\* The stream becomes ready for one half: outside the module.
becomes_ready(h) ==
    /\ ~ready[h] /\ pc[h] # "idle"
    /\ ready' = [ready EXCEPT ![h] = TRUE]
    /\ IF waits[h] THEN waits' = [waits EXCEPT ![h] = FALSE] /\ woken' = [woken EXCEPT ![h] = TRUE]
       ELSE UNCHANGED <<waits, woken>>
    /\ UNCHANGED <<locked, pc, result, polls, done, whole>>

Finished == whole = "joined" /\ UNCHANGED splitVars

SplitNext == unsplit \/ Finished
        \/ \E h \in Halves : split_start(h) \/ repoll(h) \/ poll_lock(h) \/ poll_stream(h) \/ unlock(h) \/ becomes_ready(h)

SplitSpec == SplitInit /\ [][SplitNext]_splitVars

-----------------------------------------------------------------------------
\* The stream, held in an UnsafeCell, is never used by both halves at once; the lock is
\* held exactly while one of them uses it.
OneAtATime ==
    /\ Cardinality({h \in Halves : pc[h] \in {"stream", "unlock"}}) = (IF locked THEN 1 ELSE 0)
    /\ whole # "panic"

\* A pending half has been woken or will be: by the stream, or by itself after it found
\* the lock taken.
NoHalfForgotten ==
    \A h \in Halves : pc[h] = "again" => woken[h] \/ (waits[h] /\ ~ready[h])

SplitSound == OneAtATime /\ NoHalfForgotten
=============================================================================
