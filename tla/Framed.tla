------------------------------- MODULE Framed --------------------------------
(* Framed transports: the length-delimited, line and byte codecs, and the   *)
(* websocket codec with its handshake.                                      *)
EXTENDS Integers, Sequences, FiniteSets, SequencesExt, Functions, FiniteSetsExt

(* The framed transports of the codec module: FramedRead2 and FramedWrite2,   *)
(* the Framed made of both, the second Framed of framed2.rs, and the codecs   *)
(* they drive: LengthDelimitedCodec, LinesCodec and BytesCodec.               *)
(*                                                                             *)
(* One end writes items, or raw bytes that stand for a foreign peer; the      *)
(* other reads them in fragments of any size.  A byte is a number below       *)
(* RADIX; CR, NL and BAD (a byte that is not UTF-8) are three of them.        *)
(* Configurations are chosen in the initial state; `conf.kind` tells which    *)
(* of the two implementations is in use.                                      *)

CONSTANTS
    Confs,     \* configurations: [codec, kind, items, raw, ...]
    RADIX,     \* values of a byte (256)
    BOUNDARY   \* BACKPRESSURE_BOUNDARY and HW: a full write buffer

VARIABLES
    conf,      \* the configuration
    items,     \* items still to send
    wbuf,      \* FramedWrite2::buffer
    wire,      \* bytes under way
    shut,      \* has the writer shut the stream down?
    rbuf,      \* FramedRead2::buffer
    eof,       \* FramedRead2::eof, Flags::EOF
    readable,  \* FramedRead2::is_readable, Flags::READABLE
    dec,       \* decoder state
    got,       \* what the stream has yielded
    input      \* all bytes that went over the wire

vars == <<conf, items, wbuf, wire, shut, rbuf, eof, readable, dec, got, input>>

CR == 1
NL == 2
BAD == 3

Take(s, n) == SubSeq(s, 1, n)
Drop(s, n) == SubSeq(s, n + 1, Len(s))
Least(a, b) == IF a < b THEN a ELSE b

Item(x)  == [is |-> "item", item |-> x]
Error(e) == [is |-> "error", error |-> e]
Nothing  == [is |-> "none"]
Result(r, buf, st) == [res |-> r, buf |-> buf, st |-> st]

-----------------------------------------------------------------------------
(* LengthDelimitedCodec.  The state is -1 in Head and n in Data(n). *)

Head1 == -1
Skip(c) == IF c.num_skip = -1 THEN c.offset + c.field ELSE c.num_skip
num_head_bytes(c) ==
    IF c.num_skip > c.offset + c.field THEN c.num_skip ELSE c.offset + c.field

\* put_uint and get_uint: only the low bytes of a number are written.
RECURSIVE Bytes(_, _)
Bytes(n, len) == IF len = 0 THEN <<>> ELSE Append(Bytes(n \div RADIX, len - 1), n % RADIX)
PutUint(c, n) == IF c.big THEN Bytes(n, c.field) ELSE Reverse(Bytes(n, c.field))
GetUint(c, s) == FoldLeft(LAMBDA acc, b : acc * RADIX + b, 0, IF c.big THEN s ELSE Reverse(s))

length_head(c, buf) ==
    LET n == GetUint(c, SubSeq(buf, c.offset + 1, c.offset + c.field))
    IN CASE Len(buf) < num_head_bytes(c) -> Result(Nothing, buf, Head1)
         [] OTHER -> IF n > c.max THEN Result(Error("too big"), buf, Head1)
                     ELSE IF n + c.adjust < 0 THEN Result(Error("overflow"), buf, Head1)
                     ELSE Result(Nothing, Drop(buf, Skip(c)), n + c.adjust)

length_decode(c, buf, st) ==
    LET head == IF st = Head1 THEN length_head(c, buf) ELSE Result(Nothing, buf, st)
    IN IF head.st = Head1 \/ Len(head.buf) < head.st THEN head
       ELSE Result(Item(Take(head.buf, head.st)), Drop(head.buf, head.st), Head1)

length_encode(c, x) ==
    LET n == Len(x) - c.adjust
    IN IF Len(x) > c.max \/ n < 0 THEN Error("refused") ELSE Item(PutUint(c, n) \o x)

-----------------------------------------------------------------------------
(* LinesCodec.  The state is [next_index, discarding]. *)

NewLines == [next |-> 0, discarding |-> FALSE]
without_carriage_return(s) ==
    IF s # <<>> /\ Last(s) = CR THEN Front(s) ELSE s
Line(s) ==
    IF BAD \in {s[i] : i \in DOMAIN s} THEN Error("utf8") ELSE Item(without_carriage_return(s))

RECURSIVE lines_decode(_, _, _)
lines_decode(c, buf, st) ==
    LET read_to == Least(c.max + 1, Len(buf))
        found == {i \in st.next + 1 .. read_to : buf[i] = NL}
        nl == CHOOSE i \in found : \A j \in found : i <= j
    IN IF st.discarding THEN
          IF found # {} THEN lines_decode(c, Drop(buf, nl), NewLines)
          ELSE LET rest == Drop(buf, read_to) IN
               IF rest = <<>> THEN Result(Error("too long"), rest, [st EXCEPT !.next = 0])
               ELSE lines_decode(c, rest, [st EXCEPT !.next = 0])
       ELSE IF found # {} THEN Result(Line(Take(buf, nl - 1)), Drop(buf, nl), NewLines)
       ELSE IF Len(buf) > c.max
            THEN Result(Error("too long"), buf, [st EXCEPT !.discarding = TRUE])
       ELSE Result(Nothing, buf, [st EXCEPT !.next = read_to])

lines_decode_eof(c, buf, st) ==
    LET d == lines_decode(c, buf, st) IN
    IF d.res # Nothing \/ d.buf = <<>> \/ d.buf = <<CR>> THEN d
    ELSE Result(Line(d.buf), <<>>, NewLines)

-----------------------------------------------------------------------------
NewDecoder(c) == IF c.codec = "lines" THEN NewLines ELSE Head1

decode(c, buf, st) ==
    CASE c.codec = "length" -> length_decode(c, buf, st)
      [] c.codec = "lines"  -> lines_decode(c, buf, st)
      [] c.codec = "bytes"  -> IF buf = <<>> THEN Result(Nothing, buf, st)
                               ELSE Result(Item(buf), <<>>, st)

\* Decoder::decode_eof: what is left over is an error.
decode_eof(c, buf, st) ==
    IF c.codec = "lines" THEN lines_decode_eof(c, buf, st)
    ELSE LET d == decode(c, buf, st)
         IN IF d.res = Nothing /\ d.buf # <<>>
            THEN Result(Error("bytes remaining"), d.buf, d.st) ELSE d

encode(c, x) ==
    CASE c.codec = "length" -> length_encode(c, x)
      [] c.codec = "lines"  -> Item(Append(x, NL))
      [] c.codec = "bytes"  -> Item(x)

-----------------------------------------------------------------------------
Init ==
    /\ conf \in Confs
    /\ items = conf.items /\ wbuf = <<>> /\ wire = conf.raw /\ shut = FALSE
    /\ rbuf = <<>> /\ eof = FALSE /\ readable = FALSE /\ dec = NewDecoder(conf)
    /\ got = <<>> /\ input = conf.raw

\* poll_ready and start_send.  A full buffer has to be flushed first:
\* FramedWrite2 does that itself, framed2 leaves it to its owner.
start_send ==
    /\ items # <<>> /\ ~shut /\ Len(wbuf) < BOUNDARY
    /\ items' = Tail(items)
    /\ LET e == encode(conf, Head(items))
       IN wbuf' = IF e.is = "item" THEN wbuf \o e.item ELSE wbuf
    /\ UNCHANGED <<conf, wire, shut, rbuf, eof, readable, dec, got, input>>

\* One poll_write of poll_flush takes some of the buffer.
poll_flush ==
    /\ wbuf # <<>> /\ ~shut
    /\ \E n \in 1 .. Len(wbuf) :
          /\ wire' = wire \o Take(wbuf, n)
          /\ input' = input \o Take(wbuf, n)
          /\ wbuf' = Drop(wbuf, n)
    /\ UNCHANGED <<conf, items, shut, rbuf, eof, readable, dec, got>>

\* FramedWrite2 flushes before it shuts the stream down; framed2's close does
\* not look at its write buffer.
poll_close ==
    /\ ~shut /\ items = <<>>
    /\ conf.kind = "framed" => wbuf = <<>>
    /\ shut' = TRUE
    /\ UNCHANGED <<conf, items, wbuf, wire, rbuf, eof, readable, dec, got, input>>

-----------------------------------------------------------------------------
(* poll_next and next_item. *)

Ended == got # <<>> /\ Last(got) = Nothing

\* The buffer is worth a decode.  An error leaves the flags as they are, so
\* that the next poll decodes again.
poll_decode ==
    /\ readable /\ ~Ended
    /\ LET d == IF eof THEN decode_eof(conf, rbuf, dec) ELSE decode(conf, rbuf, dec) IN
       /\ rbuf' = d.buf /\ dec' = d.st
       /\ IF d.res # Nothing \/ eof THEN got' = Append(got, d.res) /\ UNCHANGED readable
          ELSE readable' = FALSE /\ UNCHANGED got
       \* Errors that repeat without end are cut after the second.
       /\ d.res.is = "error" => Len(SelectSeq(got, LAMBDA r : r = d.res)) < 2
    /\ UNCHANGED <<conf, items, wbuf, wire, shut, eof, input>>

poll_read ==
    /\ ~readable /\ wire # <<>>
    /\ \E n \in 1 .. Len(wire) : rbuf' = rbuf \o Take(wire, n) /\ wire' = Drop(wire, n)
    /\ readable' = TRUE
    /\ UNCHANGED <<conf, items, wbuf, shut, eof, dec, got, input>>

read_eof ==
    /\ ~readable /\ wire = <<>> /\ shut
    /\ eof' = TRUE /\ readable' = TRUE
    /\ UNCHANGED <<conf, items, wbuf, wire, shut, rbuf, dec, got, input>>

Next == start_send \/ poll_flush \/ poll_close \/ poll_decode \/ poll_read \/ read_eof
Spec == Init /\ [][Next]_vars

-----------------------------------------------------------------------------
(* What the bytes mean, read as a whole. *)

RECURSIVE LengthFrames(_, _)
LengthFrames(c, s) ==
    LET n == GetUint(c, SubSeq(s, c.offset + 1, c.offset + c.field))
        rest == Drop(s, Skip(c))
    IN IF Len(s) < num_head_bytes(c) THEN <<>>
       ELSE IF n > c.max \/ n + c.adjust < 0 \/ Len(rest) < n + c.adjust THEN <<>>
       ELSE <<Take(rest, n + c.adjust)>> \o LengthFrames(c, Drop(rest, n + c.adjust))

\* The lines of the input up to its last newline, without the too long ones.
RECURSIVE WholeLines(_, _)
WholeLines(c, s) ==
    IF NL \notin {s[i] : i \in DOMAIN s} THEN <<>>
    ELSE LET nl == CHOOSE i \in DOMAIN s : s[i] = NL /\ \A j \in 1 .. i - 1 : s[j] # NL
             line == Line(Take(s, nl - 1))
         IN (IF nl - 1 <= c.max /\ line.is = "item" THEN <<line.item>> ELSE <<>>)
              \o WholeLines(c, Drop(s, nl))

RECURSIVE Concat(_)
Concat(ss) == IF ss = <<>> THEN <<>> ELSE Head(ss) \o Concat(Tail(ss))

GotItems == LET is == SelectSeq(got, LAMBDA r : r.is = "item")
            IN [i \in DOMAIN is |-> is[i].item]
Seen == Take(input, Len(input) - Len(wire))

\* However the bytes are cut into reads, the stream yields the frames that they
\* hold, in order, and has yielded all of those that it has seen when it waits
\* for more (FramedRead2::poll_next, Framed::next_item).
Frames ==
    LET whole == CASE conf.codec = "length" -> LengthFrames(conf, Seen)
                   [] conf.codec = "lines"  -> WholeLines(conf, Seen)
                   [] conf.codec = "bytes"  -> <<Seen>>
    IN IF conf.codec = "bytes" THEN Concat(GotItems) \o rbuf = Seen
       ELSE /\ IsPrefix(GotItems, whole) \/ (eof /\ IsPrefix(whole, GotItems)
                                             /\ Len(GotItems) = Len(whole) + 1)
            /\ ~readable => GotItems = whole

\* What arrives is what was written: with one configuration at both ends and a
\* length field wide enough, every accepted item comes out again.  Bytes that
\* framed2's close left in the write buffer are lost, and with them whole items
\* or the end of one.
Sent == SelectSeq(conf.items, LAMBDA x : encode(conf, x).is = "item")
RoundTrip ==
    conf.raw = <<>> /\ (shut => wbuf = <<>>) =>
        /\ conf.codec # "bytes" => IsPrefix(GotItems, Sent)
        /\ Ended =>
             IF conf.codec = "bytes" THEN Concat(GotItems) = Concat(Sent) ELSE GotItems = Sent

\* A stream that ends without an error has no part of a frame left, unless the
\* cut came just behind a frame's head: LengthDelimitedCodec has then taken the
\* head out of the buffer and decode_eof sees no bytes.
CleanEnd ==
    Ended /\ (\A i \in DOMAIN got : got[i].is # "error") =>
        /\ rbuf = <<>> \/ rbuf = <<CR>>
        /\ conf.codec = "length" => (dec = Head1 \/ rbuf = <<>>)

\* LinesCodec never looks for a newline beyond the buffer or before the place
\* it has searched, so that its slice is in range.
Searched ==
    conf.codec = "lines" => dec.next <= Len(rbuf) /\ dec.next <= conf.max + 1
                            /\ \A i \in 1 .. dec.next : rbuf[i] # NL

FramedSound == Frames /\ RoundTrip /\ CleanEnd /\ Searched

-----------------------------------------------------------------------------
(* A websocket connection: the client's request builder and its checks of the *)
(* answer (web/client/ws.rs), the server's handshake (websocket/mod.rs), and   *)
(* frames through Codec and Parser at the two ends (codec.rs, frame.rs,        *)
(* mask.rs).  Bytes are numbers below 256; the two lengths at which a frame    *)
(* grows a longer length field are constants, so that small payloads reach     *)
(* them.                                                                        *)

CONSTANTS
    Answers,  \* response heads: status 0 is this server, others are foreign
    SHORT,    \* 126: lengths from here on need a longer length field
    MEDIUM,   \* 65535: the longest length of the two-byte field
    LONG,     \* 8: bytes of the longest length field
    Masks,    \* masks a client may draw
    WORD,     \* 8: bytes masked at a time
    Align     \* addresses, modulo WORD, at which a buffer may start

VARIABLES
    build, phase, head, err, key, answer,  \* the handshake
    script,  \* [from, max_size, msgs]: a sender and its messages; or [raw, frames, error]: bytes
    next, wcont, ws_wire,       \* the sending end
    src, rcont, ws_got, error                 \* the receiving end

hvars == <<build, head, err, key, answer>>
wsVars == <<build, phase, head, err, key, answer, script, next, wcont, ws_wire, src, rcont, ws_got, error>>

-----------------------------------------------------------------------------
(* proto.rs *)

OpCodes == [Continue |-> 0, Text |-> 1, Binary |-> 2, Close |-> 8, Ping |-> 9, Pong |-> 10]
OpCode(byte) == IF byte \in Range(OpCodes) THEN CHOOSE o \in DOMAIN OpCodes : OpCodes[o] = byte ELSE "Bad"

CloseCodes == [Normal |-> 1000, Away |-> 1001, Protocol |-> 1002, Unsupported |-> 1003,
               Abnormal |-> 1006, Invalid |-> 1007, Policy |-> 1008, Size |-> 1009,
               Extension |-> 1010, Error |-> 1011, Restart |-> 1012, Again |-> 1013, Tls |-> 1015]
\* A code without a name is Other(code), written as the number itself.
CloseCode(n) == IF n \in Range(CloseCodes) THEN <<CHOOSE c \in DOMAIN CloseCodes : CloseCodes[c] = n>> ELSE <<"Other", n>>
CodeOf(c) == IF c[1] = "Other" THEN c[2] ELSE CloseCodes[c[1]]

hash_key(k) == <<"hash", k>>

-----------------------------------------------------------------------------
(* mask.rs: the mask is applied a word at a time; the first bytes up to a word *)
(* boundary and the last ones are masked apart, with the mask rotated.         *)

XorBit(a, b, bit) == IF (a \div bit + b \div bit) % 2 = 1 THEN bit ELSE 0
Xor(a, b) == XorBit(a, b, 1) + XorBit(a, b, 2) + XorBit(a, b, 4) + XorBit(a, b, 8)
             + XorBit(a, b, 16) + XorBit(a, b, 32) + XorBit(a, b, 64) + XorBit(a, b, 128)
Rotate(mask, n) == [i \in 1 .. WORD |-> mask[((i - 1 + n) % WORD) + 1]]
Word(mask) == [i \in 1 .. WORD |-> mask[((i - 1) % Len(mask)) + 1]]
xor_short(buf, m) == [i \in 1 .. Len(buf) |-> Xor(buf[i], m[((i - 1) % WORD) + 1])]

apply_mask(buf, mask, start) ==
    LET startAligned == ((start + WORD - 1) \div WORD) * WORD - start
        endAligned == ((start + Len(buf)) \div WORD) * WORD - start
        m == Word(mask)
    IN IF (start + Len(buf)) \div WORD < (start + WORD - 1) \div WORD THEN xor_short(buf, m)
       ELSE LET m2 == Rotate(m, startAligned)
            IN xor_short(SubSeq(buf, 1, startAligned), m)
               \o xor_short(SubSeq(buf, startAligned + 1, endAligned), m2)
               \o xor_short(SubSeq(buf, endAligned + 1, Len(buf)), m2)

-----------------------------------------------------------------------------
(* frame.rs *)

BigEndian(n, len) == [i \in 1 .. len |-> (n \div 256^(len - i)) % 256]
Number(bytes) == FoldLeft(LAMBDA a, b : a * 256 + b, 0, bytes)
WsDrop(s, n) == SubSeq(s, n + 1, Len(s))

\* A mask is a sequence of four bytes, or <<>> for none.
write_message(payload, op, fin, mask, start) ==
    LET one == (IF fin THEN 128 ELSE 0) + OpCodes[op]
        two == IF mask # <<>> THEN 128 ELSE 0
        n == Len(payload)
    IN (IF n < SHORT THEN <<one, two + n>>
        ELSE IF n <= MEDIUM THEN <<one, two + SHORT>> \o BigEndian(n, 2)
        ELSE <<one, two + SHORT + 1>> \o BigEndian(n, LONG))
       \o (IF mask = <<>> THEN payload ELSE mask \o apply_mask(payload, mask, start))

ClosePayload(reason) == IF reason = <<>> THEN <<>> ELSE BigEndian(CodeOf(reason[1]), 2) \o reason[2]

parse_close_payload(payload) ==
    IF Len(payload) < 2 THEN <<>>
    ELSE <<CloseCode(Number(SubSeq(payload, 1, 2))), WsDrop(payload, 2)>>

Incomplete == [is |-> "none"]
Fail(e) == [is |-> "error", error |-> e]

LengthBytes(len) == IF len = SHORT THEN 2 ELSE IF len = SHORT + 1 THEN LONG ELSE 0

parse_metadata(s, server, max_size) ==
    IF Len(s) < 2 THEN Incomplete
    ELSE LET masked == s[2] >= 128
             op == OpCode(s[1] % 16)
             ext == LengthBytes(s[2] % 128)
             len == IF ext = 0 THEN s[2] % 128 ELSE Number(SubSeq(s, 3, 2 + ext))
             idx == 2 + ext + (IF server THEN 4 ELSE 0)
         IN IF masked # server THEN Fail(IF server THEN "UnmaskedFrame" ELSE "MaskedFrame")
            ELSE IF op = "Bad" THEN Fail("InvalidOpcode")
            ELSE IF Len(s) < 2 + ext THEN Incomplete
            ELSE IF len > max_size THEN Fail("Overflow")
            ELSE IF Len(s) < idx THEN Incomplete
            ELSE [is |-> "some", idx |-> idx, fin |-> s[1] >= 128, op |-> op, len |-> len,
                  mask |-> IF server THEN SubSeq(s, idx - 3, idx) ELSE <<>>]

\* What parse returns, and what it leaves in the buffer.
parse(s, server, max_size, start) ==
    LET m == parse_metadata(s, server, max_size)
    IN IF m.is # "some" THEN [r |-> m, rest |-> s]
       ELSE IF Len(s) < m.idx + m.len THEN [r |-> Incomplete, rest |-> s]
       ELSE LET data == SubSeq(s, m.idx + 1, m.idx + m.len)
                plain == IF m.mask = <<>> THEN data ELSE apply_mask(data, m.mask, start)
            IN [rest |-> WsDrop(s, m.idx + m.len),
                r |-> IF m.op \in {"Ping", "Pong"} /\ m.len > SHORT - 1 THEN Fail("InvalidLength")
                      ELSE IF m.op = "Close" /\ m.len > SHORT - 1
                      THEN [is |-> "some", fin |-> TRUE, op |-> "Close", data |-> <<>>]
                      ELSE [is |-> "some", fin |-> m.fin, op |-> m.op, data |-> plain]]

-----------------------------------------------------------------------------
(* codec.rs.  A message is <<kind, data>>. *)

\* Codec::encode: the frame of a message, with the opcode the code gives it.
FrameOf == [Text |-> <<"Text", TRUE>>, Binary |-> <<"Binary", TRUE>>, Ping |-> <<"Ping", TRUE>>,
            Pong |-> <<"Pong", TRUE>>, Close |-> <<"Close", TRUE>>,
            FirstText |-> <<"Binary", FALSE>>, FirstBinary |-> <<"Text", FALSE>>,
            Continue |-> <<"Continue", FALSE>>, Last |-> <<"Continue", TRUE>>]
CanEncode(kind, cont) ==
    IF kind \in {"FirstText", "FirstBinary"} THEN ~cont
    ELSE IF kind \in {"Continue", "Last"} THEN cont ELSE TRUE
Continues(kind, cont) == IF kind \in {"FirstText", "FirstBinary"} THEN TRUE ELSE kind # "Last" /\ cont

ws_encode(msg, cont, mask, start) ==
    IF msg[1] = "Nop" \/ ~CanEncode(msg[1], cont) THEN <<>>
    ELSE LET f == FrameOf[msg[1]]
             data == IF msg[1] = "Close" THEN ClosePayload(msg[2]) ELSE msg[2]
         IN write_message(data, f[1], f[2], mask, start)

\* Codec::decode of one parsed frame: the frame or error, and the flag after it.
ws_decode(p, cont) ==
    LET ok(kind, c) == [r |-> <<kind, p.data>>, cont |-> c]
        no(e) == [r |-> <<"error", e>>, cont |-> cont]
    IN CASE p.op = "Continue" -> IF cont THEN ok(IF p.fin THEN "Last" ELSE "Continue", ~p.fin)
                                 ELSE no("ContinuationNotStarted")
         [] p.op \in {"Text", "Binary"} /\ ~p.fin ->
                IF cont THEN no("ContinuationStarted")
                ELSE ok(IF p.op = "Text" THEN "FirstText" ELSE "FirstBinary", TRUE)
         [] p.op \in {"Close", "Ping", "Pong"} /\ ~p.fin -> no("ContinuationFragment")
         [] p.op = "Close" /\ p.fin -> [r |-> <<"Close", parse_close_payload(p.data)>>, cont |-> cont]
         [] OTHER -> ok(p.op, cont)

-----------------------------------------------------------------------------
(* The handshake.  Headers map a name to its values. *)

Insert(h, name, v) == (name :> <<v>>) @@ h
AppendTo(h, name, v) == (name :> (IF name \in DOMAIN h THEN Append(h[name], v) ELSE <<v>>)) @@ h
Has(h, name) == name \in DOMAIN h
First(h, name) == IF Has(h, name) THEN h[name][1] ELSE "missing"

WsInit ==
    /\ \E c \in Confs : build = c.build /\ script = c.script
    /\ phase = "build" /\ head = [x \in {} |-> 0] /\ err = FALSE
    /\ key = "none" /\ answer = [status |-> 0]
    /\ next = 1 /\ wcont = FALSE /\ ws_wire = script.raw
    /\ src = <<>> /\ rcont = FALSE /\ ws_got = <<>> /\ error = "none"

\* A call of the builder: <<call, name, value>>.  The value or name may be bad.
build_step ==
    /\ phase = "build" /\ build # <<>> /\ build' = Tail(build)
    /\ LET c == Head(build)
           skip == c[1] = "set_header_if_none" /\ Has(head, c[2])
           bad == c[2] = "bad" \/ (c[3] = "bad" /\ ~skip)
       IN /\ err' = (err \/ bad)
          /\ head' = IF bad \/ skip THEN head
                     ELSE IF c[1] = "header" THEN AppendTo(head, c[2], c[3]) ELSE Insert(head, c[2], c[3])
    /\ UNCHANGED <<phase, key, answer, script, next, wcont, ws_wire, src, rcont, ws_got, error>>

\* WebsocketsRequest::connect up to the request.
connect ==
    /\ phase = "build" /\ build = <<>>
    /\ IF err \/ First(head, "scheme") = "bad_scheme" THEN phase' = "failed" /\ UNCHANGED <<head, key>>
       ELSE /\ key' = "k1" /\ phase' = "sent"
            /\ head' = LET h1 == IF Has(head, "host") THEN head ELSE Insert(head, "host", "uri")
                       IN Insert(Insert(Insert(Insert(h1, "connection", "upgrade"), "upgrade", "websocket"),
                                        "sec-websocket-version", "13"), "sec-websocket-key", "k1")
    /\ UNCHANGED <<build, err, answer, script, next, wcont, ws_wire, src, rcont, ws_got, error>>

verify_handshake(method, h) ==
    IF method # "GET" THEN 405
    ELSE IF First(h, "upgrade") # "websocket" THEN 400
    ELSE IF First(h, "connection") # "upgrade" THEN 400
    ELSE IF First(h, "sec-websocket-version") \notin {"13", "8", "7"} THEN 400
    ELSE IF ~Has(h, "sec-websocket-key") THEN 400
    ELSE 101

handshake_response(h) ==
    [status |-> 101, upgrade |-> "websocket", connection |-> "upgrade",
     accept |-> hash_key(First(h, "sec-websocket-key"))]

handshake ==
    /\ phase = "sent" /\ phase' = "answered"
    /\ \E a \in Answers :
          answer' = IF a.status # 0 THEN a
                    ELSE IF verify_handshake("GET", head) = 101 THEN handshake_response(head)
                    ELSE [status |-> verify_handshake("GET", head)]
    /\ UNCHANGED <<build, head, err, key, script, next, wcont, ws_wire, src, rcont, ws_got, error>>

\* connect checks the answer.
Accepts(a, k) ==
    IF a.status # 101 THEN "InvalidResponseStatus"
    ELSE IF a.upgrade # "websocket" THEN "InvalidUpgradeHeader"
    ELSE IF a.connection # "upgrade" THEN "InvalidConnectionHeader"
    ELSE IF a.accept = <<"missing">> THEN "MissingWebSocketAcceptHeader"
    ELSE IF a.accept # hash_key(k) THEN "InvalidChallengeResponse"
    ELSE "ok"

check_answer ==
    /\ phase = "answered"
    /\ phase' = IF Accepts(answer, key) = "ok" THEN "open" ELSE "failed"
    /\ UNCHANGED <<hvars, script, next, wcont, ws_wire, src, rcont, ws_got, error>>

-----------------------------------------------------------------------------
(* Frames: one end encodes, the bytes arrive in any pieces, the other decodes. *)

send ==
    /\ phase = "open" /\ next <= Len(script.msgs) /\ next' = next + 1
    /\ \E mask \in (IF script.from = "client" THEN Masks ELSE {<<>>}), start \in Align :
          ws_wire' = ws_wire \o ws_encode(script.msgs[next], wcont, mask, start)
    /\ wcont' = IF script.msgs[next][1] # "Nop" /\ CanEncode(script.msgs[next][1], wcont)
                THEN Continues(script.msgs[next][1], wcont) ELSE wcont
    /\ UNCHANGED <<hvars, phase, script, src, rcont, ws_got, error>>

\* Bytes arrive, and the receiving end decodes as much as it can.
receive ==
    /\ phase = "open" /\ ws_wire # <<>> /\ error = "none"
    /\ \E n \in {1, Len(ws_wire)} :
          src' = src \o SubSeq(ws_wire, 1, n) /\ ws_wire' = WsDrop(ws_wire, n)
    /\ UNCHANGED <<hvars, phase, script, next, wcont, rcont, ws_got, error>>

decode_step ==
    /\ phase = "open" /\ error = "none"
    /\ \E start \in Align :
          LET p == parse(src, script.from = "client", script.max_size, start)
          IN /\ p.r.is # "none"
             /\ src' = p.rest
             /\ IF p.r.is = "error" THEN error' = p.r.error /\ UNCHANGED <<rcont, ws_got>>
                ELSE LET d == ws_decode(p.r, rcont)
                     IN /\ rcont' = d.cont
                        /\ IF d.r[1] = "error" THEN error' = d.r[2] /\ UNCHANGED ws_got
                           ELSE ws_got' = Append(ws_got, d.r) /\ UNCHANGED error
    /\ UNCHANGED <<hvars, phase, script, next, wcont, ws_wire>>

WsNext == build_step \/ connect \/ handshake \/ check_answer \/ send \/ receive \/ decode_step

WsSpec == WsInit /\ [][WsNext]_wsVars

-----------------------------------------------------------------------------
\* The messages the sender's codec takes, in order: the reference for the flag
\* that forbids a fragment out of place.
InSequence(i) ==
    LET before == {j \in 1 .. i - 1 : script.msgs[j][1] \in {"FirstText", "FirstBinary", "Last"}}
        opened == before # {} /\ script.msgs[Max(before)][1] # "Last"
    IN CanEncode(script.msgs[i][1], opened) /\ script.msgs[i][1] # "Nop"

\* encode gives the first fragment of a text the opcode of a binary frame, and
\* the other way round, so that the kind of a fragmented message is swapped.
AsDecoded(m) == IF m[1] = "FirstText" THEN <<"FirstBinary", m[2]>>
                ELSE IF m[1] = "FirstBinary" THEN <<"FirstText", m[2]>> ELSE m

Expected ==
    LET idx == SetToSortSeq({i \in 1 .. next - 1 : InSequence(i)}, <)
    IN script.frames \o [k \in 1 .. Len(idx) |-> AsDecoded(script.msgs[idx[k]])]

\* What one end sends the other receives, in order and unmasked, whatever the
\* pieces the bytes arrive in; with all bytes in, nothing is missing.
Delivered ==
    /\ IsPrefix(ws_got, Expected)
    /\ phase = "open" /\ ws_wire = <<>> /\ error = "none"
         /\ parse(src, script.from = "client", script.max_size, 0).r = Incomplete => ws_got = Expected

\* Only the scripts that break the protocol end in an error, and with theirs.
RightError == error # "none" => error = script.error

\* No payload is longer than max_size, and no control frame than 125 bytes.
Bounded == \A i \in DOMAIN ws_got :
    ws_got[i][1] # "Close" => Len(ws_got[i][2]) <= script.max_size /\ (ws_got[i][1] \in {"Ping", "Pong"} => Len(ws_got[i][2]) < SHORT)

\* A client opens a connection only with the answer to its own key, and headers
\* a program sets never make this server refuse it.
HandshakeSound ==
    /\ phase = "open" => answer.accept = hash_key(key)
    /\ phase = "answered" /\ Has(head, "sec-websocket-key")
         => verify_handshake("GET", head) = 101

WebSocketSound == Delivered /\ RightError /\ Bounded /\ HandshakeSound
=============================================================================
