------------------------------ MODULE H2Frames ------------------------------
(***************************************************************************)
(* The frame codec of an HTTP/2 connection (src/src/http/h2/codec and      *)
(* src/src/http/h2/frame): FramedWrite encodes frames into a buffer and    *)
(* writes it as far as the transport takes it, a large DATA frame from its *)
(* own buffer and a header block that does not fit in a frame as           *)
(* CONTINUATION frames; FramedRead cuts the bytes into frames, checks each *)
(* and puts header blocks together again.                                  *)
(*                                                                         *)
(* The wire is a sequence of units: a head <<kind, flag, id, length>> or   *)
(* one unit <<x>> of payload.  A header h takes HSize[h] units, 10 * h + i *)
(* being its i-th; header 0 stands for an encoding the decoder refuses.    *)
(* 31-bit fields are modelled with fewer bits (MSB).                       *)
(***************************************************************************)
EXTENDS Integers, Sequences, FiniteSets, SequencesExt, FiniteSetsExt

CONSTANTS
  HKind,                 \* what each header is: a pseudo header's name, "field", "hop" or "te"
  HSize,                 \* units it takes on the wire
  HLen,                  \* length of its name and value
  max_header_list_size,
  max_frame_size,        \* of the writer, in payload units
  max_recv_size,         \* of the reader
  CHAIN_THRESHOLD,
  MSB,                   \* the reserved high bit of a 31-bit field
  MIN_FRAME, MAX_FRAME,  \* what SETTINGS_MAX_FRAME_SIZE may be
  Scripts,               \* sequences of frames this side sends
  Raws                   \* sequences of frames the peer sends as they are

VARIABLES
  todo,    \* frames still to be buffered
  sent,    \* frames buffered so far
  w,       \* FramedWrite: buf, next, last_data_frame
  wire,
  r,       \* FramedRead: partial, what it returned, the error it ended with
  raw      \* the peer's frames, when the peer writes them itself

vars == <<todo, sent, w, wire, r, raw>>

DATA == 0
HEADERS == 1
PRIORITY == 2
RESET == 3
SETTINGS == 4
PUSH_PROMISE == 5
PING == 6
GO_AWAY == 7
WINDOW_UPDATE == 8
CONTINUATION == 9

END_STREAM == 1
ACK == 1
END_HEADERS == 4
PADDED == 8
PRIORITY_FLAG == 32

Has(flag, bit) == (flag \div bit) % 2 = 1

Frame(kind, flag, id, body) == [kind |-> kind, flag |-> flag, id |-> id, body |-> body]

Units(s) == [i \in DOMAIN s |-> <<s[i]>>]

FrameHead(kind, flag, id, n) == <<kind, flag, id, n>>

\* A frame on the wire: its head and its payload.
Encode(f) == <<FrameHead(f.kind, f.flag, f.id, Len(f.body))>> \o Units(f.body)

----------------------------------------------------------------------------
(* Writing. *)

\* The units of one header, and how many whole headers of a block fit in n units.
HeaderUnits(h) == [i \in 1..HSize[h] |-> 10 * h + i]

BlockUnits(hs) == FlattenSeq([i \in DOMAIN hs |-> HeaderUnits(hs[i])])

Fitting(hs, n) == Max({k \in 0..Len(hs) : Len(BlockUnits(SubSeq(hs, 1, k))) <= n})

\* EncodingHeaderBlock::encode: what fits goes behind the head, whose END_HEADERS
\* flag is withdrawn when a continuation follows.  k headers fit after pre.
EncodeBlock(kind, flag, id, pre, hs, k) ==
  [out  |-> Encode(Frame(kind, IF k < Len(hs) THEN flag - END_HEADERS ELSE flag, id,
                         pre \o BlockUnits(SubSeq(hs, 1, k)))),
   next |-> IF k < Len(hs) THEN <<[id |-> id, hs |-> SubSeq(hs, k + 1, Len(hs))]>> ELSE <<>>]

EncodeHeaders(f) ==
  EncodeBlock(HEADERS, f.flag, f.id, <<>>, f.body, Fitting(f.body, max_frame_size))

\* PUSH_PROMISE: the promised id comes before the block.
EncodePushPromise(f) ==
  EncodeBlock(PUSH_PROMISE, f.flag, f.id, <<f.body[1], 0, 0, 0>>, Tail(f.body),
              Fitting(Tail(f.body), max_frame_size - 4))

EncodeContinuation(c) ==
  EncodeBlock(CONTINUATION, END_HEADERS, c.id, <<>>, c.hs, Fitting(c.hs, max_frame_size))

\* The settings present, in the order of their ids: body is one value an id, -1 for none.
EncodeSettings(f) ==
  Encode(Frame(SETTINGS, f.flag, 0,
    FlattenSeq([i \in 1..Len(f.body) |-> IF f.body[i] = -1 THEN <<>> ELSE <<i, f.body[i]>>])))

has_capacity == w.data = <<>> /\ w.cont = <<>>

\* A DATA frame of some size is not copied: its head is buffered and its payload
\* written from where it is.
BufferData(f) ==
  IF Len(f.body) >= CHAIN_THRESHOLD
  THEN w' = [w EXCEPT !.buf = @ \o <<FrameHead(DATA, f.flag, f.id, Len(f.body))>>, !.data = <<f>>,
                      !.left = Units(f.body)]
  ELSE w' = [w EXCEPT !.buf = @ \o Encode(f), !.last = Append(@, f)]

Buffer(f) ==
  CASE f.kind = DATA -> BufferData(f)
    [] f.kind = HEADERS ->
         w' = [w EXCEPT !.buf = @ \o EncodeHeaders(f).out, !.cont = EncodeHeaders(f).next]
    [] f.kind = PUSH_PROMISE ->
         w' = [w EXCEPT !.buf = @ \o EncodePushPromise(f).out, !.cont = EncodePushPromise(f).next]
    [] f.kind = SETTINGS -> w' = [w EXCEPT !.buf = @ \o EncodeSettings(f)]
    [] f.kind \in {GO_AWAY, PING, WINDOW_UPDATE, RESET} -> w' = [w EXCEPT !.buf = @ \o Encode(f)]

\* buffer: the connection has a frame and the writer has room for it.
BufferFrame ==
  /\ todo # <<>>
  /\ has_capacity
  /\ LET f == todo[1]
     IN IF f.kind = DATA /\ Len(f.body) > max_frame_size
        THEN UNCHANGED <<w, sent>>                     \* PayloadTooBig
        ELSE Buffer(f) /\ sent' = Append(sent, f)
  /\ todo' = Tail(todo)
  /\ UNCHANGED <<wire, r, raw>>

\* What remains once the transport has taken n units of the buffer and then of
\* the DATA payload.
Taken(n) ==
  [w EXCEPT !.buf = SubSeq(@, n + 1, Len(@)),
            !.left = IF n > Len(w.buf) THEN SubSeq(@, n - Len(w.buf) + 1, Len(@)) ELSE @]

\* The buffer is empty: a DATA frame is finished, a continuation is encoded next.
Flushed(v) ==
  IF v.buf # <<>> \/ v.left # <<>> THEN v
  ELSE IF v.data # <<>> THEN [v EXCEPT !.data = <<>>, !.last = Append(@, v.data[1])]
  ELSE IF v.cont # <<>>
       THEN [v EXCEPT !.buf = EncodeContinuation(v.cont[1]).out,
                      !.cont = EncodeContinuation(v.cont[1]).next]
       ELSE v

\* flush: the transport takes some of it, whenever it is ready.
Flush ==
  /\ w.buf # <<>> \/ w.left # <<>>
  /\ \E n \in 1..(Len(w.buf) + Len(w.left)) :
       /\ wire' = wire \o SubSeq(w.buf \o w.left, 1, n)
       /\ w' = Flushed(Taken(n))
  /\ UNCHANGED <<todo, sent, r, raw>>

----------------------------------------------------------------------------
(* Reading. *)

\* Whole headers at the start of src; rest is what is left, ok = FALSE when the
\* decoder refuses it.
RECURSIVE ParseBlock(_, _)
ParseBlock(src, hs) ==
  IF src = <<>> THEN [hs |-> hs, rest |-> src, ok |-> TRUE]
  ELSE LET h == src[1] \div 10
       IN IF h \notin DOMAIN HSize THEN [hs |-> hs, rest |-> src, ok |-> FALSE]
          ELSE IF Len(src) < HSize[h] THEN [hs |-> hs, rest |-> src, ok |-> TRUE]
          ELSE ParseBlock(SubSeq(src, HSize[h] + 1, Len(src)), Append(hs, h))

PSEUDO == {"method", "scheme", "authority", "path", "status"}

decoded_header_size(h) == HLen[h] + 32

calculate_header_list_size(hs) == FoldLeft(LAMBDA n, h : n + decoded_header_size(h), 0, hs)

\* One header of a block: refused when it is out of place, counted, and kept while
\* the block is not too large.
LoadHeader(b, h) ==
  LET regular == HKind[h] \notin PSEUDO
      refused == \/ HKind[h] \in {"hop", "te"}
                 \/ ~regular /\ (b.reg \/ \E i \in DOMAIN b.hs : HKind[b.hs[i]] = HKind[h])
      size    == b.size + decoded_header_size(h)
      fits    == size < max_header_list_size
  IN IF refused THEN [b EXCEPT !.malformed = TRUE]
     ELSE [b EXCEPT !.reg = @ \/ regular, !.size = size, !.hs = IF fits THEN Append(@, h) ELSE @,
                    !.over = @ \/ ~fits]

\* HeaderBlock::load: everything whole is decoded.  What was malformed is known
\* only when nothing was cut off.
Loaded(b, p) ==
  [hs |-> b.hs, over |-> b.over, rest |-> p.rest,
   err |-> IF ~p.ok THEN "hpack" ELSE IF p.rest # <<>> THEN "NeedMore"
           ELSE IF b.malformed THEN "malformed" ELSE ""]

LoadBlock(hs, over, p) ==
  Loaded(FoldLeft(LoadHeader,
           [hs |-> hs, over |-> over, malformed |-> FALSE, size |-> calculate_header_list_size(hs),
            reg |-> \E i \in DOMAIN hs : HKind[hs[i]] \notin PSEUDO], p.hs), p)

ConnErr(why) == [err |-> "connection", why |-> why, id |-> 0]
StreamErr(id) == [err |-> "stream", why |-> "PROTOCOL_ERROR", id |-> id]
NoErr == [err |-> "", why |-> "", id |-> 0]

Return(v, f) == [v EXCEPT !.out = Append(@, f)]
Fail(v, e) == [v EXCEPT !.err = e, !.partial = <<>>]
Refuse(v) == Fail(v, ConnErr("PROTOCOL_ERROR"))

\* A stream error ends the frame, not the connection.
StreamFail(v, id) == [v EXCEPT !.out = Append(@, Frame(CONTINUATION + 1, 0, id, <<>>)),
                               !.partial = <<>>]

\* The end of a header frame or of a continuation, b being the block so far.
BlockDone(v, kind, flag, id, pre, b, end) ==
  IF b.err = "malformed" THEN StreamFail(v, id)
  ELSE IF b.err = "hpack" \/ (b.err = "NeedMore" /\ end) THEN Refuse(v)
  ELSE IF end THEN [Return(v, Frame(kind, IF Has(flag, END_HEADERS) THEN flag ELSE flag + END_HEADERS,
                                    id, pre \o b.hs)) EXCEPT !.over = @ \/ b.over, !.partial = <<>>]
  ELSE [v EXCEPT !.partial = <<[kind |-> kind, flag |-> flag, id |-> id, pre |-> pre, hs |-> b.hs,
                                over |-> b.over, buf |-> b.rest]>>]

\* strip padding: <<-1>> when there is too much of it.
TooMuch == <<-1>>

strip_padding(flag, payload) ==
  IF ~Has(flag, PADDED) THEN payload
  ELSE IF payload = <<>> \/ payload[1] >= Len(payload) THEN TooMuch
  ELSE SubSeq(payload, 2, Len(payload) - payload[1])

\* HEADERS: padding and a priority (dependency, 3 more units, weight) are taken off.
HeadersBody(flag, id, payload) ==
  LET p == strip_padding(flag, payload)
  IN IF p = TooMuch THEN [err |-> "connection", body |-> <<>>]
     ELSE IF ~Has(flag, PRIORITY_FLAG) THEN [err |-> "", body |-> p]
     ELSE IF Len(p) < 5 THEN [err |-> "connection", body |-> <<>>]
     ELSE IF p[1] % MSB = id THEN [err |-> "stream", body |-> <<>>]
     ELSE [err |-> "", body |-> SubSeq(p, 6, Len(p))]

LoadHeaders(v, flag, id, b) ==
  IF b.err = "connection" THEN Refuse(v)
  ELSE IF b.err = "stream" THEN StreamFail(v, id)
  ELSE BlockDone(v, HEADERS, flag, id, <<>>, LoadBlock(<<>>, FALSE, ParseBlock(b.body, <<>>)),
                 Has(flag, END_HEADERS))

LoadPushPromise(v, flag, id, p) ==
  IF p = TooMuch \/ Len(p) < 5 THEN Refuse(v)
  ELSE BlockDone(v, PUSH_PROMISE, flag, id, <<p[1] % MSB>>,
                 LoadBlock(<<>>, FALSE, ParseBlock(SubSeq(p, 5, Len(p)), <<>>)),
                 Has(flag, END_HEADERS))

\* CONTINUATION: what the last frame cut off, and the new fragment.
LoadContinuation(v, flag, id, payload) ==
  IF v.partial = <<>> \/ v.partial[1].id # id THEN Refuse(v)
  ELSE LET p == v.partial[1]
       IN IF p.buf # <<>> /\ p.over /\ Len(p.buf) + Len(payload) > max_header_list_size
          THEN Fail(v, ConnErr("COMPRESSION_ERROR"))
          ELSE BlockDone(v, p.kind, p.flag, id, p.pre,
                         LoadBlock(p.hs, p.over, ParseBlock(p.buf \o payload, <<>>)),
                         Has(flag, END_HEADERS))

LoadData(v, flag, id, payload) ==
  LET p == strip_padding(flag, payload)
  IN IF id = 0 \/ p = TooMuch THEN Refuse(v)
     ELSE Return(v, Frame(DATA, flag % 2, id, p))

\* A setting the endpoint may have.  The window is bounded by MSB.
SettingOk(i, val) ==
  /\ i = 2 => val \in {0, 1}
  /\ i = 4 => val < MSB
  /\ i = 5 => val \in MIN_FRAME..MAX_FRAME

\* The last of several values of a setting counts; unknown settings are ignored.
LoadSettings(v, flag, id, payload) ==
  LET pairs == {k \in DOMAIN payload : k % 2 = 1}
      Val(i) == LET at == {k \in pairs : payload[k] = i}
                IN IF at = {} THEN -1 ELSE payload[Max(at) + 1]
  IN IF id # 0 \/ (Has(flag, ACK) /\ payload # <<>>) \/ Len(payload) % 2 # 0 THEN Refuse(v)
     ELSE IF Has(flag, ACK) THEN Return(v, Frame(SETTINGS, ACK, 0, [i \in 1..6 |-> -1]))
     ELSE IF \E k \in pairs : ~SettingOk(payload[k], payload[k + 1]) THEN Refuse(v)
     ELSE Return(v, Frame(SETTINGS, 0, 0, [i \in 1..6 |-> Val(i)]))

LoadPing(v, flag, id, payload) ==
  IF id # 0 \/ Len(payload) # 8 THEN Refuse(v)
  ELSE Return(v, Frame(PING, flag % 2, 0, payload))

LoadWindowUpdate(v, flag, id, payload) ==
  IF Len(payload) # 1 \/ payload[1] % MSB = 0 THEN Refuse(v)
  ELSE Return(v, Frame(WINDOW_UPDATE, 0, id, <<payload[1] % MSB>>))

LoadReset(v, flag, id, payload) ==
  IF Len(payload) # 1 THEN Refuse(v) ELSE Return(v, Frame(RESET, 0, id, payload))

LoadGoAway(v, flag, id, payload) ==
  IF Len(payload) < 2 THEN Refuse(v)
  ELSE Return(v, Frame(GO_AWAY, 0, 0, <<payload[1] % MSB, payload[2]>>))

LoadPriority(v, flag, id, payload) ==
  IF id = 0 \/ Len(payload) # 5 THEN Refuse(v)
  ELSE IF payload[1] % MSB = id THEN StreamFail(v, id)
  ELSE Return(v, Frame(PRIORITY, 0, id, payload))

\* decode_frame: between the parts of a header block nothing else may come.
decode_frame(v, kind, flag, id, payload) ==
  IF v.partial # <<>> /\ kind # CONTINUATION THEN Refuse(v)
  ELSE CASE kind = SETTINGS      -> LoadSettings(v, flag, id, payload)
         [] kind = PING          -> LoadPing(v, flag, id, payload)
         [] kind = WINDOW_UPDATE -> LoadWindowUpdate(v, flag, id, payload)
         [] kind = DATA          -> LoadData(v, flag, id, payload)
         [] kind = HEADERS       -> LoadHeaders(v, flag, id, HeadersBody(flag, id, payload))
         [] kind = RESET         -> LoadReset(v, flag, id, payload)
         [] kind = GO_AWAY       -> LoadGoAway(v, flag, id, payload)
         [] kind = PUSH_PROMISE  -> LoadPushPromise(v, flag, id, strip_padding(flag, payload))
         [] kind = PRIORITY      -> LoadPriority(v, flag, id, payload)
         [] kind = CONTINUATION  -> LoadContinuation(v, flag, id, payload)
         [] OTHER                -> v

\* The length delimited reader hands on a frame that is all there and not too large.
DecodeNext(v, head, body) ==
  IF head[4] > max_recv_size THEN Fail(v, ConnErr("FRAME_SIZE_ERROR"))
  ELSE decode_frame(v, head[1], head[2], head[3] % MSB, [i \in DOMAIN body |-> body[i][1]])

ReadFrame ==
  /\ wire # <<>>
  /\ r.err = NoErr
  /\ wire[1][4] <= Len(wire) - 1 \/ wire[1][4] > max_recv_size
  /\ r' = DecodeNext(r, wire[1], SubSeq(wire, 2, Min({1 + wire[1][4], Len(wire)})))
  /\ wire' = SubSeq(wire, Min({1 + wire[1][4], Len(wire)}) + 1, Len(wire))
  /\ UNCHANGED <<todo, sent, w, raw>>

NewReader == [partial |-> <<>>, out |-> <<>>, over |-> FALSE, err |-> NoErr]

Init ==
  /\ w = [buf |-> <<>>, data |-> <<>>, left |-> <<>>, cont |-> <<>>, last |-> <<>>]
  /\ r = NewReader
  /\ sent = <<>>
  /\ \/ todo \in Scripts /\ raw = <<>> /\ wire = <<>>
     \/ /\ raw \in Raws
        /\ todo = <<>>
        /\ wire = FlattenSeq([i \in DOMAIN raw |-> Encode(raw[i])])

Next == BufferFrame \/ Flush \/ ReadFrame

Spec == Init /\ [][Next]_vars

----------------------------------------------------------------------------
(* What the codec promises. *)

\* Frames arrive as they were buffered, in that order, all of them once
\* everything is written, however the transport cut them; and each DATA frame is
\* given back to the stream it came from once it is written.
FramesArrive ==
  raw = <<>> =>
    /\ r.err = NoErr
    /\ IsPrefix(r.out, sent)
    /\ wire = <<>> /\ w.buf = <<>> /\ w.left = <<>> => r.out = sent
    /\ w.last \o w.data = SelectSeq(sent, LAMBDA f : f.kind = DATA)

\* A header block with all its continuations as a single frame.
RECURSIVE Joined(_)
Joined(fs) ==
  IF Len(fs) < 2 THEN fs
  ELSE IF /\ fs[1].kind \in {HEADERS, PUSH_PROMISE}
          /\ ~Has(fs[1].flag, END_HEADERS)
          /\ ~Has(fs[1].flag, PADDED)
          /\ fs[2].kind = CONTINUATION
          /\ fs[2].id = fs[1].id
       THEN Joined(<<[fs[1] EXCEPT !.body = @ \o fs[2].body,
                                   !.flag = IF Has(fs[2].flag, END_HEADERS) THEN @ + END_HEADERS ELSE @]>>
                   \o SubSeq(fs, 3, Len(fs)))
       ELSE <<fs[1]>> \o Joined(Tail(fs))

ReadAll(fs) ==
  FoldLeft(LAMBDA v, f : IF v.err # NoErr THEN v
                         ELSE decode_frame(v, f.kind, f.flag, f.id % MSB, f.body), NewReader, fs)

\* How the peer cuts a header block into frames makes no difference to what is
\* read, as long as the frames and the block are within the sizes this endpoint
\* allows.
CutsDoNotMatter ==
  raw # <<>> /\ wire = <<>> /\ ~r.over /\ r.err.why \notin {"FRAME_SIZE_ERROR", "COMPRESSION_ERROR"} =>
    LET whole == ReadAll(Joined(raw)) IN r.out = whole.out /\ r.err = whole.err

H2FramesSound == FramesArrive /\ CutsDoNotMatter
=============================================================================
