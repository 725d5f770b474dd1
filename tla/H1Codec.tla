------------------------------ MODULE H1Codec ------------------------------
(***************************************************************************)
(* The HTTP/1 codecs at the two ends of a connection: the client's         *)
(* ClientCodec / ClientPayloadCodec and the server's Codec, each with its  *)
(* MessageEncoder, its head decoder and its PayloadDecoder, and a stream   *)
(* of bytes between them that arrives in any fragments.  A byte is a       *)
(* number; a message head is the two bytes HEADPART, HEAD, whose header    *)
(* fields are in `head`.                                                   *)
(***************************************************************************)
EXTENDS Integers, Sequences, SequencesExt

CONSTANTS
  Scripts,           \* sequences of exchanges [req, res]: what the client and the service send
  KeepAlive,         \* the sides whose configuration enables keep-alive
  RADIX,             \* the base of a chunk size: 16
  SIZE_MOD,          \* chunk sizes are u64: 2^64
  MAX_BUFFER_SIZE    \* the unread bytes above which a message without body is refused

VARIABLES
  script, turn,      \* the exchanges, and the one at work
  sender, item,      \* who is sending, and the next call: 0 the head, k a chunk, then the end
  wire, src,         \* the bytes on their way, and the receiver's read buffer
  idle,              \* the last decode returned None and nothing has arrived since
  head,              \* the head on its way
  codec,             \* per side: version, ctype, HEAD and STREAM flags, te, payload
  got,               \* the message received so far: head seen, body, end seen
  closed, failed     \* the sender closed the connection; the error of a codec

vars == <<script, turn, sender, item, wire, src, idle, head, codec, got, closed, failed>>

CR == 90
LF == 91
SEMI == 92
SP == 93
HEADPART == 98
HEAD == 99

Other(side) == IF side = "client" THEN "server" ELSE "client"
NoPayload == [kind |-> "None", state |-> "", size |-> 0]
Nothing == [head |-> FALSE, body |-> <<>>, eof |-> FALSE]

(* Encoding: MessageEncoder and TransferEncoding. *)

Hex[n \in Nat] == IF n < RADIX THEN <<n>> ELSE Append(Hex[n \div RADIX], n % RADIX)

\* TransferEncoding::encode and encode_eof: the encoder after it, and the bytes written.
te_encode(te, msg) ==
  CASE te.kind = "Eof" -> [te |-> te, out |-> msg]
    [] te.kind = "Chunked" /\ te.n = 1 -> [te |-> te, out |-> <<>>]
    [] te.kind = "Chunked" /\ te.n = 0 ->
         IF msg = <<>> THEN [te |-> [te EXCEPT !.n = 1], out |-> <<0, CR, LF, CR, LF>>]
         ELSE [te |-> te, out |-> Hex[Len(msg)] \o <<CR, LF>> \o msg \o <<CR, LF>>]
    [] te.kind = "Length" ->
         LET n == IF te.n < Len(msg) THEN te.n ELSE Len(msg)
         IN [te |-> [te EXCEPT !.n = @ - n], out |-> SubSeq(msg, 1, n)]

te_encode_eof(te) ==
  IF te.kind = "Chunked" /\ te.n = 0
  THEN [te |-> [te EXCEPT !.n = 1], out |-> <<0, CR, LF, CR, LF>>]
  ELSE [te |-> te, out |-> <<>>]

\* MessageEncoder::encode: how the body will be written.
te_for(is_head, stream, m) ==
  CASE is_head \/ m.length.kind \in {"Empty", "None"} -> [kind |-> "Length", n |-> 0]
    [] ~is_head /\ m.length.kind = "Sized" -> [kind |-> "Length", n |-> m.length.n]
    [] ~is_head /\ m.length.kind = "Stream" ->
         IF m.chunked /\ ~stream THEN [kind |-> "Chunked", n |-> 0] ELSE [kind |-> "Eof", n |-> 0]

\* MessageType::encode_headers: the framing headers it writes, then the connection header,
\* then the user's own headers but those it replaces.
encode_headers(m, version, ctype) ==
  LET length == CASE m.status \in {100, 102, 204} -> [kind |-> "None", n |-> 0]
                  [] m.status = 101 -> [kind |-> "Stream", n |-> 0]
                  [] OTHER -> m.length
      skip_len == /\ m.length.kind # "Stream" \/ m.status = 101
                  /\ ~(length.kind = "Stream" /\ ~m.chunked)
      framing == CASE length.kind = "Stream" /\ m.chunked -> <<<<"transfer-encoding", "chunked">>>>
                   [] length.kind = "Empty" -> <<<<"content-length", 0>>>>
                   [] length.kind = "Sized" -> <<<<"content-length", length.n>>>>
                   [] OTHER -> <<>>
      connection == CASE ctype = "Upgrade" -> <<<<"connection", "Upgrade">>>>
                      [] ctype = "KeepAlive" /\ version = 10 -> <<<<"connection", "KeepAlive">>>>
                      [] ctype = "Close" /\ version = 11 -> <<<<"connection", "Close">>>>
                      [] OTHER -> <<>>
      Kept(h) == /\ h[1] # "connection"
                 /\ ~(skip_len /\ h[1] \in {"transfer-encoding", "content-length"})
  IN framing \o connection \o SelectSeq(m.headers, Kept)

(* Decoding: the head, then the body. *)

\* MessageType::set_headers: what one header field does to the framing of the message.
read_header(f, h) ==
  CASE h[1] = "content-length" -> IF h[2] # 0 THEN [f EXCEPT !.length = h[2]] ELSE f
    [] h[1] = "transfer-encoding" -> [f EXCEPT !.chunked = h[2] = "chunked"]
    [] h[1] = "connection" -> [f EXCEPT !.ka = h[2]]
    [] h[1] = "upgrade" -> [f EXCEPT !.upgrade = TRUE, !.length = IF h[2] = "websocket" THEN 0 ELSE @]
    [] OTHER -> f
set_headers(headers) ==
  FoldLeft(read_header, [length |-> 0, chunked |-> FALSE, ka |-> "None", upgrade |-> FALSE], headers)

PayloadOf(f) ==
  CASE f.chunked -> [kind |-> "Chunked", state |-> "Size", size |-> 0]
    [] ~f.chunked /\ f.length # 0 -> [kind |-> "Length", state |-> "", size |-> f.length]
    [] OTHER -> NoPayload
Eof == [kind |-> "Eof", state |-> "", size |-> 0]

\* Request::decode and ResponseHead::decode: [payload, stream, close] of a complete head
\* followed by `rest` bytes, or an error.
decode_request(h, rest) ==
  LET f == set_headers(h.headers) IN
  CASE PayloadOf(f) # NoPayload -> [ok |-> TRUE, payload |-> PayloadOf(f), stream |-> FALSE, ka |-> f.ka]
    [] PayloadOf(f) = NoPayload /\ (f.upgrade \/ h.method = "CONNECT") ->
         [ok |-> TRUE, payload |-> Eof, stream |-> TRUE, ka |-> f.ka]
    [] OTHER -> [ok |-> rest < MAX_BUFFER_SIZE, payload |-> NoPayload, stream |-> FALSE, ka |-> f.ka]

decode_response(h, rest) ==
  LET f == set_headers(h.headers) IN
  CASE PayloadOf(f) # NoPayload -> [ok |-> TRUE, payload |-> PayloadOf(f), stream |-> FALSE, ka |-> f.ka]
    [] PayloadOf(f) = NoPayload /\ h.status = 101 -> [ok |-> TRUE, payload |-> Eof, stream |-> TRUE, ka |-> f.ka]
    [] OTHER -> [ok |-> rest < MAX_BUFFER_SIZE, stream |-> FALSE,
                 payload |-> IF h.version = 10 THEN Eof ELSE NoPayload,
                 ka |-> IF h.version = 10 THEN "Close" ELSE f.ka]

\* ChunkedState::step: one byte of the framing, or a piece of the chunk.
step(p, s) ==
  LET b == s[1]
      To(state) == [ok |-> TRUE, p |-> [p EXCEPT !.state = state], src |-> Tail(s), buf |-> <<>>]
      Err == [ok |-> FALSE, p |-> p, src |-> Tail(s), buf |-> <<>>]
      n == IF p.size > Len(s) THEN Len(s) ELSE p.size
  IN CASE p.state = "Size" /\ b < RADIX ->
            [ok |-> TRUE, p |-> [p EXCEPT !.size = (@ * RADIX + b) % SIZE_MOD], src |-> Tail(s), buf |-> <<>>]
       [] p.state \in {"Size", "SizeLws"} /\ b = SP -> To("SizeLws")
       [] p.state \in {"Size", "SizeLws"} /\ b = SEMI -> To("Extension")
       [] p.state \in {"Size", "SizeLws", "Extension"} /\ b = CR -> To("SizeLf")
       [] p.state = "Extension" /\ b # CR -> To("Extension")
       [] p.state = "SizeLf" /\ b = LF -> IF p.size > 0 THEN To("Body") ELSE To("EndCr")
       [] p.state = "Body" ->
            [ok |-> TRUE, p |-> [p EXCEPT !.size = @ - n, !.state = IF p.size > n THEN "Body" ELSE "BodyCr"],
             src |-> SubSeq(s, n + 1, Len(s)), buf |-> SubSeq(s, 1, n)]
       [] p.state = "BodyCr" /\ b = CR -> To("BodyLf")
       [] p.state = "BodyLf" /\ b = LF -> To("Size")
       [] p.state = "EndCr" /\ b = CR -> To("EndLf")
       [] p.state = "EndLf" /\ b = LF -> To("End")
       [] OTHER -> Err

\* PayloadDecoder::decode: [r: "None" | "Chunk" | "Eof" | "Err", p, src, buf].
RECURSIVE decode_chunked(_, _)
decode_chunked(p, s) ==
  IF s = <<>> THEN [r |-> "None", p |-> p, src |-> s, buf |-> <<>>]
  ELSE LET x == step(p, s) IN
       CASE ~x.ok -> [r |-> "Err", p |-> p, src |-> x.src, buf |-> <<>>]
         [] x.ok /\ x.p.state = "End" -> [r |-> "Eof", p |-> x.p, src |-> x.src, buf |-> <<>>]
         [] x.ok /\ x.p.state # "End" ->
              IF x.buf # <<>> THEN [r |-> "Chunk", p |-> x.p, src |-> x.src, buf |-> x.buf]
              ELSE decode_chunked(x.p, x.src)

decode_payload(p, s) ==
  CASE p.kind = "Chunked" -> decode_chunked(p, s)
    [] p.kind = "Length" /\ p.size = 0 -> [r |-> "Eof", p |-> p, src |-> s, buf |-> <<>>]
    [] p.kind # "Chunked" /\ ~(p.kind = "Length" /\ p.size = 0) /\ s = <<>> ->
         [r |-> "None", p |-> p, src |-> s, buf |-> <<>>]
    [] p.kind = "Length" /\ p.size > 0 /\ s # <<>> ->
         LET n == IF p.size > Len(s) THEN Len(s) ELSE p.size
         IN [r |-> "Chunk", p |-> [p EXCEPT !.size = @ - n], src |-> SubSeq(s, n + 1, Len(s)), buf |-> SubSeq(s, 1, n)]
    [] p.kind = "Eof" /\ s # <<>> -> [r |-> "Chunk", p |-> p, src |-> <<>>, buf |-> s]

-----------------------------------------------------------------------------
(* The two ends. *)

Msg == IF sender = "client" THEN script[turn].req ELSE script[turn].res

CodecNew == [version |-> 11, ctype |-> "Close", HEAD |-> FALSE, STREAM |-> FALSE,
             te |-> [kind |-> "Length", n |-> 0], payload |-> NoPayload]

Init ==
  /\ script \in Scripts
  /\ turn = 1 /\ sender = "client" /\ item = 0
  /\ wire = <<>> /\ src = <<>> /\ idle = TRUE
  /\ head = [method |-> "GET", status |-> 0, version |-> 11, headers |-> <<>>]
  /\ codec = [s \in {"client", "server"} |-> CodecNew]
  /\ got = Nothing
  /\ closed = FALSE /\ failed = "no"

\* RequestHead::connection_type of a head of version v with the connection header ka.
connection_type(ka, v) == IF ka # "None" THEN ka ELSE IF v = 10 THEN "Close" ELSE "KeepAlive"
IfEnabled(side, ctype) == IF ctype = "KeepAlive" /\ side \notin KeepAlive THEN "Close" ELSE ctype

\* ClientCodec::encode of Message::Item.
client_encode_item ==
  /\ sender = "client" /\ item = 0 /\ failed = "no"
  /\ LET m == Msg
         ctype == IfEnabled("client", connection_type(m.ctype, m.version))
     IN /\ codec' = [codec EXCEPT !["client"].version = m.version, !["client"].HEAD = m.method = "HEAD",
                                  !["client"].ctype = ctype, !["client"].te = te_for(FALSE, FALSE, m)]
        /\ head' = [method |-> m.method, status |-> 0, version |-> m.version,
                    headers |-> encode_headers(m, m.version, ctype)]
  /\ wire' = wire \o <<HEADPART, HEAD>>
  /\ item' = 1
  /\ UNCHANGED <<script, turn, sender, src, idle, got, closed, failed>>

\* Codec::encode of Message::Item: once the request has been received.
server_encode_item ==
  /\ sender = "server" /\ item = 0 /\ failed = "no"
  /\ LET m == Msg
         c == codec["server"]
         ctype == IF m.ctype \in {"None", "KeepAlive"} THEN c.ctype ELSE m.ctype
     IN /\ codec' = [codec EXCEPT !["server"].ctype = ctype, !["server"].te = te_for(c.HEAD, c.STREAM, m)]
        /\ head' = [method |-> "", status |-> m.status, version |-> c.version,
                    headers |-> encode_headers(m, c.version, ctype)]
  /\ wire' = wire \o <<HEADPART, HEAD>>
  /\ item' = 1
  /\ UNCHANGED <<script, turn, sender, src, idle, got, closed, failed>>

\* encode of Message::Chunk(Some(bytes)).
encode_chunk ==
  /\ item \in 1..Len(Msg.chunks) /\ failed = "no"
  /\ LET x == te_encode(codec[sender].te, Msg.chunks[item])
     IN /\ wire' = wire \o x.out
        /\ codec' = [codec EXCEPT ![sender].te = x.te]
  /\ item' = item + 1
  /\ UNCHANGED <<script, turn, sender, src, idle, head, got, closed, failed>>

\* encode of Message::Chunk(None): a sized body cut short is an error, and the connection
\* is dropped.  The server closes a connection it does not keep alive.
encode_eof ==
  /\ item = Len(Msg.chunks) + 1 /\ failed = "no"
  /\ LET te == codec[sender].te
         x == te_encode_eof(te)
         short == te.kind = "Length" /\ te.n # 0
     IN /\ wire' = wire \o x.out
        /\ codec' = [codec EXCEPT ![sender].te = x.te]
        /\ closed' = (short \/ (sender = "server" /\ codec["server"].ctype # "KeepAlive"))
        /\ failed' = IF short THEN "UnexpectedEof" ELSE "no"
  /\ item' = item + 1
  /\ UNCHANGED <<script, turn, sender, src, idle, head, got>>

\* The transport delivers any number of the bytes on their way.
arrive ==
  /\ idle /\ ~got.eof
  /\ \E n \in 1..Len(wire) :
       /\ src' = src \o SubSeq(wire, 1, n)
       /\ wire' = SubSeq(wire, n + 1, Len(wire))
  /\ idle' = FALSE
  /\ UNCHANGED <<script, turn, sender, item, head, codec, got, closed, failed>>

\* The head decoders, and what Codec::decode and ClientCodec::decode keep of the head.
decode_head ==
  /\ ~idle /\ ~got.head /\ failed # "Parse"
  /\ LET to == Other(sender)
         c == codec[to]
         rest == SubSeq(src, 3, Len(src))
         x == IF to = "server" THEN decode_request(head, Len(rest)) ELSE decode_response(head, Len(rest))
         server == [c EXCEPT !.HEAD = head.method = "HEAD", !.version = head.version,
                             !.ctype = IfEnabled("server", connection_type(x.ka, head.version)),
                             !.payload = x.payload, !.STREAM = @ \/ x.stream]
         client == [c EXCEPT !.ctype = IF x.ka \in {"None", "KeepAlive"} THEN @ ELSE x.ka,
                             !.payload = IF c.HEAD THEN NoPayload ELSE x.payload,
                             !.STREAM = @ \/ (x.stream /\ ~c.HEAD)]
         after == IF to = "server" THEN server ELSE client
     IN \/ /\ IsStrictPrefix(src, <<HEADPART, HEAD>>)
           /\ idle' = TRUE
           /\ UNCHANGED <<src, codec, got, failed>>
        \/ /\ IsPrefix(<<HEADPART, HEAD>>, src) /\ x.ok
           /\ src' = rest
           /\ codec' = [codec EXCEPT ![to] = after]
           /\ got' = [got EXCEPT !.head = TRUE, !.eof = after.payload = NoPayload]
           /\ UNCHANGED <<idle, failed>>
        \/ /\ ~IsStrictPrefix(src, <<HEADPART, HEAD>>) /\ ~(IsPrefix(<<HEADPART, HEAD>>, src) /\ x.ok)
           /\ failed' = "Parse"
           /\ UNCHANGED <<src, codec, got, idle>>
  /\ UNCHANGED <<script, turn, sender, item, wire, head, closed>>

\* Codec::decode with a payload decoder, ClientPayloadCodec::decode.
decode_body ==
  /\ ~idle /\ got.head /\ ~got.eof /\ failed # "Parse"
  /\ LET to == Other(sender)
         x == decode_payload(codec[to].payload, src)
     IN /\ src' = x.src
        /\ idle' = (x.r = "None")
        /\ codec' = [codec EXCEPT ![to].payload = IF x.r = "Eof" THEN NoPayload ELSE x.p]
        /\ got' = [got EXCEPT !.body = @ \o x.buf, !.eof = x.r = "Eof"]
        /\ failed' = IF x.r = "Err" THEN "Parse" ELSE failed
  /\ UNCHANGED <<script, turn, sender, item, wire, head, closed>>

\* The transport's end of stream ends a body that has no length (PlStream::poll_next).
end_of_stream ==
  /\ closed /\ failed = "no" /\ wire = <<>> /\ src = <<>> /\ idle /\ got.head /\ ~got.eof
  /\ codec[Other(sender)].payload.kind = "Eof"
  /\ got' = [got EXCEPT !.eof = TRUE]
  /\ UNCHANGED <<script, turn, sender, item, wire, src, idle, head, codec, closed, failed>>

\* The service answers a request it has received, one that upgrades the connection as soon
\* as its head is there; the client sends its next request on a connection its codec keeps
\* alive.
Sent == item = Len(Msg.chunks) + 2
turn_around ==
  /\ Sent /\ failed = "no" /\ wire = <<>> /\ src = <<>>
  /\ got.eof \/ (sender = "client" /\ codec["server"].STREAM /\ idle)
  /\ sender = "server" => turn < Len(script) /\ codec["client"].ctype = "KeepAlive"
  /\ sender' = Other(sender)
  /\ turn' = IF sender = "server" THEN turn + 1 ELSE turn
  /\ item' = 0 /\ got' = Nothing /\ idle' = TRUE
  /\ UNCHANGED <<script, wire, src, head, codec, closed, failed>>

Over == \/ failed = "Parse" \/ (got.eof /\ Msg.plain = <<HEAD>>)
        \/ failed = "UnexpectedEof" /\ wire = <<>> /\ idle
        \/ got.eof /\ Sent /\ sender = "server" /\ (turn = Len(script) \/ codec["client"].ctype # "KeepAlive")
Stutter == Over /\ UNCHANGED vars

Next == client_encode_item \/ server_encode_item \/ encode_chunk \/ encode_eof \/ arrive
        \/ decode_head \/ decode_body \/ end_of_stream \/ turn_around \/ Stutter
Spec == Init /\ [][Next]_vars

-----------------------------------------------------------------------------
\* The body a message has for its receiver: nothing for the answer to a HEAD, at most the
\* announced length of a sized one, the concatenation of its chunks otherwise.  A peer that
\* chunks by itself (its bytes go out as they are, under its own transfer-encoding) says in
\* `plain` what it means, or <<HEAD>> when its chunks are malformed.
BodyOf(m) ==
  LET all == FlattenSeq(m.chunks) IN
  CASE sender = "server" /\ codec["server"].HEAD -> <<>>
    [] m.plain # <<>> -> m.plain
    [] m.length.kind \in {"None", "Empty"} -> <<>>
    [] m.length.kind = "Sized" -> SubSeq(all, 1, IF m.length.n < Len(all) THEN m.length.n ELSE Len(all))
    [] OTHER -> all

\* Whatever the fragments the bytes arrive in, the receiver has read a prefix of the sender's
\* body, and at the end all of it.
BodyIntact ==
  Msg.plain # <<HEAD>> => /\ IsPrefix(got.body, BodyOf(Msg))
                          /\ got.eof => got.body = BodyOf(Msg)
\* What one end encodes the other decodes; a sized body that is cut short never looks complete.
NothingGarbled == (failed = "Parse" => Msg.plain = <<HEAD>>) /\ (failed = "UnexpectedEof" => ~got.eof)
\* A client whose codec keeps the connection for another request has read every byte of the
\* answer, and the server keeps it too.
ReusableIsClean ==
  got.eof /\ Sent /\ sender = "server" /\ codec["client"].ctype = "KeepAlive"
    => src = <<>> /\ wire = <<>> /\ codec["server"].ctype = "KeepAlive" /\ ~closed
CodecSound == BodyIntact /\ NothingGarbled /\ ReusableIsClean
=============================================================================
