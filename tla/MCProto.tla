------------------------------- MODULE MCProto -------------------------------
(***************************************************************************)
(* The protocols, one component per behaviour.                             *)
(***************************************************************************)
EXTENDS Integers, Sequences

\* HTTP/2 streams: a side, the stream ids, the calls and frames that may happen, the sizes
\* of data, the connection window, the peer's limit on streams, and the windows of SETTINGS.
Conf(server, is, os, sizes, conn, ms, ws, n) ==
  [server |-> server, ids |-> is, ops |-> os, sizes |-> sizes, conn |-> conn, swin |-> 2, rwin |-> 2,
   max_send |-> ms, max_recv |-> 1, windows |-> ws, max_ops |-> n]
StreamConfigs == {
  Conf(TRUE, {1, 3}, {"headers", "accept", "rdata", "release", "drop", "response", "rreset", "reset"},
       {1, 2}, 3, 2, {}, 4),
  Conf(FALSE, {1, 3}, {"request", "data", "settings", "max", "update", "trailers"}, {2}, 2, 1, {1, 3}, 4),
  Conf(FALSE, {1, 3}, {"request", "data", "end", "goaway", "eof", "drop", "settings", "rreset"},
       {2}, 2, 1, {1}, 4),
  Conf(FALSE, {1}, {"request", "rdata", "headers", "release", "drop", "target", "ack"}, {1, 2}, 3, 1, {1, 4}, 4),
  Conf(TRUE, {1, 3}, {"headers", "accept", "response", "data", "drop", "update", "reset"}, {2}, 2, 2, {}, 5),
  Conf(FALSE, {1, 3}, {"request", "reserve", "data", "update", "clone"}, {2}, 2, 2, {}, 4),
  Conf(FALSE, {1, 3}, {"request", "data", "update", "reset", "drop", "rreset"}, {2}, 2, 2, {}, 4),
  Conf(FALSE, {1}, {"request", "data", "reserve", "unreserve", "update", "clone"}, {1, 2}, 2, 2, {}, 5)}

\* HTTP/1: what the client sends, what the service answers, and whether there are a
\* keep-alive and a disconnect timer.
Req(n, body, head, ctype, expect) ==
  [t |-> "req", n |-> n, body |-> body, head |-> head, ctype |-> ctype, expect |-> expect]
Unit(t, n) == [t |-> t, n |-> n, body |-> "none", head |-> FALSE, ctype |-> "none", expect |-> FALSE]
Get(n) == Req(n, "none", FALSE, "KeepAlive", FALSE)
Post(n) == Req(n, "payload", FALSE, "KeepAlive", FALSE)
H1(units, results, k, x) == [units |-> units, results |-> results, ka |-> k, disc |-> x]
H1Configs == {
  H1(<<Get(1), Get(2), Get(3)>>, {"body"}, FALSE, FALSE),
  H1(<<Get(1)>>, {"body", "err"}, FALSE, TRUE),
  H1(<<Post(1), Unit("chunk", 1), Unit("chunk", 1), Unit("eof", 1), Get(2)>>, {"empty"}, FALSE, FALSE),
  H1(<<Req(1, "payload", FALSE, "KeepAlive", TRUE), Unit("chunk", 1), Unit("eof", 1)>>, {"body"}, TRUE, FALSE),
  H1(<<Post(1), Unit("badchunk", 1)>>, {"empty"}, TRUE, TRUE),
  H1(<<Post(1), Unit("chunk", 1), Unit("bad", 0)>>, {"close"}, TRUE, TRUE),
  H1(<<Get(1), Unit("bad", 0)>>, {"close", "body"}, FALSE, TRUE),
  H1(<<Req(1, "none", TRUE, "Close", FALSE)>>, {"body"}, TRUE, TRUE),
  H1(<<Get(1), Req(2, "stream", FALSE, "Upgrade", FALSE)>>, {"empty"}, FALSE, TRUE),
  H1(<<Req(1, "stream", FALSE, "Upgrade", FALSE), Unit("chunk", 1)>>, {"empty"}, FALSE, TRUE)}

\* HTTP/1 messages: what a client and a service send through the codecs.
NoBody == [kind |-> "None", n |-> 0]
Empty == [kind |-> "Empty", n |-> 0]
Sized(k) == [kind |-> "Sized", n |-> k]
Streamed == [kind |-> "Stream", n |-> 0]
Message(method, status, version, ctype, chunked, length, chunks, headers) ==
  [method |-> method, status |-> status, version |-> version, ctype |-> ctype, chunked |-> chunked,
   length |-> length, chunks |-> chunks, headers |-> headers, plain |-> <<>>]
Foreign(chunks, headers, plain) ==
  [Message("POST", 0, 11, "None", FALSE, Streamed, chunks, headers) EXCEPT !.plain = plain]
Chunked == <<<<"transfer-encoding", "chunked">>>>
Asks(method, length, chunks) == Message(method, 0, 11, "None", TRUE, length, chunks, <<>>)
Replies(status, length, chunks) == Message("", status, 11, "None", TRUE, length, chunks, <<>>)
Exchange(q, r) == [req |-> q, res |-> r]
BodyLengths == {NoBody, Empty, Sized(1), Streamed}
CodecScripts ==
  {<<Exchange(Message(m, 0, v, c, TRUE, l, ch, <<>>), Message("", 200, 11, d, TRUE, k, dh, <<>>))>> :
     m \in {"GET", "HEAD"}, v \in {10, 11}, c \in {"None", "Close"}, l \in BodyLengths, ch \in {<<<<1>>>>},
     d \in {"None", "Close"}, k \in BodyLengths, dh \in {<<>>, <<<<98>>>>}}
  \union {
  <<Exchange(Asks("POST", Streamed, <<<<1, 90, 91>>, <<0>>>>), Replies(200, Sized(2), <<<<91>>, <<98>>>>)),
    Exchange(Asks("GET", NoBody, <<>>), Replies(200, Streamed, <<<<0, 1>>>>))>>,
  <<Exchange(Asks("HEAD", NoBody, <<>>), Replies(200, Sized(3), <<<<1, 2, 3>>>>)),
    Exchange(Asks("GET", Empty, <<>>), Replies(204, NoBody, <<>>))>>,
  <<Exchange(Asks("PUT", Sized(2), <<<<1>>, <<2, 3>>>>), Replies(200, Sized(3), <<<<1>>>>))>>,
  <<Exchange(Asks("GET", NoBody, <<>>),
             Message("", 200, 11, "Close", TRUE, Sized(1), <<<<7>>>>, <<<<"content-length", 5>>>>)),
    Exchange(Asks("GET", NoBody, <<>>), Replies(200, NoBody, <<>>))>>,
  <<Exchange(Message("GET", 0, 10, "None", TRUE, NoBody, <<>>, <<>>),
             Message("", 200, 11, "None", FALSE, Streamed, <<<<1>>, <<2>>>>, <<>>))>>,
  <<Exchange(Message("GET", 0, 11, "Upgrade", TRUE, NoBody, <<>>, <<<<"upgrade", "websocket">>>>),
             Message("", 101, 11, "Upgrade", FALSE, Streamed, <<<<1, 98>>, <<2>>>>, <<>>))>>,
  <<Exchange(Foreign(<<<<1, 93, 92, 3, 90, 91, 7, 90, 91>>, <<0, 1, 0, 90, 91, 5, 6, 90, 91, 0, 90, 91, 90, 91>>>>,
                     Chunked, <<7, 5, 6>>), Replies(200, Empty, <<>>))>>,
  <<Exchange(Foreign(<<<<1, 90, 91, 7, 91>>>>, Chunked, <<99>>), Replies(200, Empty, <<>>))>>,
  <<Exchange(Foreign(<<<<1, 2, 3>>>>, <<>>, <<99>>), Replies(200, Empty, <<>>))>>}

\* HTTP/2 handshakes: what a client sends first, the requests it makes and the pseudo
\* headers a server is given.
Openings == {<<>>, <<1, 2, 2, 3, 7>>, <<1, 2>>, <<9>>}
H2Requests == [method : {"GET", "OPTIONS", "CONNECT"}, form : {"absolute", "origin", "authority"},
               version : {"HTTP_2", "HTTP_11"}]
PseudoHeaders == [method : {"none", "ok"}, status : {"none", "ok"}, scheme : {"none", "ok", "bad"},
                  authority : {"none", "ok", "bad"}, path : {"none", "ok", "bad", "empty"}]

\* Bodies over HTTP/2, with their headers and those the client adds.
Body(role, status, size, n, chunks, fails, hdrs, extra) ==
  [role |-> role, status |-> status, size |-> size, n |-> n, chunks |-> chunks, fails |-> fails,
   hdrs |-> hdrs, extra |-> extra]
Plain == <<<<"content-length", 9>>, <<"connection", 0>>, <<"x", 1>>>>
Bodies == {
  Body("server", "200", "Sized", 3, <<3>>, FALSE, Plain, <<>>),
  Body("server", "200", "Stream", 0, <<1, 2>>, FALSE, <<<<"date", 1>>, <<"content-length", 3>>>>, <<>>),
  Body("server", "200", "Stream", 0, <<1, 2>>, TRUE, <<>>, <<>>),
  Body("server", "204", "Sized", 2, <<2>>, FALSE, <<>>, <<>>),
  Body("server", "101", "Empty", 0, <<2>>, FALSE, Plain, <<>>),
  Body("server", "200", "Sized64", 0, <<>>, FALSE, <<>>, <<>>),
  Body("client", "", "Sized64", 0, <<>>, FALSE, Plain, <<>>),
  Body("client", "", "Sized", 4, <<3, 1>>, FALSE, Plain, <<<<"x", 2>>, <<"transfer-encoding", 1>>>>),
  Body("client", "", "Stream", 0, <<2, 1>>, TRUE, Plain, <<>>),
  Body("client", "", "Empty", 0, <<>>, FALSE, Plain, <<>>)}

\* Frames: the headers (1 method, 2 path, 3 status, 4 and 5 fields, 6 a hop-by-hop field,
\* 7 te) with their sizes on the wire and in a list; frames that are sent, and frames of
\* a peer, whole, cut at every place, or malformed.
HKinds == <<"method", "path", "status", "field", "field", "hop", "te">>
HSizes == <<1, 2, 1, 1, 3, 1, 1>>
HLens == <<10, 6, 10, 3, 9, 6, 4>>
Fr(kind, flag, id, body) == [kind |-> kind, flag |-> flag, id |-> id, body |-> body]
Data(flag, id, body) == Fr(0, flag, id, body)
Head1(flag, id, body) == Fr(1, flag, id, body)
Prio(id, body) == Fr(2, 0, id, body)
Rst(id, body) == Fr(3, 0, id, body)
Sett(flag, id, body) == Fr(4, flag, id, body)
Push(flag, id, body) == Fr(5, flag, id, body)
Ping(flag, body) == Fr(6, flag, 0, body)
Away(body) == Fr(7, 0, 0, body)
Credit(id, body) == Fr(8, 0, id, body)
Cont(flag, id, body) == Fr(9, flag, id, body)
FrameScripts == {
  <<Sett(0, 0, <<-1, 1, 7, -1, 4, -1>>), Head1(4, 1, <<1, 2, 5, 4>>), Data(0, 1, <<7, 8>>), Data(1, 1, <<9>>)>>,
  <<Sett(1, 0, [i \in 1 .. 6 |-> -1]), Head1(5, 3, <<3, 5, 5, 4>>), Credit(0, <<3>>),
    Data(0, 3, <<1, 2, 3, 4, 5, 6>>), Rst(3, <<2>>)>>,
  <<Push(4, 1, <<2, 1, 5, 4>>), Ping(0, <<1, 2, 3, 4, 5, 6, 7, 8>>), Away(<<5, 1>>)>>}
Unpacked(b, i) == IF i <= Len(b) THEN [k \in 1 .. HSizes[b[i]] |-> 10 * b[i] + k] ELSE <<>>
OnWire(b) == Unpacked(b, 1) \o Unpacked(b, 2) \o Unpacked(b, 3) \o Unpacked(b, 4) \o Unpacked(b, 5)
             \o Unpacked(b, 6) \o Unpacked(b, 7)
InTwo(u, i) == <<Head1(0, 1, SubSeq(u, 1, i)), Cont(4, 1, SubSeq(u, i + 1, Len(u)))>>
InThree(u, i) == <<Head1(1, 1, SubSeq(u, 1, i)), Cont(0, 1, SubSeq(u, i + 1, i + 1)),
                   Cont(4, 1, SubSeq(u, i + 2, Len(u)))>>
GoodBlocks == {OnWire(b) : b \in {<<1>>, <<1, 2>>, <<3, 5>>, <<5, 5, 4>>}}
OddBlocks == {OnWire(b) : b \in {<<1, 6>>, <<4, 1>>, <<1, 1>>, <<7>>}}
LongBlock == OnWire(<<5, 5, 5, 5, 5, 5, 5>>) \o <<51>>
RawFrames ==
  UNION {{InTwo(u, i) : i \in 0 .. Len(u)} \cup {InThree(u, i) : i \in 0 .. (Len(u) - 1)} : u \in GoodBlocks}
  \cup {<<Head1(4, 1, u)>> : u \in GoodBlocks \cup OddBlocks}
  \cup {
  <<Head1(0, 1, <<11>>), Data(0, 1, <<1>>)>>, <<Head1(0, 1, <<11>>), Cont(4, 3, <<>>)>>, <<Cont(4, 1, <<>>)>>,
  <<Head1(12, 1, <<2, 11, 0, 0>>), Head1(36, 3, <<5, 0, 0, 0, 1, 11>>), Head1(36, 3, <<3, 0, 0, 0, 1, 11>>),
    Head1(12, 5, <<9, 11>>)>>,
  <<Head1(36, 3, <<1>>)>>, <<Head1(4, 3, <<1>>)>>, <<Head1(4, 3, <<51, 52>>)>>,
  <<Data(8, 1, <<1, 5, 0>>), Data(9, 1, <<3, 5>>)>>, <<Data(0, 0, <<>>)>>, <<Data(8, 1, <<>>)>>,
  <<Sett(0, 0, <<5, 4, 5, 8, 9, 9>>), Sett(0, 0, <<2, 2>>)>>, <<Sett(0, 0, <<4, 8>>)>>, <<Sett(1, 0, <<1, 1>>)>>,
  <<Sett(0, 0, <<5, 99>>)>>, <<Sett(0, 0, <<1>>)>>, <<Sett(0, 1, <<>>)>>, <<Ping(1, <<1>>)>>,
  <<Credit(1, <<11>>), Credit(1, <<8>>)>>, <<Rst(1, <<>>)>>, <<Away(<<1>>)>>,
  <<Prio(1, <<9, 0, 0, 0, 4>>), Prio(2, <<1, 0, 0, 0, 4>>), Prio(2, <<1>>)>>, <<Prio(0, <<9, 0, 0, 0, 4>>)>>,
  <<Push(4, 1, <<2, 0, 0, 0>>)>>, <<Push(4, 1, <<10, 0, 0, 0, 11>>)>>,
  <<Push(0, 1, <<2, 0, 0, 0, 11>>), Cont(4, 1, <<21, 22>>)>>, <<Fr(11, 0, 0, <<1>>), Head1(4, 1, <<11>>)>>,
  <<Data(0, 1, [i \in 1 .. 190 |-> 1])>>,
  <<Head1(0, 1, LongBlock), Cont(0, 1, <<52>>), Cont(4, 1, <<53>>)>>,
  <<Head1(0, 1, LongBlock), Cont(4, 1, [i \in 1 .. 171 |-> 52])>>}

\* HPACK: header blocks, and the slots their names hash to.
Field(n, v) == [name |-> n, value |-> v, sensitive |-> FALSE]
Secret(n, v) == [name |-> n, value |-> v, sensitive |-> TRUE]
ShortBlocks == {<<Field(n, v)>> : n \in {"a", "b", "c"}, v \in {"x", "y"}} \cup {<<Field("d", "x")>>}
Clashing == [n \in {"a", "b", "c", "d"} |-> CASE n \in {"a", "b"} -> 3 [] n = "c" -> 0 [] n = "d" -> 2]
MixedBlocks == {
  <<Field("a", "x"), Field("", "y"), Field("b", "x")>>, <<Secret("a", "y"), Field("", "z"), Field(":method", "GET")>>,
  <<Secret("b", "x")>>, <<Field("cookie", "k"), Secret("", "k"), Field("age", "1")>>,
  <<Field("a", "y"), Field(":status", "201"), Field("accept-encoding", "br")>>,
  <<Field("c", "longlonglonglonglonglonglonglonglonglonglong"), Field("", "y")>>}
Spread == [n \in {"a", "b", "c", ":status", "accept-encoding"} |-> CASE n = "a" -> 3 [] n = "b" -> 7 [] OTHER -> 0]

\* Codecs: length-delimited, lines and bytes; items that are encoded, or raw bytes.
ByLength(kind, f, off, adj, skip, big, max, its, raw) ==
  [codec |-> "length", kind |-> kind, field |-> f, offset |-> off, adjust |-> adj, num_skip |-> skip,
   big |-> big, max |-> max, items |-> its, raw |-> raw]
ByLine(kind, max, its, raw) == [codec |-> "lines", kind |-> kind, max |-> max, items |-> its, raw |-> raw]
Items == <<<<0, 3>>, <<>>, <<1, 1, 1, 1>>, <<2>>>>
CodecConfs ==
  {ByLength("framed", 1, 0, 0, -1, TRUE, 3, Items, <<>>), ByLength("framed2", 2, 0, 0, -1, FALSE, 5, Items, <<>>),
   ByLength("framed", 2, 0, -1, -1, TRUE, 5, <<<<3, 3>>, <<1>>>>, <<>>),
   ByLength("framed", 1, 0, 1, -1, TRUE, 3, <<<<3, 3>>, <<>>, <<1>>>>, <<>>),
   ByLength("framed", 1, 1, 0, 0, TRUE, 2, <<>>, <<3, 2, 1, 1>>),
   ByLength("framed", 1, 0, 0, -1, TRUE, 3, <<>>, <<2, 1, 1, 3>>),
   ByLine("framed2", 9, <<<<0>>, <<>>, <<0, 0>>>>, <<>>),
   [codec |-> "bytes", kind |-> "framed", items |-> <<<<0>>, <<>>, <<1, 2>>>>, raw |-> <<>>]}
  \union {ByLength("framed", 1, 1, a, k, TRUE, 2, <<>>, <<3, 2, 1, 1, 0, 1, 1, 2, 2, 0, 0, 1>>) :
            a \in {-1, 0, 1}, k \in {-1, 1, 3}}
  \union {ByLine("framed", m, <<>>, r) : m \in {0, 1, 2, 9},
            r \in {<<0, 1, 2, 0, 0, 0, 2, 2, 0, 1>>, <<1, 2, 3, 2, 0, 0, 0, 0, 0, 2, 0>>, <<0, 0, 0, 0>>}}

\* Websocket: messages, raw frames with the frames or the error they stand for, and handshakes.
Talk(from, msgs) ==
  [from |-> from, max_size |-> 9, msgs |-> msgs, raw |-> <<>>, frames |-> <<>>, error |-> "none"]
Wire(from, max, bytes, frames, e) ==
  [from |-> from, max_size |-> max, msgs |-> <<>>, raw |-> bytes, frames |-> frames, error |-> e]
Talks == {Talk(f, m) : f \in {"client", "server"}, m \in {
    <<<<"Text", <<1, 2, 3, 4, 5>>>>, <<"Nop", <<>>>>, <<"Ping", <<7, 200>>>>>>,
    <<<<"FirstText", <<1>>>>, <<"FirstBinary", <<9>>>>, <<"Ping", <<>>>>, <<"Continue", <<2, 3, 4>>>>, <<"Last", <<>>>>>>,
    <<<<"Continue", <<1>>>>, <<"FirstBinary", <<255, 1, 2, 3, 4, 5, 6>>>>, <<"Last", <<5>>>>, <<"Last", <<6>>>>,
      <<"Close", <<>>>>>>,
    <<<<"Binary", <<1, 2>>>>, <<"Pong", <<>>>>, <<"Close", <<<<"Normal">>, <<>>>>>>>>,
    <<<<"Close", <<<<"Other", 3>>, <<>>>>>>>>}}
  \union {
  Wire("client", 9, <<129, 1, 65>>, <<>>, "UnmaskedFrame"),
  Wire("server", 9, <<129, 129, 0, 0, 0, 0, 65>>, <<>>, "MaskedFrame"),
  Wire("server", 9, <<131, 0>>, <<>>, "InvalidOpcode"), Wire("server", 2, <<130, 3, 0, 3, 1, 1, 1>>, <<>>, "Overflow"),
  Wire("server", 9, <<137, 3, 0, 3, 1, 1, 1>>, <<>>, "InvalidLength"),
  Wire("server", 9, <<136, 3, 0, 3, 1, 1, 1, 129, 0>>, <<<<"Close", <<>>>>, <<"Text", <<>>>>>>, "none"),
  Wire("server", 9, <<9, 0>>, <<>>, "ContinuationFragment"), Wire("server", 9, <<0, 0>>, <<>>, "ContinuationNotStarted"),
  Wire("server", 9, <<128, 0>>, <<>>, "ContinuationNotStarted"),
  Wire("server", 9, <<1, 1, 5, 2, 0>>, <<<<"FirstText", <<5>>>>>>, "ContinuationStarted")}
Handshakes == {
  <<>>, <<<<"header", "bad", "x">>>>, <<<<"set_header", "scheme", "bad_scheme">>>>,
  <<<<"header", "upgrade", "h2c">>, <<"header", "upgrade", "x">>, <<"set_header", "host", "a">>,
    <<"set_header_if_none", "host", "b">>>>,
  <<<<"set_header", "sec-websocket-version", "5">>, <<"set_header_if_none", "origin", "o">>>>}
WsConfs == {[build |-> <<>>, script |-> s] : s \in Talks} \union {[build |-> b, script |-> Talk("client", <<>>)] : b \in Handshakes}
WsHead(upgrade, connection, accept) ==
  [status |-> 101, upgrade |-> upgrade, connection |-> connection, accept |-> accept]
WsAnswers == {[status |-> 0], [status |-> 200], [status |-> 101, upgrade |-> "h2c"],
  [status |-> 101, upgrade |-> "websocket", connection |-> "close"],
  WsHead("websocket", "upgrade", <<"missing">>), WsHead("websocket", "upgrade", <<"hash", "k2">>)}

\* The component this behaviour is of, and its variables, in the order it declares them.
VARIABLES
  part, v1, v2, v3, v4, v5, v6, v7, v8, v9, v10, v11, v12, v13, v14, v15, v16, v17, v18,
  v19, v20

\* One side of an HTTP/2 connection: its streams, their windows and queues.
H2Streams == INSTANCE H2Streams WITH
  Configs <- StreamConfigs, MAX_WINDOW <- 9, max_frame_len <- 2,
  conf <- v1, c <- v2, ops <- v3
\* The connection around them: settings, pings and GOAWAY.
\* The handshake, and the requests that follow it.
H2Conn == INSTANCE H2Conn WITH
  MAX <- 9, Ids <- {1, 3}, Reasons <- {"NO_ERROR", "PROTOCOL_ERROR"}, MaxFrames <- 3,
  MaxCalls <- 2, PREFACE <- <<1, 2, 1, 3>>, SETTINGS <- <<7, 8>>, Clients <- Openings,
  Window <- 9, MAX_WINDOW <- 10, Requests <- H2Requests, Pseudos <- PseudoHeaders,
  Messages <- {}, CHUNK_SIZE <- 2,
  pc <- v1, state <- v2, go <- v3, ping <- v4, pong <- v5, local <- v6, remote <- v7,
  error <- v8, woken <- v9, last <- v10, max_id <- v11, active <- v12, user <- v13,
  user_pc <- v14, ping_task <- v15, pong_task <- v16, sent <- v17, frames <- v18,
  calls <- v19, bad <- v20, client <- v1, cs <- v2, cpos <- v3, up <- v4, down <- v5,
  up_eof <- v6, hs <- v7, pos <- v8, flushed <- v9, taken <- v10, target <- v11,
  head <- v12, outcome <- v13, msg <- v1, st <- v2, task <- v3, body_head <- v4,
  next <- v5, produced <- v6, buffer <- v7, requested <- v8, available <- v9,
  buffered <- v10, inc <- v11, body_sent <- v12, end <- v13, given <- v14, peer <- v15,
  result <- v16
\* Bodies over a window of five bytes.
H2Body == INSTANCE H2Conn WITH
  MAX <- 9, Ids <- {}, Reasons <- {}, MaxFrames <- 3, MaxCalls <- 2, PREFACE <- {},
  SETTINGS <- {}, Clients <- {}, Window <- 5, MAX_WINDOW <- 10, Requests <- {},
  Pseudos <- {}, Messages <- Bodies, CHUNK_SIZE <- 2,
  pc <- v1, state <- v2, go <- v3, ping <- v4, pong <- v5, local <- v6, remote <- v7,
  error <- v8, woken <- v9, last <- v10, max_id <- v11, active <- v12, user <- v13,
  user_pc <- v14, ping_task <- v15, pong_task <- v16, sent <- v17, frames <- v18,
  calls <- v19, bad <- v20, client <- v1, cs <- v2, cpos <- v3, up <- v4, down <- v5,
  up_eof <- v6, hs <- v7, pos <- v8, flushed <- v9, taken <- v10, target <- v11,
  head <- v12, outcome <- v13, msg <- v1, st <- v2, task <- v3, body_head <- v4,
  next <- v5, produced <- v6, buffer <- v7, requested <- v8, available <- v9,
  buffered <- v10, inc <- v11, body_sent <- v12, end <- v13, given <- v14, peer <- v15,
  result <- v16
\* Frames between two codecs, and from a peer.
H2Frames == INSTANCE H2Frames WITH
  HKind <- HKinds, HSize <- HSizes, HLen <- HLens, max_header_list_size <- 170,
  max_frame_size <- 5, max_recv_size <- 180, CHAIN_THRESHOLD <- 2, MSB <- 8,
  MIN_FRAME <- 4, MAX_FRAME <- 20, Scripts <- FrameScripts, Raws <- RawFrames,
  todo <- v1, sent <- v2, w <- v3, wire <- v4, r <- v5, raw <- v6
\* Four names, two of which hash to one slot, in a table of four.
Hpack == INSTANCE Hpack WITH
  Blocks <- ShortBlocks, HashOf <- Clashing, MaxSize <- 140, Sizes <- {}, Rooms <- {9},
  RAW <- 4, MaxBlocks <- 5, MaxSettings <- 0, Lengths <- {}, LEN_BITS <- 3, Walk <- TRUE,
  Symbols <- {}, MaxLen <- 0,
  enc <- v1, resume <- v2, todo <- v3, wire <- v4, dec <- v5, got <- v6, given <- v7,
  err <- v8, left <- v9, phase <- v1, text <- v2, buf <- v3, string_got <- v4, state <- v1,
  maybe_eos <- v2, path <- v3, table <- v4, huffman_text <- v5, bits <- v6, out <- v7,
  rem <- v8, src <- v9, pos <- v10, nibble2 <- v11, huffman_got <- v12, tail <- v13,
  huffman_phase <- v14
\* A table that is resized, and encoders that run out of room.
Resized == INSTANCE Hpack WITH
  Blocks <- MixedBlocks, HashOf <- Spread, MaxSize <- 120, Sizes <- {0, 80, 120},
  Rooms <- {0, 1, 2}, RAW <- 4, MaxBlocks <- 3, MaxSettings <- 2, Lengths <- {},
  LEN_BITS <- 3, Walk <- TRUE, Symbols <- {}, MaxLen <- 0,
  enc <- v1, resume <- v2, todo <- v3, wire <- v4, dec <- v5, got <- v6, given <- v7,
  err <- v8, left <- v9, phase <- v1, text <- v2, buf <- v3, string_got <- v4, state <- v1,
  maybe_eos <- v2, path <- v3, table <- v4, huffman_text <- v5, bits <- v6, out <- v7,
  rem <- v8, src <- v9, pos <- v10, nibble2 <- v11, huffman_got <- v12, tail <- v13,
  huffman_phase <- v14
StaticBlocks == {<<[name |-> Hpack!STATIC_NAMES[i][1], value |-> "q", sensitive |-> s]>> :
                   i \in DOMAIN Hpack!STATIC_NAMES, s \in BOOLEAN}
                \cup {<<Field(Hpack!get_static[i][1], Hpack!get_static[i][2])>> : i \in DOMAIN Hpack!get_static}
\* Every static header.
\* String literals around the lengths where their prefix grows.
Static == INSTANCE Hpack WITH
  Blocks <- StaticBlocks, HashOf <- Spread, MaxSize <- 0, Sizes <- {},
  Rooms <- {0, 1, 7, 8, 9, 10, 30}, RAW <- 4, MaxBlocks <- 1, MaxSettings <- 0,
  Lengths <- {0, 1, 6, 7, 8, 20}, LEN_BITS <- 3, Walk <- TRUE, Symbols <- {}, MaxLen <- 0,
  enc <- v1, resume <- v2, todo <- v3, wire <- v4, dec <- v5, got <- v6, given <- v7,
  err <- v8, left <- v9, phase <- v1, text <- v2, buf <- v3, string_got <- v4, state <- v1,
  maybe_eos <- v2, path <- v3, table <- v4, huffman_text <- v5, bits <- v6, out <- v7,
  rem <- v8, src <- v9, pos <- v10, nibble2 <- v11, huffman_got <- v12, tail <- v13,
  huffman_phase <- v14
\* The whole decoding table.
HuffmanTable == INSTANCE Hpack WITH
  Blocks <- {}, HashOf <- {}, MaxSize <- 0, Sizes <- {}, Rooms <- {0}, RAW <- 4,
  MaxBlocks <- 5, MaxSettings <- 0, Lengths <- {}, LEN_BITS <- 3, Walk <- TRUE,
  Symbols <- {}, MaxLen <- 0,
  enc <- v1, resume <- v2, todo <- v3, wire <- v4, dec <- v5, got <- v6, given <- v7,
  err <- v8, left <- v9, phase <- v1, text <- v2, buf <- v3, string_got <- v4, state <- v1,
  maybe_eos <- v2, path <- v3, table <- v4, huffman_text <- v5, bits <- v6, out <- v7,
  rem <- v8, src <- v9, pos <- v10, nibble2 <- v11, huffman_got <- v12, tail <- v13,
  huffman_phase <- v14
\* Texts of symbols with short and long codes.
Huffman == INSTANCE Hpack WITH
  Blocks <- {}, HashOf <- {}, MaxSize <- 0, Sizes <- {}, Rooms <- {1, 3, 20}, RAW <- 4,
  MaxBlocks <- 5, MaxSettings <- 0, Lengths <- {}, LEN_BITS <- 3, Walk <- FALSE,
  Symbols <- {48, 33, 92, 10, 255}, MaxLen <- 2,
  enc <- v1, resume <- v2, todo <- v3, wire <- v4, dec <- v5, got <- v6, given <- v7,
  err <- v8, left <- v9, phase <- v1, text <- v2, buf <- v3, string_got <- v4, state <- v1,
  maybe_eos <- v2, path <- v3, table <- v4, huffman_text <- v5, bits <- v6, out <- v7,
  rem <- v8, src <- v9, pos <- v10, nibble2 <- v11, huffman_got <- v12, tail <- v13,
  huffman_phase <- v14
\* An HTTP/1 connection and its service.
H1Dispatcher == INSTANCE H1Dispatcher WITH
  Configs <- H1Configs, MAX_PIPELINED_MESSAGES <- 3, HW_BUFFER_SIZE <- 2,
  MAX_BUFFER_SIZE <- 1, BodyItems <- 1,
  conf <- v1, script <- v2, wire <- v3, fin <- v4, d <- v5, out <- v6, ka <- v7, pc <- v8,
  call <- v9, woken <- v10, ret <- v11
\* The HTTP/1 codecs at the two ends of a connection.
H1Codec == INSTANCE H1Codec WITH
  Scripts <- CodecScripts, KeepAlive <- {"client", "server"}, RADIX <- 2, SIZE_MOD <- 8,
  MAX_BUFFER_SIZE <- 3,
  script <- v1, turn <- v2, sender <- v3, item <- v4, wire <- v5, src <- v6, idle <- v7,
  head <- v8, codec <- v9, got <- v10, closed <- v11, failed <- v12
\* Framed transports.
Framed == INSTANCE Framed WITH
  Confs <- CodecConfs, RADIX <- 4, BOUNDARY <- 4, Answers <- {}, SHORT <- 3, MEDIUM <- 4,
  LONG <- 3, Masks <- {}, WORD <- 8, Align <- {},
  conf <- v1, items <- v2, wbuf <- v3, wire <- v4, shut <- v5, rbuf <- v6, eof <- v7,
  readable <- v8, dec <- v9, got <- v10, input <- v11, build <- v1, phase <- v2,
  head <- v3, err <- v4, key <- v5, answer <- v6, script <- v7, next <- v8, wcont <- v9,
  ws_wire <- v10, src <- v11, rcont <- v12, ws_got <- v13, error <- v14
\* Websocket handshakes and frames.
WebSocket == INSTANCE Framed WITH
  Confs <- WsConfs, RADIX <- 4, BOUNDARY <- 4, Answers <- WsAnswers, SHORT <- 3,
  MEDIUM <- 4, LONG <- 3, Masks <- {<<1, 2, 128, 255>>}, WORD <- 8, Align <- {0, 5},
  conf <- v1, items <- v2, wbuf <- v3, wire <- v4, shut <- v5, rbuf <- v6, eof <- v7,
  readable <- v8, dec <- v9, got <- v10, input <- v11, build <- v1, phase <- v2,
  head <- v3, err <- v4, key <- v5, answer <- v6, script <- v7, next <- v8, wcont <- v9,
  ws_wire <- v10, src <- v11, rcont <- v12, ws_got <- v13, error <- v14

\* The variables a component has no use for.
From17 == <<v17, v18, v19, v20>>
Idle17 == v17 = 0 /\ v18 = 0 /\ v19 = 0 /\ v20 = 0
From15 == <<v15, v16, From17>>
Idle15 == v15 = 0 /\ v16 = 0 /\ Idle17
From14 == <<v14, From15>>
Idle14 == v14 = 0 /\ Idle15
From13 == <<v13, From14>>
Idle13 == v13 = 0 /\ Idle14
From12 == <<v12, From13>>
Idle12 == v12 = 0 /\ Idle13
From10 == <<v10, v11, From12>>
Idle10 == v10 = 0 /\ v11 = 0 /\ Idle12
From7 == <<v7, v8, v9, From10>>
Idle7 == v7 = 0 /\ v8 = 0 /\ v9 = 0 /\ Idle10
From5 == <<v5, v6, From7>>
Idle5 == v5 = 0 /\ v6 = 0 /\ Idle7
From4 == <<v4, From5>>
Idle4 == v4 = 0 /\ Idle5

FamilyInit ==
  \/ part = "h2_streams" /\ H2Streams!Init /\ Idle4
  \/ part = "h2_conn" /\ H2Conn!Init
  \/ part = "h2_handshake" /\ H2Conn!HandshakeInit /\ Idle14
  \/ part = "h2_body" /\ H2Body!BodyInit /\ Idle17
  \/ part = "h2_frames" /\ H2Frames!Init /\ Idle7
  \/ part = "hpack" /\ Hpack!Init /\ Idle10
  \/ part = "hpack_resized" /\ Resized!Init /\ Idle10
  \/ part = "hpack_static" /\ Static!Init /\ Idle10
  \/ part = "hpack_string" /\ Static!StringInit /\ Idle5
  \/ part = "huffman_table" /\ HuffmanTable!HuffmanInit /\ Idle15
  \/ part = "huffman" /\ Huffman!HuffmanInit /\ Idle15
  \/ part = "h1" /\ H1Dispatcher!Init /\ Idle12
  \/ part = "h1_codec" /\ H1Codec!Init /\ Idle13
  \/ part = "framed" /\ Framed!Init /\ Idle12
  \/ part = "websocket" /\ WebSocket!WsInit /\ Idle15

H2StreamsStep == part = "h2_streams" /\ H2Streams!Next /\ UNCHANGED <<part, From4>>
H2ConnStep == part = "h2_conn" /\ H2Conn!Next /\ UNCHANGED <<part>>
H2HandshakeStep == part = "h2_handshake" /\ H2Conn!HandshakeNext /\ UNCHANGED <<part, From14>>
H2BodyStep == part = "h2_body" /\ H2Body!BodyNext /\ UNCHANGED <<part, From17>>
H2FramesStep == part = "h2_frames" /\ H2Frames!Next /\ UNCHANGED <<part, From7>>
HpackStep == part = "hpack" /\ Hpack!Next /\ UNCHANGED <<part, From10>>
HpackResizedStep == part = "hpack_resized" /\ Resized!Next /\ UNCHANGED <<part, From10>>
HpackStaticStep == part = "hpack_static" /\ Static!Next /\ UNCHANGED <<part, From10>>
HpackStringStep == part = "hpack_string" /\ Static!StringNext /\ UNCHANGED <<part, From5>>
HuffmanTableStep == part = "huffman_table" /\ HuffmanTable!HuffmanNext /\ UNCHANGED <<part, From15>>
HuffmanStep == part = "huffman" /\ Huffman!HuffmanNext /\ UNCHANGED <<part, From15>>
H1Step == part = "h1" /\ H1Dispatcher!Next /\ UNCHANGED <<part, From12>>
H1CodecStep == part = "h1_codec" /\ H1Codec!Next /\ UNCHANGED <<part, From13>>
FramedStep == part = "framed" /\ Framed!Next /\ UNCHANGED <<part, From12>>
WebsocketStep == part = "websocket" /\ WebSocket!WsNext /\ UNCHANGED <<part, From15>>
FamilyNext ==
  \/ H2StreamsStep \/ H2ConnStep \/ H2HandshakeStep \/ H2BodyStep \/ H2FramesStep
  \/ HpackStep \/ HpackResizedStep \/ HpackStaticStep \/ HpackStringStep
  \/ HuffmanTableStep \/ HuffmanStep \/ H1Step \/ H1CodecStep \/ FramedStep
  \/ WebsocketStep
familyVars == <<part, v1, v2, v3, From4>>
FamilySpec == FamilyInit /\ [][FamilyNext]_familyVars
-----------------------------------------------------------------------------
=============================================================================
