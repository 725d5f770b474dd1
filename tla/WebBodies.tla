------------------------------ MODULE WebBodies ------------------------------
(* Bodies of the web framework: files and ranges, multipart, compression.   *)
EXTENDS Integers, Sequences, FiniteSets, SequencesExt, FiniteSetsExt

(* Static files (web/file): the Files service, the response NamedFile makes     *)
(* from the conditions and the range of a request, and ChunkedReadFile, which   *)
(* reads the file on the blocking pool while it may change.  A clock tick is    *)
(* half a second, so that an HTTP date is a conversion that loses something.    *)

CONSTANTS
    Tree,        \* path -> "dir" or "file"; a path is a sequence of names
    Confs,       \* [index, show_index, redirect, default, guards, etag, last_md]
    Targets,     \* requests [method, segs, slash]; segs as split at "/"
    Ranges,      \* Range headers [there, text, prefix, items]
    Conditions,  \* names of the conditional headers a client may send
    Ticks,       \* how far the clock may move between two changes of a file
    MaxChanges, MaxSize,   \* bounds
    CHUNK        \* 65536 in the code

VARIABLES
    conf, file,         \* path -> [ver, size, mtime]
    copy,               \* path -> what the client has kept: [ver, etag, lm], or none
    req, out,           \* the request in hand and the head of its answer
    offset, size, counter, fut, given,   \* ChunkedReadFile; ghost: the bytes given
    changes

vars == <<conf, file, copy, req, out, offset, size, counter, fut, given, changes>>
stream == <<offset, size, counter, fut, given>>

Nothing == [none |-> TRUE]
Files == {p \in DOMAIN Tree : Tree[p] = "file"}
EMPTY == 0 - 1   \* an empty number
BAD == 0 - 2     \* one that does not parse

Init ==
    /\ conf \in Confs /\ file \in [Files -> [ver : {0}, size : {MaxSize}, mtime : {2}]]
    /\ copy = [p \in Files |-> Nothing] /\ req = Nothing /\ out = Nothing
    /\ offset = 0 /\ size = 0 /\ counter = 0 /\ fut = "none" /\ given = <<>> /\ changes = 0

-----------------------------------------------------------------------------
\* PathBufWrp::get_pathbuf: the segments that may not be, and the path that remains.
BadStart == {".x", "*x"}
BadEnd == {"x:", "x>", "x<"}
get_pathbuf(segs) ==
    FoldLeft(LAMBDA buf, s : IF buf = <<"error">> \/ s \in BadStart \cup BadEnd THEN <<"error">>
                             ELSE IF s = ".." THEN IF buf = <<>> THEN buf ELSE Front(buf)
                             ELSE IF s = "" THEN buf ELSE Append(buf, s),
             <<>>, segs)

\* HttpRange::parse of one item of the list.
ParseItem(i, n) ==
    IF i.s = EMPTY
    THEN IF i.e \in {EMPTY, BAD} THEN <<"error">> ELSE <<"some", n - Min({i.e, n}), Min({i.e, n})>>
    ELSE IF i.s = BAD THEN <<"error">>
    ELSE IF i.s >= n THEN <<"none">>
    ELSE IF i.e = EMPTY THEN <<"some", i.s, n - i.s>>
    ELSE IF i.e = BAD \/ i.s > i.e THEN <<"error">>
    ELSE <<"some", i.s, Min({i.e, n - 1}) - i.s + 1>>

\* HttpRange::parse: the ranges, or an error.
parse(r, n) ==
    LET all == [k \in DOMAIN r.items |-> ParseItem(r.items[k], n)]
        some == SelectSeq(all, LAMBDA x : x[1] = "some")
    IN IF r.text = "empty" THEN [ok |-> TRUE, list |-> <<>>]
       ELSE IF ~r.prefix \/ (\E k \in DOMAIN all : all[k][1] = "error")
            \/ (some = <<>> /\ \E k \in DOMAIN all : all[k][1] = "none") THEN [ok |-> FALSE, list |-> <<>>]
       ELSE [ok |-> TRUE, list |-> some]

-----------------------------------------------------------------------------
\* What the file says of itself: the tag has everything, a date only whole seconds.
HttpDate(t) == 2 * (t \div 2)
ETag(f) == <<f.size, f.mtime>>

\* The conditional headers of a client that repeats what it was told.
Own(p) == copy[p] # Nothing /\ conf.etag
Dated(p) == copy[p] # Nothing /\ conf.last_md
IfMatch(c, p) ==
    CASE c = "match_any" -> [k |-> "any"] [] c = "match_own" /\ Own(p) -> [k |-> "items", tag |-> copy[p].etag, weak |-> FALSE]
      [] c = "match_weak" /\ Own(p) -> [k |-> "items", tag |-> copy[p].etag, weak |-> TRUE] [] OTHER -> [k |-> "no"]
IfNoneMatch(c, p) ==
    CASE c = "none_any" -> [k |-> "any"] [] c = "none_own" /\ Own(p) -> [k |-> "items", tag |-> copy[p].etag]
      [] OTHER -> [k |-> "no"]

any_match(etag, h) == h.k \in {"no", "any"} \/ (etag # <<>> /\ ~h.weak /\ h.tag = etag)
none_match(etag, h) == h.k = "no" \/ (h.k = "items" /\ ~(etag # <<>> /\ h.tag = etag))

\* The modification time is compared as it is, with what a date has kept of it.
precondition_failed(f, c, p) ==
    \/ ~any_match(IF conf.etag THEN ETag(f) ELSE <<>>, IfMatch(c, p))
    \/ c = "unmodified_since" /\ Dated(p) /\ f.mtime > copy[p].lm
not_modified(f, c, p) ==
    \/ ~none_match(IF conf.etag THEN ETag(f) ELSE <<>>, IfNoneMatch(c, p))
    \/ /\ IfNoneMatch(c, p).k = "no" /\ c = "modified_since" /\ Dated(p)
       /\ f.mtime <= copy[p].lm

Resp(s, cr) == [status |-> s, cr |-> cr, panic |-> FALSE]

\* NamedFile::into_response, given the one range that counts.
Respond(f, c, p, off, len, cr) ==
    IF precondition_failed(f, c, p) THEN Resp("412", cr)
    ELSE IF not_modified(f, c, p) THEN Resp("304", cr)
    ELSE Resp(IF off # 0 \/ len # f.size THEN "206" ELSE "200", cr)

\* NamedFile::into_response: the head, and where the body starts and how long it is.
into_response(f, c, p, r) ==
    IF ~r.there THEN [head |-> Respond(f, c, p, 0, f.size, <<>>), off |-> 0, len |-> f.size]
    ELSE IF r.text = "opaque" THEN [head |-> Resp("400", <<>>), off |-> 0, len |-> 0]
    ELSE LET rs == parse(r, f.size)
         IN IF ~rs.ok THEN [head |-> Resp("416", <<>>), off |-> 0, len |-> 0]
            \* rangesvec[0], and offset + length - 1 in 64 bits.
            ELSE IF rs.list = <<>> \/ (rs.list # <<>> /\ rs.list[1][2] + rs.list[1][3] = 0)
            THEN [head |-> [Resp("panic", <<>>) EXCEPT !.panic = TRUE], off |-> 0, len |-> 0]
            ELSE LET off == rs.list[1][2]
                     len == rs.list[1][3]
                 IN [head |-> Respond(f, c, p, off, len, <<off, off + len - 1, f.size>>), off |-> off, len |-> len]

Answer(r, h, p, off, len) ==
    /\ req' = r /\ out' = [status |-> h.status, cr |-> h.cr, panic |-> h.panic, p |-> p,
                            ver |-> IF p \in Files THEN file[p].ver ELSE 0, had |-> IF p \in Files THEN copy[p] ELSE Nothing]
    /\ offset' = off /\ size' = len /\ counter' = 0 /\ fut' = "none" /\ given' = <<>>
    /\ copy' = IF p \in Files /\ h.status = "200"
               THEN [copy EXCEPT ![p] = [ver |-> file[p].ver, etag |-> ETag(file[p]), lm |-> HttpDate(file[p].mtime)]]
               ELSE copy
    /\ UNCHANGED <<conf, file, changes>>

\* handle_err: the default service, or the error.
handle_err == Resp(IF conf.default THEN "default" ELSE "404", <<>>)

\* FilesService::call.
call(t, c, r) ==
    /\ out = Nothing
    /\ \E path \in {get_pathbuf(t.segs)} :
       LET rq == [t |-> t, cond |-> c, range |-> r, path |-> path]
           served == IF conf.index # "" /\ path \in DOMAIN Tree /\ Tree[path] = "dir" THEN Append(path, conf.index) ELSE path
       IN IF ~(conf.guards \/ t.method \in {"GET", "HEAD"}) THEN Answer(rq, Resp("405", <<>>), <<>>, 0, 0)
          ELSE IF path = <<"error">> THEN Answer(rq, Resp("400", <<>>), <<>>, 0, 0)
          ELSE IF path \notin DOMAIN Tree THEN Answer(rq, handle_err, <<>>, 0, 0)
          ELSE IF Tree[path] = "dir" /\ conf.index = ""
          THEN Answer(rq, Resp(IF conf.show_index THEN "listing" ELSE "404", <<>>), <<>>, 0, 0)
          ELSE IF Tree[path] = "dir" /\ conf.redirect /\ ~t.slash THEN Answer(rq, Resp("302", <<>>), <<>>, 0, 0)
          ELSE IF served \notin Files THEN Answer(rq, handle_err, <<>>, 0, 0)
          ELSE \E i \in {into_response(file[served], c, served, r)} : Answer(rq, i.head, served, i.off, i.len)

Streaming == out # Nothing /\ out.status \in {"200", "206"}

\* ChunkedReadFile::poll_next with no read under way: the end, or a new read.
poll_next ==
    /\ Streaming /\ fut = "none"
    /\ fut' = IF size = counter THEN "end" ELSE "reading"
    /\ UNCHANGED <<conf, file, copy, req, out, offset, size, counter, given, changes>>

\* The read on the blocking pool, and the poll that takes its result.
read ==
    /\ Streaming /\ fut = "reading"
    /\ LET max_bytes == Min({size - counter, CHUNK})
           n == Min({max_bytes, Max({file[out.p].size - offset, 0})})
       IN IF n = 0 THEN fut' = "error" /\ UNCHANGED <<offset, counter, given>>
          ELSE /\ fut' = "none" /\ offset' = offset + n /\ counter' = counter + n
               /\ given' = given \o [k \in 1..n |-> offset + k - 1]
    /\ UNCHANGED <<conf, file, copy, req, out, size, changes>>

\* The dispatcher lets the response go: at its end, after an error, or before.
drop ==
    /\ out # Nothing /\ out' = Nothing /\ req' = Nothing
    /\ offset' = 0 /\ size' = 0 /\ counter' = 0 /\ fut' = "none" /\ given' = <<>>
    /\ UNCHANGED <<conf, file, copy, changes>>

\* Somebody writes the file.
change(p, d, n) ==
    /\ changes < MaxChanges /\ changes' = changes + 1
    /\ file' = [file EXCEPT ![p] = [ver |-> @.ver + 1, size |-> n, mtime |-> @.mtime + d]]
    /\ UNCHANGED <<conf, copy, req, out, stream>>

Next ==
    \/ \E t \in Targets, c \in Conditions, r \in Ranges : call(t, c, r)
    \/ poll_next \/ read \/ drop
    \/ \E p \in Files, d \in Ticks, n \in 1..MaxSize : change(p, d, n)

Spec == Init /\ [][Next]_vars

-----------------------------------------------------------------------------
\* Bytes of a file of n bytes an item of a Range header asks for.
Asked(i, n) == {b \in 0..n - 1 : IF i.s = EMPTY THEN b >= n - i.e ELSE b >= i.s /\ (i.e = EMPTY \/ b <= i.e)}
Satisfiable(n) == {k \in DOMAIN req.range.items : Asked(req.range.items[k], n) # {}}

\* The body of an answer is the bytes of the first range the file has, from their first
\* to their last and nothing else, whatever happens to the file meanwhile; a body that
\* ends without an error is whole; and Content-Range says which bytes they are.
BodyIsRange == Streaming =>
    /\ given = [k \in 1..counter |-> offset - counter + k - 1]
    /\ fut = "end" => counter = size
    /\ out.cr # <<>> => /\ {offset - counter + k : k \in 0..size - 1} = out.cr[1]..out.cr[2]
                        /\ Satisfiable(out.cr[3]) # {}
                        /\ out.cr[1]..out.cr[2] = Asked(req.range.items[Min(Satisfiable(out.cr[3]))], out.cr[3])
    /\ req.range.there => out.cr # <<>>
    /\ out.status = "200" => offset - counter = 0

\* A client is told that its copy is good only while it is.
CacheSound == out # Nothing /\ out.status = "304" /\ req.cond # "none_any" =>
                  out.had # Nothing /\ out.had.ver = out.ver

\* A client that repeats what it was told about a file nobody has changed is not refused,
\* and is spared the body if it asked to be.
ValidatorsRoundTrip ==
    out # Nothing /\ out.p \in Files /\ out.had # Nothing /\ out.had.ver = out.ver /\ ~req.range.there =>
        /\ req.cond \in {"match_own", "unmodified_since"} => out.status # "412"
        /\ (req.cond = "none_own" /\ conf.etag) \/ (req.cond = "modified_since" /\ conf.last_md) => out.status = "304"

\* What is served lies below the directory, at the place the segments name once ".." has
\* been taken back, and no name has a form that is not allowed.
ServedBelow == out # Nothing /\ out.p # <<>> =>
    /\ out.p \in Files /\ ToSet(req.t.segs) \cap (BadStart \cup BadEnd) = {}
    /\ ".." \notin ToSet(out.p)
    /\ \A i \in DOMAIN out.p : out.p[i] \in ToSet(req.t.segs) \cup {conf.index}

NeverPanics == out # Nothing => ~out.panic

WebFileSound == BodyIsRange /\ CacheSound /\ ValidatorsRoundTrip /\ ServedBelow /\ NeverPanics

-----------------------------------------------------------------------------
(* Reading a multipart/form-data body (web/multipart/server.rs): Multipart     *)
(* yields the fields, Field the bytes of one, and both share the buffer of the *)
(* payload.  One task takes the fields, another reads the field it was given   *)
(* and drops it; the payload arrives in pieces of any size.                    *)
(* A byte is a number: CR, LF, DASH, the letter of the boundary, data, and one *)
(* number for each kind of header line.                                        *)

CONSTANTS
    Bodies,      \* [pre, parts, close, cut]: parts is a sequence of [head, data]
    boundary,    \* a sequence of letters
    AnyCut,      \* whether a piece may end right after a CR LF DASH DASH
    Drops,       \* whether a field, or the Multipart, may be dropped early
    MaxPiece     \* bound: bytes that arrive at once

CR == 1
LF == 2
DASH == 3
Crlf == <<CR, LF>>
Dashes == <<DASH, DASH>>
\* Header lines: a plain one, Content-Length of 2, a bad one, a nested multipart type,
\* and a line that is no header.
Plain == 10
Length2 == 11
BadLength == 12
Nested == 13
NoHeader == 14

Bytes(b) ==
    b.pre \o FlattenSeq([i \in DOMAIN b.parts |->
                Dashes \o boundary \o Crlf \o b.parts[i].head \o Crlf \o Crlf \o b.parts[i].data \o Crlf])
          \o b.close

VARIABLES
    body,      \* the body being read
    rest,      \* bytes the peer has still to send
    avail,     \* bytes that have arrived and were not taken
    ended,     \* the payload's stream: "no", "eof", or "err"
    buf, eof,  \* PayloadBuffer
    state,     \* InnerState
    item,      \* the field being read: [len, eof, taken], or NoField
    strong,    \* the holders of Safety: the Multipart, the Field
    multipart_out,       \* the fields given out: [data, done]
    error,     \* the error Multipart gave, or "none"
    panicked,
    mp, fd,    \* the two tasks: "run", "asleep", "gone"; fd is "none" without a field
    waker      \* the task the payload wakes
multipartVars == <<body, rest, avail, ended, buf, eof, state, item, strong, multipart_out, error, panicked, mp, fd, waker>>
net == <<body, rest, ended>>

NoField == [none |-> TRUE]
NoLength == 99

At(s, i, t) == i >= 1 /\ i + Len(t) - 1 <= Len(s) /\ SubSeq(s, i, i + Len(t) - 1) = t
Find(s, t) == {i \in DOMAIN s : At(s, i, t)}
Drop(s, n) == SubSeq(s, n + 1, Len(s))

MultipartInit ==
    /\ body \in Bodies /\ rest = SubSeq(Bytes(body), 1, Len(Bytes(body)) - body.cut) /\ avail = <<>> /\ ended = "no"
    /\ buf = <<>> /\ eof = FALSE /\ state = "FirstBoundary" /\ item = NoField
    /\ strong = {"mp"} /\ multipart_out = <<>> /\ error = "none" /\ panicked = FALSE
    /\ mp = "run" /\ fd = "none" /\ waker = "none"

-----------------------------------------------------------------------------
(* PayloadBuffer. *)

\* read_until: the bytes up to the end of the first match, "none", or "Incomplete".
read_until(b, e, line) ==
    IF Find(b, line) # {}
    THEN [r |-> "some", n |-> Min(Find(b, line)) + Len(line) - 1]
    ELSE [r |-> IF e THEN "Incomplete" ELSE "none", n |-> 0]
readline(b, e) == read_until(b, e, <<LF>>)
readline_or_eof(b, e) ==
    IF readline(b, e).r = "Incomplete" THEN [r |-> "some", n |-> Len(b)] ELSE readline(b, e)
read_max(b, e, amount) ==
    IF b # <<>> THEN [r |-> "some", n |-> Min({Len(b), amount})]
    ELSE [r |-> IF e THEN "Incomplete" ELSE "none", n |-> 0]

-----------------------------------------------------------------------------
(* InnerMultipart. *)

\* read_headers: the headers of a field.
read_headers(b, e) ==
    LET u == read_until(b, e, Crlf \o Crlf)
        lines == Range(SubSeq(b, 1, u.n))
    IN IF u.r # "some" THEN [r |-> u.r, n |-> 0, lines |-> {}]
       ELSE [r |-> IF NoHeader \in lines THEN "Parse" ELSE "some", n |-> u.n, lines |-> lines]

\* read_boundary: a boundary line, or the closing one.
read_boundary(b, e) ==
    LET u == readline_or_eof(b, e)
        chunk == SubSeq(b, 1, u.n)
        tail == Drop(chunk, Len(boundary) + 2)
    IN IF u.r = "none" THEN [r |-> "none", n |-> 0, eof |-> FALSE]
       ELSE IF Len(chunk) < Len(boundary) + 4 \/ ~At(chunk, 1, Dashes \o boundary)
       THEN [r |-> "Boundary", n |-> u.n, eof |-> FALSE]
       ELSE IF tail = Crlf THEN [r |-> "some", n |-> u.n, eof |-> FALSE]
       ELSE IF tail \in {Dashes, Dashes \o Crlf} THEN [r |-> "some", n |-> u.n, eof |-> TRUE]
       ELSE [r |-> "Boundary", n |-> u.n, eof |-> FALSE]

\* skip_until_boundary: the lines before the first boundary.  Its slices panic on a
\* line that is shorter than the dashes around a boundary would be.
LineEnds(b) == Find(b, <<LF>>)
Line(b, k) == SubSeq(b, Max({i \in LineEnds(b) \cup {0} : i < k}) + 1, k)
Opens(l) == At(l, 1, Dashes) /\ Len(l) >= 4 /\ SubSeq(l, 3, Len(l) - 2) = boundary
Closes(l) == At(l, 1, boundary \o Dashes)
Panics(l) == Len(l) >= Len(boundary) /\ (Len(l) < 2 \/ (At(l, 1, Dashes) /\ Len(l) < 4))
skip_until_boundary(b, e) ==
    LET hits == {k \in LineEnds(b) : Len(Line(b, k)) >= Len(boundary) /\
                                     (Opens(Line(b, k)) \/ Closes(Line(b, k)) \/ Panics(Line(b, k)))}
        k == Min(hits)
        skipped == IF LineEnds(b) = {} THEN 0 ELSE Max(LineEnds(b))
    IN IF hits = {} THEN [r |-> IF e THEN "Incomplete" ELSE "none", n |-> skipped, eof |-> FALSE]
       ELSE IF Panics(Line(b, k)) THEN [r |-> "panic", n |-> k, eof |-> FALSE]
       ELSE [r |-> "some", n |-> k, eof |-> ~Opens(Line(b, k))]

\* InnerField::new.
new_field(lines) == [len |-> IF Length2 \in lines THEN 2 ELSE NoLength, eof |-> FALSE, taken |-> FALSE]

-----------------------------------------------------------------------------
(* InnerField. *)

\* read_len: the field has a Content-Length.
read_len(b, e, amount) ==
    IF amount = 0 THEN [r |-> "end", n |-> 0]
    ELSE read_max(b, e, amount)

\* read_stream: bytes up to what may be the next boundary.
Delimiter(b, i) == At(b, i, Crlf \o Dashes) \/ At(b, i, <<CR>> \o Dashes)
read_stream(b, e) ==
    LET len == Len(b)
        b_len == IF At(b, 1, Crlf \o Dashes) THEN 4 ELSE IF At(b, 1, <<CR>> \o Dashes) THEN 3 ELSE 0
        stops == {i \in DOMAIN b : b[i] = CR /\ (i + 3 > len \/ (Delimiter(b, i) /\ i > 1))}
    IN IF len = 0 THEN [r |-> IF e THEN "Incomplete" ELSE "none", n |-> 0]
       ELSE IF len > 4 /\ b_len > 0 /\ len < Len(boundary) + b_len THEN [r |-> "none", n |-> 0]
       ELSE IF len > 4 /\ b_len > 0 /\ At(b, b_len + 1, boundary) THEN [r |-> "end", n |-> 0]
       ELSE IF stops = {} THEN [r |-> "some", n |-> len]
       ELSE IF Min(stops) > 1 THEN [r |-> "some", n |-> Min(stops) - 1]
       ELSE [r |-> "none", n |-> 0]

ReadField(b, e, f) == IF f.len # NoLength THEN read_len(b, e, f.len) ELSE read_stream(b, e)

\* InnerField::poll: some bytes, "none" for Pending, "end", or an error.
field_poll(b, e, f) ==
    IF f.taken THEN [r |-> "end", n |-> 0, f |-> f]
    ELSE LET d == IF f.eof THEN [r |-> "end", n |-> 0] ELSE ReadField(b, e, f)
             l == readline(b, e)
             left == IF d.r = "some" /\ f.len # NoLength THEN f.len - d.n ELSE f.len
         IN IF d.r # "end" THEN [r |-> d.r, n |-> d.n, f |-> [f EXCEPT !.len = left]]
            ELSE IF l.r = "some" THEN [r |-> "end", n |-> l.n, f |-> [f EXCEPT !.eof = TRUE, !.taken = TRUE]]
            ELSE [r |-> l.r, n |-> 0, f |-> [f EXCEPT !.eof = TRUE]]

-----------------------------------------------------------------------------
(* The task that takes the fields. *)

Taken == buf \o avail
AtEof == eof \/ (ended = "eof" /\ rest = <<>>)

\* PayloadBuffer::poll_stream, for task t: all that has arrived.
Pull(t) ==
    /\ avail' = <<>> /\ eof' = AtEof
    /\ waker' = IF AtEof THEN waker ELSE t

FailMp(e) == error' = e /\ mp' = "gone"

\* The boundary and the headers after it, and the field they open.
OpenField(b, st) ==
    LET h == read_headers(b, AtEof) IN
    IF h.r = "none" THEN /\ buf' = b /\ state' = st /\ mp' = "asleep" /\ UNCHANGED <<item, strong, multipart_out, error, fd>>
    ELSE IF h.r # "some" THEN /\ buf' = Drop(b, h.n) /\ state' = st /\ FailMp(h.r) /\ UNCHANGED <<item, strong, multipart_out, fd>>
    ELSE /\ buf' = Drop(b, h.n) /\ state' = "Boundary"
         /\ IF Nested \in h.lines \/ BadLength \in h.lines
            THEN FailMp(IF Nested \in h.lines THEN "Nested" ELSE "Payload") /\ UNCHANGED <<item, strong, multipart_out, fd>>
            ELSE /\ item' = new_field(h.lines) /\ strong' = strong \cup {"field"}
                 /\ multipart_out' = Append(multipart_out, [data |-> <<>>, done |-> FALSE]) /\ fd' = "run"
                 /\ mp' \in {"run", "asleep"} /\ UNCHANGED error

AfterBoundary(r, b) ==
    IF r.r = "none" THEN buf' = Drop(b, r.n) /\ mp' = "asleep" /\ UNCHANGED <<state, item, strong, multipart_out, error, fd>>
    ELSE IF r.r # "some" THEN buf' = Drop(b, r.n) /\ FailMp(r.r) /\ UNCHANGED <<state, item, strong, multipart_out, fd>>
    ELSE IF r.eof THEN buf' = Drop(b, r.n) /\ state' = "Eof" /\ mp' = "gone" /\ UNCHANGED <<item, strong, multipart_out, error, fd>>
    ELSE OpenField(Drop(b, r.n), "Headers")

\* Multipart::poll_next.  A field that was dropped is read to its end first, a chunk
\* at a time.
mp_poll_next ==
    /\ mp = "run" /\ ~panicked
    /\ IF "field" \in strong
       THEN mp' = "asleep" /\ UNCHANGED <<avail, buf, eof, state, item, strong, multipart_out, error, panicked, fd, waker>>
       ELSE IF ended = "err" /\ rest = <<>>
       THEN /\ buf' = Taken /\ avail' = <<>> /\ FailMp("Payload")
            /\ UNCHANGED <<eof, state, item, strong, multipart_out, panicked, fd, waker>>
       ELSE /\ Pull("mp")
            /\ IF item # NoField
               THEN \E p \in {field_poll(Taken, AtEof, item)} :
                    /\ buf' = Drop(Taken, p.n) /\ item' = IF p.r = "end" THEN NoField ELSE p.f
                    /\ CASE p.r \in {"some", "end"} -> UNCHANGED <<mp, error>>
                         [] p.r = "none" -> mp' = "asleep" /\ UNCHANGED error
                         [] OTHER -> FailMp(p.r)
                    /\ UNCHANGED <<state, strong, multipart_out, panicked, fd>>
               ELSE IF state = "FirstBoundary"
               THEN \E r \in {skip_until_boundary(Taken, AtEof)} :
                        AfterBoundary(r, Taken) /\ panicked' = (r.r = "panic")
               ELSE IF state = "Boundary"
               THEN AfterBoundary(read_boundary(Taken, AtEof), Taken) /\ UNCHANGED panicked
               ELSE OpenField(Taken, state) /\ UNCHANGED panicked
    /\ UNCHANGED net

-----------------------------------------------------------------------------
(* The task that has the field. *)

\* Dropping the Field, or its Safety: the task that takes the fields is woken.
Release == strong' = strong \ {"field"} /\ fd' = "none" /\ mp' = IF mp = "asleep" THEN "run" ELSE mp

\* Field::poll_next.  Without the Multipart the field is not current any more.
field_poll_next ==
    /\ fd = "run"
    /\ IF "mp" \notin strong
       THEN fd' = "asleep" /\ UNCHANGED <<avail, buf, eof, item, strong, multipart_out, mp, waker>>
       ELSE IF ended = "err" /\ rest = <<>>
       THEN buf' = Taken /\ avail' = <<>> /\ Release /\ UNCHANGED <<eof, item, multipart_out, waker>>
       ELSE /\ Pull("field")
            /\ \E p \in {field_poll(Taken, AtEof, item)} :
                /\ buf' = Drop(Taken, p.n) /\ item' = p.f
                /\ multipart_out' = [multipart_out EXCEPT ![Len(multipart_out)] =
                                       [data |-> IF p.r = "some" THEN @.data \o SubSeq(Taken, 1, p.n) ELSE @.data,
                                        done |-> p.r = "end"]]
                /\ CASE p.r = "some" -> UNCHANGED <<fd, strong, mp>>
                     [] p.r = "none" -> fd' = "asleep" /\ UNCHANGED <<strong, mp>>
                     [] OTHER -> Release
    /\ UNCHANGED <<net, state, error, panicked>>

field_drop ==
    /\ Drops /\ fd \in {"run", "asleep"} /\ Release
    /\ waker' = IF waker = "field" THEN "none" ELSE waker
    /\ UNCHANGED <<net, avail, buf, eof, state, item, multipart_out, error, panicked>>

mp_drop ==
    /\ Drops /\ mp # "gone" /\ "mp" \in strong
    /\ strong' = strong \ {"mp"} /\ mp' = "gone"
    /\ UNCHANGED <<net, avail, buf, eof, state, item, multipart_out, error, panicked, fd, waker>>

-----------------------------------------------------------------------------
(* The payload. *)

WakeReader ==
    /\ mp' = IF waker = "mp" /\ mp = "asleep" THEN "run" ELSE mp
    /\ fd' = IF waker = "field" /\ fd = "asleep" THEN "run" ELSE fd
    /\ waker' = "none"

arrive(n) ==
    /\ n <= Len(rest) /\ ended = "no"
    /\ AnyCut \/ ~At(Taken \o SubSeq(rest, 1, n), Len(Taken) + n - 3, Crlf \o Dashes)
    /\ avail' = avail \o SubSeq(rest, 1, n) /\ rest' = Drop(rest, n) /\ WakeReader
    /\ UNCHANGED <<body, ended, buf, eof, state, item, strong, multipart_out, error, panicked>>

finish ==
    /\ rest = <<>> /\ ended = "no" /\ ended' \in (IF body.cut > 0 THEN {"eof", "err"} ELSE {"eof"}) /\ WakeReader
    /\ UNCHANGED <<body, rest, avail, buf, eof, state, item, strong, multipart_out, error, panicked>>

Done == mp = "gone" /\ fd \in {"none", "asleep"} /\ ended # "no" /\ UNCHANGED multipartVars

MultipartNext ==
    \/ mp_poll_next \/ field_poll_next \/ field_drop \/ mp_drop
    \/ \E n \in 1..MaxPiece : arrive(n)
    \/ finish \/ Done

MultipartSpec == MultipartInit /\ [][MultipartNext]_multipartVars

-----------------------------------------------------------------------------
\* However the payload is cut into pieces, the fields are the parts of the body in
\* their order, and a field that was read to its end has exactly the bytes of its part.
WellFormed == At(body.close, 1, Dashes \o boundary \o Dashes)
FieldsAreParts == WellFormed =>
    /\ Len(multipart_out) <= Len(body.parts)
    /\ \A i \in DOMAIN multipart_out :
        /\ IsPrefix(multipart_out[i].data, body.parts[i].data)
        /\ multipart_out[i].done => multipart_out[i].data = body.parts[i].data

\* When the stream of fields ends without an error no part is missing.
EndsAfterTheLast == state = "Eof" => Len(multipart_out) = Len(body.parts)

\* Nobody sleeps once the payload has ended and the sleeper's last poll knew it, unless
\* it waits for the field to be dropped: nothing would wake it.
NobodyIsForgotten ==
    /\ mp = "asleep" /\ "field" \notin strong => ended = "no" \/ waker = "mp"
    /\ fd = "asleep" /\ "mp" \in strong => ended = "no" \/ waker = "field"

\* The two tasks never hold the buffer at once: a field's bytes go to its reader.
ReadersTakeTurns == strong = {"mp", "field"} /\ mp = "run" => item # NoField

MultipartSound == FieldsAreParts /\ EndsAfterTheLast /\ NobodyIsForgotten /\ ReadersTakeTurns /\ ~panicked

-----------------------------------------------------------------------------
(* A message body on its way from the handler that wrote it to the extractor   *)
(* that reads it: the Compress middleware (web/middleware/compress.rs), the    *)
(* Encoder and the Decoder of http/encoding/, which give large chunks to a     *)
(* thread of the pool, and the futures that collect a body under a limit       *)
(* (web/types/{payload,json,form}.rs and web/client/response.rs).              *)
(* A byte is a number below 50; its compressed form is 50 more; END closes a   *)
(* compressed stream.                                                          *)

CONSTANTS
    Messages,         \* what is asked for, answered and read: see the MC module
    ENCODER_INPLACE,  \* chunks of this size and more are compressed on a thread
    DECODER_INPLACE

END == 99
Tokens(b) == [i \in DOMAIN b |-> b[i] + 50]
Compressed(t) == \A i \in DOMAIN t : t[i] >= 50
CodingPlain(t) == LET bytes == SelectSeq(t, LAMBDA x : x # END) IN [i \in DOMAIN bytes |-> bytes[i] - 50]
CodingNothing == [none |-> TRUE]

VARIABLES
    msg,
    head,    \* the response head: its Content-Encoding and the size of the body
    coding_body,    \* chunks the handler's body still has
    enc,     \* the Encoder: [encoder, fut, eof]
    wire,    \* bytes under way
    closed,  \* "no", "end" of the body, or "cut": the connection failed
    dec,     \* the Decoder: [decoder, fut, eof]
    got,     \* the extractor's buffer
    rd,      \* the extractor: [err, length, limit]
    result
codingVars == <<msg, head, coding_body, enc, wire, closed, dec, got, rd, result>>
sender == <<msg, head, coding_body, enc>>
reader == <<dec, got, rd, result>>

-----------------------------------------------------------------------------
(* Which encoding. *)

quality(e) == CASE e = "br" -> 110 [] e = "gzip" -> 100 [] e = "deflate" -> 90 [] OTHER -> 10
IsCompression(e) == e \in {"br", "gzip", "deflate"}

\* AcceptEncoding::new.  A parameter is read as a bare number, which "q=..." is
\* not; what is not a number counts as zero.
AcceptEncoding(tag) ==
    [encoding |-> IF IsCompression(tag.name) THEN tag.name ELSE "identity",
     quality |-> IF tag.param = "none" THEN quality(tag.name) ELSE IF tag.param = "number" THEN tag.value ELSE 0]

\* AcceptEncoding::parse: a stable sort by quality, best first; the first entry, or
\* the first that is the encoding the middleware was made with.
coding_parse(tags, encoding) ==
    LET e == [i \in DOMAIN tags |-> AcceptEncoding(tags[i])]
        fit == {i \in DOMAIN e : encoding = "auto" \/ e[i].encoding = encoding}
        first == CHOOSE i \in fit : \A j \in fit : \/ e[i].quality > e[j].quality
                                                   \/ e[i].quality = e[j].quality /\ i <= j
    IN IF fit = {} THEN "identity" ELSE e[first].encoding

\* CompressMiddleware::call, and CompressResponse::poll when the service answers.
coding_call(m) == IF m.accept = <<>> THEN "identity" ELSE coding_parse(m.accept, m.middleware)
encoding_of(m) == IF m.explicit # "none" THEN m.explicit ELSE coding_call(m)

can_encode(m, e) == m.encoded = "none" /\ m.status \notin {"101", "204"} /\ IsCompression(e)

SizeOf(m) == CASE m.kind \in {"None", "Empty"} -> m.kind
               [] m.kind = "Bytes" -> "Sized"
               [] OTHER -> m.size

\* Encoder::response: the body the middleware answers with, and its head.
response(m, e) ==
    LET wrapped == can_encode(m, e) /\ m.kind \notin {"None", "Empty"}
    IN [encoder |-> IF wrapped THEN [held |-> <<>>, out |-> <<>>] ELSE CodingNothing,
        head |-> [ce |-> IF wrapped THEN e ELSE m.encoded,
                  size |-> IF wrapped THEN "Stream" ELSE SizeOf(m),
                  n |-> IF wrapped \/ SizeOf(m) # "Sized" THEN 0 ELSE Len(FlattenSeq(m.chunks))]]

-----------------------------------------------------------------------------
(* The Encoder. *)

\* A body that was compressed before it came here; it may be "plain" or "short".
Raw(m) == IF m.encoded = "none" \/ m.flaw = "plain" THEN m.chunks
          ELSE [i \in DOMAIN m.chunks |->
                  Tokens(m.chunks[i]) \o IF i = Len(m.chunks) /\ m.flaw = "none" THEN <<END>> ELSE <<>>]

Idle == [state |-> "none", job |-> CodingNothing, chunk |-> <<>>]

\* ContentEncoder::write: a compressor may keep what it is given for later.
write(encoder, chunk, flushed) ==
    IF flushed THEN [held |-> <<>>, out |-> encoder.out \o Tokens(encoder.held \o chunk)]
    ELSE [encoder EXCEPT !.held = @ \o chunk]

\* ContentEncoder::finish.
coding_finish(encoder) == Tokens(encoder.held) \o <<END>>

Send(t) == wire' = wire \o t
Took(e) == [e EXCEPT !.out = <<>>]

\* Encoder::poll_next when a thread has the encoder: nothing until it is done.
poll_encoder_fut ==
    /\ closed = "no" /\ ~enc.eof /\ enc.fut.state = "done"
    /\ enc' = [enc EXCEPT !.encoder = Took(enc.fut.job), !.fut = Idle]
    /\ Send(enc.fut.job.out)
    /\ UNCHANGED <<msg, head, coding_body, closed, reader>>

\* Encoder::poll_next: the next chunk of the body.
poll_encoder ==
    /\ closed = "no" /\ ~enc.eof /\ enc.fut.state = "none" /\ coding_body # <<>>
    /\ LET chunk == Head(coding_body) IN
       /\ coding_body' = Tail(coding_body)
       /\ IF enc.encoder = CodingNothing THEN Send(chunk) /\ UNCHANGED enc
          ELSE IF Len(chunk) < ENCODER_INPLACE
          THEN \E flushed \in BOOLEAN : \E e \in {write(enc.encoder, chunk, flushed)} :
                   enc' = [enc EXCEPT !.encoder = Took(e)] /\ Send(e.out)
          ELSE /\ enc' = [enc EXCEPT !.encoder = CodingNothing,
                                     !.fut = [state |-> "queued", job |-> enc.encoder, chunk |-> chunk]]
               /\ UNCHANGED wire
    /\ UNCHANGED <<msg, head, closed, reader>>

\* Encoder::poll_next at the end of the body: finish() gives what is left.
poll_encoder_end ==
    /\ closed = "no" /\ enc.fut.state = "none" /\ (enc.eof \/ coding_body = <<>>)
    /\ IF ~enc.eof /\ enc.encoder # CodingNothing
       THEN /\ enc' = [enc EXCEPT !.encoder = CodingNothing, !.eof = TRUE]
            /\ Send(coding_finish(enc.encoder)) /\ UNCHANGED closed
       ELSE closed' = "end" /\ UNCHANGED <<enc, wire>>
    /\ UNCHANGED <<msg, head, coding_body, reader>>

\* A thread of the pool compresses the chunk.
encoder_thread ==
    /\ enc.fut.state = "queued"
    /\ \E flushed \in BOOLEAN :
           enc' = [enc EXCEPT !.fut = [state |-> "done", chunk |-> <<>>,
                                       job |-> write(enc.fut.job, enc.fut.chunk, flushed)]]
    /\ UNCHANGED <<msg, head, coding_body, wire, closed, reader>>

\* The body or the connection fails.
cut ==
    /\ closed = "no" /\ msg.fails /\ closed' = "cut"
    /\ UNCHANGED <<sender, wire, reader>>

-----------------------------------------------------------------------------
(* The extractors. *)

\* mime_type() and encoding() of the head that is read.
mime_type(m) == IF m.mime = "bad" THEN "ParseError" ELSE m.mime
encoding(m) == IF mime_type(m) = "ParseError" \/ m.charset = "unknown" THEN "error"
               ELSE IF m.charset = "none" THEN "utf8" ELSE m.charset

\* PayloadConfig::check_mimetype.
check_mimetype(m) == m.wanted = "none" \/ mime_type(m) = m.wanted

LengthError(m) == IF m.length = "bad" THEN "UnknownLength" ELSE "none"

\* What each extractor refuses before it reads.  A Content-Length that is no number
\* is an error to some and nothing to others.
Bytes_new(m) == IF ~check_mimetype(m) THEN "ContentType" ELSE LengthError(m)
String_new(m) == IF ~check_mimetype(m) \/ encoding(m) = "error" THEN "ContentType" ELSE LengthError(m)
Form_new(m) == IF m.mime # "form" \/ encoding(m) = "error" THEN "ContentType" ELSE LengthError(m)
Json_new(m) == IF mime_type(m) # "json" /\ ~(mime_type(m) \in {"other", "form"} /\ m.predicate) THEN "ContentType" ELSE "none"
Message_new(m) == LengthError(m)
ClientJson_new(m) == IF mime_type(m) # "json" THEN "ContentType" ELSE "none"

refused(m) ==
    CASE m.reader = "bytes" -> Bytes_new(m)
      [] m.reader = "string" -> String_new(m)
      [] m.reader = "form" -> Form_new(m)
      [] m.reader = "json" -> Json_new(m)
      [] m.reader = "message" -> Message_new(m)
      [] OTHER -> ClientJson_new(m)

\* The Content-Length of a body whose size is known.
length_of(m, h) == IF m.length = "good" /\ h.size = "Sized" THEN h.n ELSE 0

\* Decoder::from_headers and Decoder::new.
from_headers(ce) ==
    [decoder |-> IF IsCompression(ce) THEN [ce |-> ce, ended |-> FALSE] ELSE CodingNothing, fut |-> Idle, eof |-> FALSE]

new(m, h) == [err |-> refused(m), length |-> length_of(m, h), limit |-> m.limit]

CodingInit ==
    /\ msg \in Messages
    /\ \E r \in {response(msg, encoding_of(msg))} :
        /\ head = r.head
        /\ enc = [encoder |-> r.encoder, fut |-> Idle, eof |-> FALSE]
        /\ dec = from_headers(r.head.ce)
        /\ rd = new(msg, r.head)
    /\ coding_body = (IF msg.kind \in {"None", "Empty"} THEN <<>> ELSE Raw(msg))
    /\ wire = <<>> /\ closed = "no" /\ got = <<>> /\ result = "none"

\* The first poll of the future: what new() refused, or a length over the limit.
poll_first ==
    /\ result = "none"
    /\ result' = IF rd.err # "none" THEN rd.err ELSE IF rd.length > rd.limit THEN "Overflow" ELSE "reading"
    /\ UNCHANGED <<sender, wire, closed, dec, got, rd>>

\* ReadBody::poll, and the loops of the other futures: a chunk arrives.
ReadBody(chunk) ==
    IF Len(got) + Len(chunk) > rd.limit THEN result' = "Overflow" /\ UNCHANGED got
    ELSE got' = got \o chunk /\ UNCHANGED result

\* ContentDecoder::feed_data.  What was not compressed is an error.
feed_data(decoder, t) == [decoder EXCEPT !.ended = @ \/ END \in Range(t)]

Deliver(d, chunk) == dec' = d /\ IF chunk = <<>> THEN UNCHANGED <<got, result>> ELSE ReadBody(chunk)

\* Decoder::poll_next when a thread has the decoder.
poll_decoder_fut ==
    /\ result = "reading" /\ dec.fut.state = "done"
    /\ IF dec.fut.job = CodingNothing THEN result' = "Corrupt" /\ UNCHANGED <<dec, got>>
       ELSE Deliver([dec EXCEPT !.decoder = dec.fut.job, !.fut = Idle], dec.fut.chunk)
    /\ UNCHANGED <<sender, wire, closed, rd>>

\* Decoder::poll_next: a piece of the stream.
poll_decoder ==
    /\ result = "reading" /\ dec.fut.state = "none" /\ ~dec.eof /\ wire # <<>>
    /\ \E n \in 1..Min({Len(wire), MaxPiece}) : \E t \in {SubSeq(wire, 1, n)} :
        /\ wire' = SubSeq(wire, n + 1, Len(wire))
        /\ IF dec.decoder = CodingNothing THEN Deliver(dec, t)
           ELSE IF n >= DECODER_INPLACE
           THEN /\ dec' = [dec EXCEPT !.decoder = CodingNothing,
                                      !.fut = [state |-> "queued", job |-> dec.decoder, chunk |-> t]]
                /\ UNCHANGED <<got, result>>
           ELSE IF ~Compressed(t) THEN result' = "Corrupt" /\ UNCHANGED <<dec, got>>
           ELSE Deliver([dec EXCEPT !.decoder = feed_data(dec.decoder, t)], CodingPlain(t))
    /\ UNCHANGED <<sender, closed, rd>>

decoder_thread ==
    /\ dec.fut.state = "queued"
    /\ dec' = [dec EXCEPT !.fut =
          IF Compressed(dec.fut.chunk)
          THEN [state |-> "done", job |-> feed_data(dec.fut.job, dec.fut.chunk), chunk |-> CodingPlain(dec.fut.chunk)]
          ELSE [state |-> "done", job |-> CodingNothing, chunk |-> <<>>]]
    /\ UNCHANGED <<sender, wire, closed, got, rd, result>>

\* What the collected bytes are made into: serde and the character decoder may refuse.
String_done(m) == IF m.parses THEN "ok" ELSE "Parse"
Form_done(m) == IF m.parses /\ (encoding(m) = "utf8" \/ m.decodes) THEN "ok" ELSE "Parse"
Json_done(m) == IF m.parses THEN "ok" ELSE "Parse"
Parsed(m) == CASE m.reader = "string" -> String_done(m)
               [] m.reader = "form" -> Form_done(m)
               [] m.reader \in {"json", "clientjson"} -> Json_done(m)
               [] OTHER -> "ok"

\* ContentDecoder::feed_eof: gzip knows its end; the others take what they have.
feed_eof(decoder) == decoder.ce # "gzip" \/ decoder.ended

\* Decoder::poll_next at the end of the stream, and after it.
poll_decoder_end ==
    /\ result = "reading" /\ dec.fut.state = "none" /\ wire = <<>> /\ closed # "no"
    /\ IF closed = "cut" THEN result' = "Incomplete" /\ UNCHANGED dec
       ELSE IF ~dec.eof /\ dec.decoder # CodingNothing /\ ~feed_eof(dec.decoder)
       THEN result' = "Corrupt" /\ UNCHANGED dec
       ELSE dec' = [dec EXCEPT !.eof = TRUE, !.decoder = CodingNothing] /\ result' = Parsed(msg)
    /\ UNCHANGED <<sender, wire, closed, got, rd>>

CodingDone == result \notin {"none", "reading"} /\ closed # "no" /\ UNCHANGED codingVars

CodingNext ==
    \/ poll_encoder \/ poll_encoder_fut \/ poll_encoder_end \/ encoder_thread \/ cut
    \/ poll_first \/ poll_decoder \/ poll_decoder_fut \/ poll_decoder_end \/ decoder_thread
    \/ CodingDone

CodingSpec == CodingInit /\ [][CodingNext]_codingVars
        /\ WF_codingVars(poll_encoder \/ poll_encoder_fut \/ poll_encoder_end) /\ WF_codingVars(encoder_thread)
        /\ WF_codingVars(poll_first \/ poll_decoder \/ poll_decoder_fut \/ poll_decoder_end) /\ WF_codingVars(decoder_thread)

-----------------------------------------------------------------------------
Written == FlattenSeq(msg.chunks)

\* A body that is read as a whole is the body the handler wrote: no chunk is lost,
\* doubled or overtaken while a thread has the encoder or the decoder.
ReadsWhatWasWritten ==
    /\ result = "ok" /\ msg.flaw = "none" => got = IF msg.kind \in {"None", "Empty"} THEN <<>> ELSE Written
    /\ msg.kind \notin {"None", "Empty"} => IsPrefix(got, Written)

\* The limit counts the bytes after decompression, at every moment.
LimitHolds == Len(got) <= msg.limit

\* Content-Encoding is said exactly when the bytes are compressed, the encoding is one
\* the request named or the handler chose, and a size that is promised is kept.
HonestHead ==
    /\ IsCompression(head.ce) /\ msg.flaw # "plain" => Compressed(wire)
    /\ ~IsCompression(head.ce) => \A i \in DOMAIN wire : wire[i] < 50
    /\ IsCompression(head.ce) => head.ce \in {msg.encoded, msg.explicit} \cup {msg.accept[i].name : i \in DOMAIN msg.accept}
    /\ head.size = "Sized" /\ msg.kind # "None" /\ result = "ok" => Len(got) = head.n \/ IsCompression(head.ce)

ContentSound == ReadsWhatWasWritten /\ LimitHolds /\ HonestHead
=============================================================================
