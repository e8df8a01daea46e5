------------------------------- MODULE Server --------------------------------
(***************************************************************************)
(* The life of a request (main.rs, s3.rs): a client signs and sends it, the*)
(* server reads its head, authenticates and dispatches it and runs the     *)
(* handler, the client receives the answer and follows the pages of a      *)
(* listing.  A connection carries one request.  Meanwhile time passes and  *)
(* other clients change the bucket.  What the handlers do to the files is  *)
(* ObjectStore's and Multipart's subject: here an object changes at once.  *)
(* Keys have no empty segments.                                            *)
(***************************************************************************)
EXTENDS Routes, Framing, Functions, TLC

CONSTANTS
    Bucket,  \* the bucket that exists
    Block,   \* what bodies and objects are made of
    Word,    \* integers of the code are modulo this, 2^64 there
    Worlds   \* the environments: what is sent, by whom, and what else happens

ASSUME WordAssumption == Word \in Nat \ {0, 1}
ASSUME NoneAssumption == None \notin Seq(Nat) \cup Seq(Block) \cup {"STREAMING", "TRAILER", "DIGEST", "aws-chunked"}

VARIABLES
    env,      \* the world of this behaviour
    objs,     \* contents of every object of Bucket
    clock,    \* the server's: days since the epoch, second of the day
    date,     \* the date it is
    bounds,   \* requests, changes by others and ticks still to come
    conn,     \* the request on its way
    listing   \* history: pages received, markers followed, keys there all along

vars == <<env, objs, clock, date, bounds, conn, listing>>

----------------------------------------------------------------------------
(* What clients send.  A client names an operation of S3, a bucket and a   *)
(* key, and says how it signs and sends it.                                *)

OnObject == {"putObject", "copyObject", "getObject", "headObject", "deleteObject", "createMultipart",
             "uploadPart", "complete", "abort", "listParts", "getTagging", "putTagging", "deleteTagging"}
OnBucket == {"listUploads", "getVersioning", "putVersioning", "listVersions", "bucketLocation",
             "headBucket", "createBucket", "deleteBucket", "listObjects", "deleteObjects"}
Operations == OnObject \cup OnBucket \cup {"listBuckets"}

\* The method of an operation, and its parameters.
Api == [o \in Operations |->
    CASE o \in {"putObject", "copyObject", "createBucket"} -> <<"PUT", {}>>
      [] o \in {"getObject", "listObjects", "listBuckets"} -> <<"GET", {}>>
      [] o \in {"headObject", "headBucket"} -> <<"HEAD", {}>>
      [] o \in {"deleteObject", "deleteBucket"} -> <<"DELETE", {}>>
      [] o = "createMultipart" -> <<"POST", {"uploads"}>> [] o = "listUploads" -> <<"GET", {"uploads"}>>
      [] o = "uploadPart" -> <<"PUT", {"uploadId", "partNumber"}>>
      [] o = "complete" -> <<"POST", {"uploadId"}>> [] o = "abort" -> <<"DELETE", {"uploadId"}>>
      [] o = "listParts" -> <<"GET", {"uploadId"}>>
      [] o = "getTagging" -> <<"GET", {"tagging"}>> [] o = "putTagging" -> <<"PUT", {"tagging"}>>
      [] o = "deleteTagging" -> <<"DELETE", {"tagging"}>>
      [] o = "getVersioning" -> <<"GET", {"versioning"}>> [] o = "putVersioning" -> <<"PUT", {"versioning"}>>
      [] o = "listVersions" -> <<"GET", {"versions"}>> [] o = "bucketLocation" -> <<"GET", {"location"}>>
      [] o = "deleteObjects" -> <<"POST", {"delete"}>>]

Body(c) == FlattenSeq(c.chunks)

\* What a client may send.  It names no bucket to list them all, and no key for an
\* operation on a bucket; a chunk without data would be the last one.
Sendable(c) ==
    /\ c.op \in Operations /\ c.bucket \in Seq(Nat) /\ c.key \in Seq(Nat)
    /\ c.bucket = <<>> <=> c.op = "listBuckets"
    /\ c.key # <<>> <=> c.op \in OnObject
    /\ \A i \in DOMAIN c.bucket : c.bucket[i] # Slash
    /\ c.key = <<>> \/ c.key[1] # Slash
    /\ c.hosted \in BOOLEAN /\ (c.hosted => c.bucket # <<>>)
    /\ c.auth \in {"none", "header", "presigned"} /\ c.skew \in {0, 1} /\ c.expires \in Int
    /\ c.framing \in {"none", "fixed", "trailer", "chunked", "streaming"}
    /\ c.chunks \in Seq(Seq(Block) \ {<<>>}) /\ (c.framing = "none" => c.chunks = <<>>)
    /\ Len(Body(c)) < Word /\ \A e \in ToSet(Chain(c.chunks)) : e.sig \notin {Seed, NoChain}
    /\ \/ c.range = None
       \/ c.range.from \in 0..(Word - 1) /\ (c.range.to = None \/ c.range.to \in 0..(Word - 1))

\* What may happen to a body on its way: it breaks off, or is changed although its
\* client has signed it, chunk by chunk or, of one piece, its digest.
Tampering == {"drop", "repeat", "swap", "alter"}
Faulty(c, anonymous) ==
    /\ c.fault \in {"none", "cut", "torn"} \cup Tampering
    /\ c.fault = "torn" => c.framing # "fixed"
    /\ c.fault \in Tampering => /\ c.framing = "streaming" \/ (c.framing = "fixed" /\ c.op = "putObject")
                                /\ c.auth = "header" /\ ~anonymous

\* A world's clock shows the date it is, and a tick is not longer than a day; the
\* length of an object fits a word.
ASSUME WorldAssumption == \A w \in Worlds :
    /\ w.day \in Nat /\ w.date = CivilFromDays(w.day)
    /\ w.sec \in 0..(DaySeconds - 1) /\ w.step \in 0..DaySeconds
    /\ \A c \in w.sends : Sendable(c) /\ Faulty(c, w.anonymous)
    /\ \A k \in DOMAIN w.store : w.store[k] \in Seq(Block) /\ Len(w.store[k]) < Word

\* What list_objects can be asked for: list-type=2 has a token and start-after, the
\* first version a marker.
Askable(ask) ==
    /\ DOMAIN ask = {"prefix", "delimiter", "max", "v2", "marker", "token", "start"}
    /\ ask.prefix \in Seq(Nat) /\ ask.delimiter \in Nat \cup {None} /\ ask.max \in Nat /\ ask.v2 \in BOOLEAN
    /\ {ask.marker, ask.token, ask.start} \subseteq Seq(Nat) \cup {None}

\* There are finitely many objects, and the keys of others can be put.
ASSUME ListingAssumption == \A w \in Worlds :
    /\ IsFiniteSet(DOMAIN w.store) /\ DOMAIN w.store \cup w.others \subseteq Seq(Nat)
    /\ \A c \in w.sends : c.op = "listObjects" => Askable(c.ask)

\* A path is followed from directory to directory; a place is the names on the way to it
\* from buckets/, and what is above that is elsewhere.
DataDir == <<Bucket, <<100, 97, 116, 97>> >>   \* "data"
MetaDir == <<Bucket, <<109, 101, 116, 97>> >>  \* "meta"
MetaExt == <<46, 109, 101, 116, 97>>           \* ".meta"
TmpExt == <<46, 116, 109, 112, 45, 117, 112, 108, 111, 97, 100>>  \* ".tmp-upload"

Follow[place \in Seq(Seq(Nat)), name \in Seq(Nat)] ==
    CASE name \in {<<>>, <<Dot>>} -> place
      [] name = <<Dot, Dot>> /\ place # <<>> -> Front(place)
      [] OTHER -> Append(place, name)
Ends(key) == {i \in 1..(Len(key) + 1) : i = Len(key) + 1 \/ key[i] = Slash}
Way(dir, key) ==
    LET stops == {0} \cup Ends(key)
        way[i \in stops] == IF i = 0 THEN dir
                            ELSE LET j == Max({n \in stops : n < i}) IN Follow[way[j], SubSeq(key, j + 1, i - 1)]
    IN way

\* The key of what lies at a place, or none outside data/.
KeyAt[place \in Seq(Seq(Nat))] ==
    LET names == SubSeq(place, 3, Len(place)) IN
    IF ~IsStrictPrefix(DataDir, place) THEN <<>>
    ELSE Tail(FlattenSeq([i \in DOMAIN names |-> <<Slash>> \o names[i]]))
Lead(dir, key) == KeyAt[Way(dir, key)[Len(key) + 1]]

\* Clients name no file outside data/ and pass through none of its neighbours: what
\* lies there is not in this model.
Inside(key) ==
    \A i \in Ends(key) : LET place == Way(DataDir, key)[i] IN
        IsPrefix(place, DataDir) \/ IsPrefix(DataDir, place)
ASSUME PathAssumption == \A w \in Worlds : \A c \in w.sends :
    /\ c.op \in {"getObject", "headObject", "deleteObject"} => Inside(c.key)
    /\ c.op = "deleteObjects" => \A x \in ToSet(Body(c)) : Inside(x.key)

\* Keys that walk takes for temporary files, and those it lists.
Hidden(key) == IsSuffix(TmpExt, key)
Listable(keys) == {k \in keys : ~Hidden(k)}

\* Nobody puts a key whose temporary file, its path with_extension, is an object's.
Temporary(key, file) ==
    \E n \in 0..Len(key) : file = SubSeq(key, 1, n) \o TmpExt /\ (n = Len(key) \/ key[n + 1] = Dot)
ASSUME TemporaryAssumption == \A w \in Worlds :
    LET puts == w.others \cup {c.key : c \in {c \in w.sends : c.op = "putObject"}} IN
    \A k \in puts, file \in puts \cup DOMAIN w.store : ~Temporary(k, file)

\* Objects are files: no key is a directory of another.
Laid(keys) ==
    /\ \A k \in keys : ValidKey(k)
    /\ \A k, l \in keys : ~IsPrefix(k \o <<Slash>>, l)

\* So they lie at first, and others put under keys that pass valid_key.
ASSUME StoreAssumption == \A w \in Worlds :
    /\ Laid(DOMAIN w.store) /\ \A k \in w.others : ValidKey(k)
    /\ {w.requests, w.changes, w.ticks} \subseteq Nat

Text(c) ==
    CASE c.hosted -> <<Slash>> \o c.key
      [] ~c.hosted /\ c.key = <<>> -> <<Slash>> \o c.bucket
      [] OTHER -> <<Slash>> \o c.bucket \o <<Slash>> \o c.key

\* Wasteful clients escape what need not be.
RawPath(c) == [i \in DOMAIN Text(c) |->
    [c |-> Text(c)[i], esc |-> Text(c)[i] \in {Space, Plus} \/ (c.wasteful /\ Text(c)[i] # Slash)]]

\* DIGEST stands for the digest of the body, which is signed and compared with nothing.
Line(if, name, value) == IF if THEN << <<name, value>> >> ELSE <<>>
HeadLines(c) ==
    Line(TRUE, "host", IF c.hosted THEN c.bucket ELSE None)
    \o Line(c.framing = "streaming", "x-amz-content-sha256", "STREAMING")
    \o Line(c.framing \in {"trailer", "fixed"}, "x-amz-content-sha256",
            IF c.framing = "trailer" THEN "TRAILER" ELSE "DIGEST")
    \o Line(c.framing \in {"streaming", "chunked"}, "content-encoding", "aws-chunked")
    \o Line(c.op = "copyObject", "x-amz-copy-source", c.key)
    \o Line(c.range # None, "range", c.range)

Wire(c) == CASE c.framing = "none" -> <<>> [] c.framing = "fixed" -> Body(c) [] OTHER -> Chain(c.chunks)

\* The request in canonical form, and what is signed of it at a date and time.
Bare(c) == [method |-> Api[c.op][1], path |-> EncodePath(Text(c)), params |-> Api[c.op][2],
            lines |-> HeadLines(c)]
SignedNames == {"host", "x-amz-content-sha256", "x-amz-copy-source"}
Signed(c, when) ==
    LET payload == IF c.auth = "presigned" THEN "UNSIGNED" ELSE Payload(HeadLines(c)) IN
    [formed |-> c.formed, by |-> c.by, names |-> SignedNames, when |-> when, expires |-> c.expires,
     signature |-> Signature(c.by, when, Canonical(Bare(c), SignedNames, payload))]

Request(c, ask, when) ==
    [method |-> Bare(c).method, path |-> RawPath(c), params |-> Bare(c).params, ask |-> ask,
     lines |-> HeadLines(c) \o Line(c.auth = "header", "authorization", Signed(c, when))
                            \o Line(c.framing = "fixed", "content-length", Len(Body(c))),
     presigned |-> IF c.auth = "presigned" THEN <<Signed(c, when)>> ELSE <<>>]

\* What of the body's wire arrives.  Of a body with trailers the last chunk may be torn
\* where a reader that takes two more bytes for its end does not see it.
Delivered(c) ==
    LET w == Wire(c) IN
    CASE c.fault = "none" -> {w}
      [] c.fault = "cut" -> {SubSeq(w, 1, n - 1) : n \in DOMAIN w}
      [] c.fault = "torn" -> {[SubSeq(w, 1, n) EXCEPT ![n].whole = FALSE] : n \in DOMAIN w}
                             \cup IF c.framing = "trailer" THEN {w} ELSE {}
      [] c.fault = "drop" -> {RemoveAt(w, n) : n \in DOMAIN w}
      [] c.fault = "repeat" -> {InsertAt(w, n, w[n]) : n \in DOMAIN w}
      [] c.fault = "swap" -> {[w EXCEPT ![n] = w[n + 1], ![n + 1] = w[n]] : n \in 1..(Len(w) - 1)}
      [] c.fault = "alter" /\ c.framing = "streaming" -> {[w EXCEPT ![n].data = Reverse(@)] : n \in DOMAIN w}
      [] c.fault = "alter" /\ c.framing = "fixed" -> {[w EXCEPT ![n] = w[m]] : n \in DOMAIN w, m \in DOMAIN w}

\* What a line says that breaks off within its value: a number less; a range to an
\* earlier end or none; a signature that is short or missing; of a name or a word
\* nothing the server knows.
Partial(line) ==
    CASE line[1] = "content-length" -> 0..line[2]
      [] line[1] = "range" ->
           {None} \cup {[line[2] EXCEPT !.to = n] :
                           n \in {None} \cup IF line[2].to = None THEN {} ELSE 0..line[2].to}
      [] line[1] = "authorization" -> {[line[2] EXCEPT !.formed = FALSE], [line[2] EXCEPT !.signature = <<>>]}
      [] OTHER -> {None}

\* What of the head arrives if the connection breaks while it is sent: the request
\* line in part, or whole with some of the lines, the last of them in part or not.
BrokenHeads(r) ==
    {[r EXCEPT !.lines = SubSeq(@, 1, n)] : n \in 0..Len(r.lines)}
    \cup UNION {{[r EXCEPT !.lines = Append(SubSeq(@, 1, n - 1), <<@[n][1], v>>)] : v \in Partial(r.lines[n])} :
                   n \in DOMAIN r.lines}
BrokenLines(r) ==
    {[r EXCEPT !.path = SubSeq(@, 1, n), !.params = {}, !.presigned = <<>>, !.lines = <<>>] : n \in 0..Len(r.path)}
    \cup {[r EXCEPT !.params = q, !.presigned = <<>>, !.lines = <<>>] : q \in SUBSET r.params}

----------------------------------------------------------------------------

Idle == [pc |-> "idle", c |-> None, req |-> None, cut |-> "no", gone |-> FALSE,
         when |-> None, age |-> 0,  \* seconds since it was signed, until it is read
         accepted |-> FALSE, handler |-> "none", to |-> None,
         rd |-> None, got |-> <<>>, \* the body, what has been read of it
         todo |-> {}, found |-> {}, \* the keys a walk has still to look at, and has
         file |-> <<>>, size |-> 0, start |-> 0, remaining |-> 0, status |-> 0, sent |-> <<>>,
         page |-> None,
         did |-> {}]                \* history: keys changed, to what

NoListing == [next |-> None, c |-> None, pages |-> <<>>, markers |-> {}, kept |-> {}]

Init ==
    /\ env \in Worlds
    /\ objs = env.store
    /\ clock = [day |-> env.day, sec |-> env.sec]
    /\ date = env.date
    /\ bounds = [requests |-> env.requests, changes |-> env.changes, ticks |-> env.ticks]
    /\ conn = Idle
    /\ listing = NoListing

Goto(pc) == conn' = [conn EXCEPT !.pc = pc]
Answer(status) == conn' = [conn EXCEPT !.pc = "answered", !.status = status]

\* The client signs its next request, or that for the next page.
SignRequest ==
    /\ conn.pc = "idle" /\ bounds.requests > 0
    /\ \E c \in IF listing.next # None THEN {listing.c} ELSE env.sends :
          LET next == listing.next
              ask == IF next = None THEN c.ask
                     ELSE IF c.ask.v2 THEN [c.ask EXCEPT !.token = next] ELSE [c.ask EXCEPT !.marker = next]
              when == [date |-> IF c.skew = 0 THEN date ELSE NextDay(date), sec |-> clock.sec]
          IN /\ conn' = [Idle EXCEPT !.pc = "signed", !.c = c, !.when = when,
                                     !.age = IF c.skew = 0 THEN 0 ELSE -DaySeconds,
                                     !.req = Request(c, ask, when)]
             /\ listing' = IF c.op # "listObjects" \/ next # None THEN listing
                           ELSE [NoListing EXCEPT !.c = c, !.kept = DOMAIN objs]
    /\ bounds' = [bounds EXCEPT !.requests = @ - 1]
    /\ UNCHANGED <<env, objs, clock, date>>

Send ==
    /\ conn.pc = "signed"
    /\ \/ \E w \in Delivered(conn.c) :
            conn' = [conn EXCEPT !.pc = "sent", !.got = w, !.gone = (conn.c.fault \in {"cut", "torn"})]
       \/ /\ "head" \in env.faults
          /\ \E r \in BrokenHeads(conn.req) :
                conn' = [conn EXCEPT !.pc = "sent", !.req = r, !.cut = "head", !.gone = TRUE]
       \/ /\ "line" \in env.faults
          /\ \E r \in BrokenLines(conn.req) :
                conn' = [conn EXCEPT !.pc = "sent", !.req = r, !.cut = "line", !.gone = TRUE]
    /\ UNCHANGED <<env, objs, clock, date, bounds, listing>>

----------------------------------------------------------------------------
(* handle: read_request takes the end of the stream for the end of the     *)
(* head; then authentication and dispatch, up to the handler's first wait. *)

\* put_object's choice of reader, and read_body_all's.
Streaming(req) ==
    \/ Get(req.lines, "content-encoding") = "aws-chunked"
    \/ Get(req.lines, "x-amz-content-sha256") \in {"STREAMING", "TRAILER"}
Length(req) == IF Has(req.lines, "content-length") THEN Get(req.lines, "content-length") ELSE 0
PutReader(req, wire) ==
    IF Streaming(req)
    THEN Chunked(wire, IF ~env.anonymous /\ ~IsPresigned(req) /\ Payload(req.lines) = "STREAMING"
                       THEN Seed ELSE NoChain)
    ELSE Fixed(wire, Length(req))
BodyReader(req, wire) ==
    IF Get(req.lines, "content-encoding") = "aws-chunked" THEN Chunked(wire, NoChain)
    ELSE Fixed(wire, Length(req))

Wrap(n) == n % Word

\* Mutant of Span: the end is not part of the range.
SpanHalfOpen(range, size) ==
    IF range = None THEN [status |-> 200, start |-> 0, length |-> size]
    ELSE LET last == Wrap(size - 1)
             end == IF range.to = None THEN last ELSE Min2(range.to, last)
         IN [status |-> IF range.from > end THEN 416 ELSE 206, start |-> range.from,
             length |-> Wrap(end - range.from)]

\* get_object's answer to a range; parse_range takes others than these for none.
Span(range, size) ==
    IF range = None THEN [status |-> 200, start |-> 0, length |-> size]
    ELSE LET last == Wrap(size - 1)
             end == IF range.to = None THEN last ELSE Min2(range.to, last)
         IN [status |-> IF range.from > end THEN 416 ELSE 206, start |-> range.from,
             length |-> Wrap(end - range.from + 1)]

\* Keys are paths: a directory where other objects lie has a name of its own.
Directory(key) ==
    \E k \in DOMAIN objs : /\ IsStrictPrefix(key, k)
                           /\ Slash \in {key[Len(key)], k[Len(key) + 1]}
\* No object where a directory is or would have to be, or with a slash at its end.
Fits(key) ==
    /\ ~Directory(key) /\ key[Len(key)] # Slash
    /\ \A k \in DOMAIN objs : ~IsPrefix(k \o <<Slash>>, key)

\* The answers of dispatch itself.
Refusals == [name \in {"400", "405", "501"} |->
    CASE name = "400" -> 400 [] name = "405" -> 405 [] name = "501" -> 501]

With(key, blocks) == [k \in DOMAIN objs \cup {key} |-> IF k = key THEN blocks ELSE objs[k]]
Without(keys) == Restrict(objs, DOMAIN objs \ keys)

Here(to) == to.bucket = Bucket

\* Only a put asks valid_key: other keys lead where the system takes their paths, from
\* data/ and back to it.  The object a key's path leads to, if it passes directories only,
\* and the objects a delete unlinks: its data and what it takes for its metadata.
Target(key) == IF Plain(key) THEN key ELSE Lead(DataDir, key)
Unlinked(key) == IF Plain(key) THEN {key} ELSE {Target(key), Lead(MetaDir, key \o MetaExt)}
IsDirectory(place) ==
    IsPrefix(place, DataDir) \/ \E k \in DOMAIN objs : IsStrictPrefix(KeyAt[place] \o <<Slash>>, k)
Passable(key) ==
    LET way == Way(DataDir, key) IN \A i \in Ends(key) \ {Len(key) + 1} : IsDirectory(way[i])
There(to) == Here(to) /\ Target(to.key) \in DOMAIN objs /\ Passable(to.key)
Opens(to) == Here(to) /\ IsDirectory(Way(DataDir, to.key)[Len(to.key) + 1]) /\ Passable(to.key)

Answered(in, status) == [in EXCEPT !.pc = "answered", !.status = status, !.got = <<>>]
Reading(in, rd) == [in EXCEPT !.pc = "body", !.rd = rd, !.got = <<>>]

\* The handlers, each up to where it first waits.  A put that is refused reads
\* the body first.
PutObject(to, req, in) ==
    IF Here(to) /\ ValidKey(to.key) THEN Reading(in, PutReader(req, in.got))
    ELSE [Reading(in, BodyReader(req, in.got)) EXCEPT !.status = IF Here(to) THEN 400 ELSE 404]

DeleteObjects(req, in) == Reading(in, BodyReader(req, in.got))

\* A directory opens as an object does, and then cannot be read.
GetObject(to, req, in, headOnly) ==
    CASE There(to) ->
           LET file == objs[Target(to.key)]  span == Span(Get(req.lines, "range"), Len(file)) IN
           [in EXCEPT !.pc = IF span.status = 416 \/ headOnly THEN "answered" ELSE "send",
                      !.got = <<>>, !.file = file, !.status = span.status,
                      !.start = span.start, !.size = span.length, !.remaining = span.length]
      [] ~There(to) /\ Opens(to) -> Answered(in, IF headOnly THEN 200 ELSE 500)
      [] OTHER -> Answered(in, 404)

DeleteObject(to, in) ==
    CASE There(to) -> [Answered(in, 204) EXCEPT !.did = {<<k, None>> : k \in Unlinked(to.key) \cap DOMAIN objs}]
      [] Here(to) /\ ~There(to) -> Answered(in, IF Opens(to) THEN 500 ELSE 204)
      [] OTHER -> Answered(in, 404)

\* walk passes over what has the name of a temporary file, objects too.
ListObjects(to, in) ==
    IF Here(to) THEN [in EXCEPT !.pc = "walk", !.todo = Listable(DOMAIN objs), !.got = <<>>]
    ELSE Answered(in, 404)

\* What the others do is in ObjectStore and Multipart; here they only answer.
Handler(name, to, req, in) ==
    LET at == [in EXCEPT !.handler = name, !.to = to] IN
    CASE name = "putObject" -> PutObject(to, req, at)
      [] name = "deleteObjects" -> DeleteObjects(req, at)
      [] name \in {"getObject", "headObject"} -> GetObject(to, req, at, name = "headObject")
      [] name = "deleteObject" -> DeleteObject(to, at)
      [] name = "listObjects" -> ListObjects(to, at)
      [] name \in DOMAIN Refusals -> Answered(at, Refusals[name])
      [] OTHER -> Answered(at, 200)

Accept ==
    /\ conn.pc = "sent"
    /\ \E refused \in {Authenticate(conn.req, clock.day * DaySeconds + clock.sec, env.anonymous)} :
       \E to \in {Addressing(Get(conn.req.lines, "host"), Decode(conn.req.path))} :
       \E name \in {Route(conn.req, to)} :
       \E ready \in {Handler(name, to, conn.req, [conn EXCEPT !.accepted = TRUE])} :
         IF refused = 200
         THEN /\ conn' = ready
              /\ objs' = Without({d[1] : d \in ready.did})
         ELSE /\ conn' = Answered(conn, refused)
              /\ UNCHANGED objs
    /\ UNCHANGED <<env, clock, date, bounds, listing>>

----------------------------------------------------------------------------
(* The handlers that take several steps.                                   *)

\* Mutant of ReadBody: what was announced must come.
ReadBodyInsisting ==
    LET r == Read(conn.rd) IN
    /\ conn.pc = "body"
    /\ IF r.rd.failed THEN Answer(500)
       ELSE conn' = [conn EXCEPT !.rd = r.rd, !.got = @ \o r.got,
                                 !.pc = IF r.got = <<>> /\ r.rd.remaining = 0 THEN "read" ELSE "body"]
    /\ UNCHANGED <<env, objs, clock, date, bounds, listing>>

\* One read.  An error, that of a connection reset too, is the handler's: handle
\* answers 500.
ReadBody ==
    LET r == Read(conn.rd) IN
    /\ conn.pc = "body"
    /\ \/ IF r.rd.failed THEN Answer(500)
          ELSE conn' = [conn EXCEPT !.rd = r.rd, !.got = @ \o r.got,
                                    !.pc = IF r.got = <<>> THEN "read" ELSE "body"]
       \/ conn.gone /\ Answer(500)
    /\ UNCHANGED <<env, objs, clock, date, bounds, listing>>

\* finish; a body that was only drained ends in the error found before.
Commit ==
    /\ conn.pc = "read" /\ conn.handler = "putObject"
    /\ IF conn.status = 0 /\ Fits(conn.to.key)
       THEN /\ objs' = With(conn.to.key, conn.got)
            /\ conn' = [conn EXCEPT !.pc = "answered", !.status = 200, !.did = {<<conn.to.key, conn.got>>}]
       ELSE UNCHANGED objs /\ Answer(IF conn.status = 0 THEN 500 ELSE conn.status)
    /\ UNCHANGED <<env, clock, date, bounds, listing>>

\* Where delete_objects finds its keys: in whole <Object> elements that name one, and
\* if there are none, in <Key> elements anywhere.
Items(read) ==
    LET whole == {i \in DOMAIN read : read[i].form = "object" /\ read[i].key # <<>>} IN
    IF whole # {} THEN whole ELSE DOMAIN read

\* delete_objects: one after the other; an error is reported and the rest go on.
DeleteNext ==
    /\ conn.pc = "read" /\ conn.handler = "deleteObjects"
    /\ LET items == Items(conn.got)  i == Min(items)  k == conn.got[i].key IN
       IF items = {} THEN UNCHANGED objs /\ Answer(200)
       ELSE LET gone == IF There([bucket |-> conn.to.bucket, key |-> k]) THEN Unlinked(k) \cap DOMAIN objs ELSE {} IN
            /\ objs' = Without(gone)
            /\ conn' = [conn EXCEPT !.got = IF items = {i} THEN <<>> ELSE SubSeq(@, i + 1, Len(@)),
                                    !.did = @ \cup {<<g, None>> : g \in gone}]
    /\ UNCHANGED <<env, clock, date, bounds, listing>>

\* get_object's loop, one read; a client that has left makes the write fail.
SendBlock ==
    LET at == conn.start + Len(conn.sent) IN
    /\ conn.pc = "send"
    /\ \/ IF conn.remaining = 0 \/ at >= Len(conn.file) THEN Goto("answered")
          ELSE conn' = [conn EXCEPT !.sent = Append(@, conn.file[at + 1]), !.remaining = @ - 1]
       \/ conn.gone /\ conn' = Idle
    /\ UNCHANGED <<env, objs, clock, date, bounds, listing>>

\* walk: one entry of a directory, which may be gone before its turn or between
\* read_dir and metadata, and what has come since is found or not.
Walk ==
    /\ conn.pc = "walk"
    /\ \/ \E k \in conn.todo \cap DOMAIN objs :
            conn' = [conn EXCEPT !.todo = @ \ {k}, !.found = @ \cup {k}]
       \/ \E k \in conn.todo \ DOMAIN objs :
            conn' = [conn EXCEPT !.todo = @ \ {k}] \/ Answer(500)
       \/ \E k \in Listable(DOMAIN objs) \ (conn.todo \cup conn.found) :
            conn' = [conn EXCEPT !.found = @ \cup {k}]
    /\ UNCHANGED <<env, objs, clock, date, bounds, listing>>

\* list_objects' marker: a continuation token goes before start-after.
Marker(ask) == IF ~ask.v2 THEN ask.marker ELSE IF ask.token # None THEN ask.token ELSE ask.start

ListPage ==
    LET ask == conn.req.ask
        p == Page(conn.found, [prefix |-> ask.prefix, delimiter |-> ask.delimiter, max |-> ask.max,
                               marker |-> Marker(ask)])
    IN /\ conn.pc = "walk" /\ conn.todo = {}
       /\ conn' = [conn EXCEPT !.pc = "answered", !.status = 200, !.page = p]
       /\ UNCHANGED <<env, objs, clock, date, bounds, listing>>

----------------------------------------------------------------------------

\* The client has the answer, or sends a presigned request once more and reads the next.
Receive ==
    /\ conn.pc = "answered"
    /\ \/ /\ conn' = Idle
          /\ listing' = IF conn.page = None \/ conn.gone THEN listing
                        ELSE [listing EXCEPT !.next = conn.page.next,
                                             !.pages = Append(@, conn.page.entries),
                                             !.markers = @ \cup ({conn.page.next} \ {None})]
          /\ UNCHANGED bounds
       \/ /\ conn.c.auth = "presigned" /\ conn.cut = "no" /\ bounds.requests > 0
          /\ conn' = [Idle EXCEPT !.pc = "signed", !.c = conn.c, !.when = conn.when,
                                  !.req = conn.req, !.age = conn.age]
          /\ bounds' = [bounds EXCEPT !.requests = @ - 1]
          /\ UNCHANGED listing
    /\ UNCHANGED <<env, objs, clock, date>>

\* The client goes away while the server is at work.
Hangup ==
    /\ "hangup" \in env.faults /\ ~conn.gone /\ conn.pc \notin {"idle", "signed"}
    /\ conn' = [conn EXCEPT !.gone = TRUE]
    /\ UNCHANGED <<env, objs, clock, date, bounds, listing>>

\* Other clients.
Change ==
    /\ bounds.changes > 0
    /\ \E k \in env.others :
          /\ k \in DOMAIN objs \/ Fits(k)
          /\ objs' = IF k \in DOMAIN objs THEN Without({k}) ELSE With(k, <<>>)
          /\ listing' = [listing EXCEPT !.kept = @ \ {k}]
    /\ bounds' = [bounds EXCEPT !.changes = @ - 1]
    /\ UNCHANGED <<env, clock, date, conn>>

Tick ==
    LET sec == clock.sec + env.step  midnight == sec >= DaySeconds IN
    /\ bounds.ticks > 0 /\ conn.pc \in {"idle", "signed", "sent"}
    /\ clock' = IF midnight THEN [day |-> clock.day + 1, sec |-> sec - DaySeconds]
                ELSE [clock EXCEPT !.sec = sec]
    /\ date' = IF midnight THEN NextDay(date) ELSE date
    /\ conn' = IF conn.pc = "idle" THEN conn ELSE [conn EXCEPT !.age = @ + env.step]
    /\ bounds' = [bounds EXCEPT !.ticks = @ - 1]
    /\ UNCHANGED <<env, objs, listing>>

Serve == Accept \/ ReadBody \/ Commit \/ DeleteNext \/ SendBlock \/ Walk \/ ListPage
Next == SignRequest \/ Send \/ Serve \/ Receive \/ Hangup \/ Change \/ Tick

Spec == Init /\ [][Next]_vars

\* The connection's thread runs; where it waits for the client there is no timeout, and
\* no fairness, until the connection is closed.
Waits == conn.pc \in {"body", "send"} /\ ~conn.gone
FairSpec == Spec /\ WF_vars(Serve /\ ~Waits)

----------------------------------------------------------------------------
(* Properties.                                                             *)

Decided == conn.pc \notin {"idle", "signed", "sent"}
Whole == conn.cut = "no"
Blocks(got) == \A i \in DOMAIN got : \E c \in env.sends : got[i] \in ToSet(Body(c))

TypeOK ==
    /\ Laid(DOMAIN objs)
    /\ clock.sec \in 0..(DaySeconds - 1) /\ date.m \in 1..12 /\ date.d \in 1..MonthDays(date.y, date.m)
    /\ bounds.requests \in 0..env.requests /\ bounds.changes \in 0..env.changes
    /\ bounds.ticks \in 0..env.ticks
    /\ conn.pc \in {"idle", "signed", "sent", "body", "read", "send", "walk", "answered"}
    /\ Decided => conn.status \in {0, 200, 204, 206, 400, 403, 404, 405, 416, 500, 501}
    /\ conn.rd # None => Blocks(conn.got) /\ conn.rd.pos <= Len(conn.rd.buf)
    /\ conn.todo \cap conn.found = {} /\ {conn.start, conn.remaining} \subseteq 0..(Word - 1)
    /\ listing.next \in listing.markers \cup {None}

\* What a client asks for is what the server does: its operation, its bucket, its
\* key, however it escapes them and whether the bucket is in the host or the path.
AsIntended ==
    Decided /\ conn.accepted /\ Whole =>
        conn.handler = conn.c.op /\ conn.to = [bucket |-> conn.c.bucket, key |-> conn.c.key]

\* A request signed with a key the server knows over its canonical form is let in,
\* however it is escaped, if it arrives whole and in time.
HonestAccepted ==
    Decided /\ Whole /\ conn.c.formed /\ conn.c.by \in AccessKeys /\ conn.c.auth = "header" => conn.accepted

\* Objects change only as clients ask: a connection that breaks within a head,
\* which the server takes for a complete one, changes no object its client did not
\* ask to change in this way, if requests are authenticated.  A put changes the object
\* of its key; a delete those its key's paths lead to, others than the key's own if it
\* has segments . or .., which a delete does not refuse.  A server without
\* authentication takes half a key for a key, and a part for an object.
ChangesAreAsked ==
    \A d \in conn.did :
        \/ conn.c.op = "putObject" /\ d[2] # None /\ d[1] = conn.c.key
        \/ conn.c.op = "deleteObject" /\ d[2] = None /\ d[1] \in Unlinked(conn.c.key)
        \/ conn.c.op = "deleteObjects" /\ d[2] = None /\ \E x \in ToSet(Body(conn.c)) : d[1] \in Unlinked(x.key)
        \/ ~Whole /\ env.anonymous

\* A body of one piece that was changed on its way: its digest is signed, and the server
\* does not compare it with the body.
Unseen(c) == c.fault \in Tampering /\ c.framing = "fixed"

\* What is committed is what was sent, or the beginning of it if the connection
\* broke; no chunk is lost, repeated, moved or altered under its chained signature.
\* What changes a body of one piece goes unseen.
CommittedIsSent ==
    \A d \in conn.did : d[2] # None /\ ~Unseen(conn.c) => IsPrefix(d[2], Body(conn.c))

\* And a body sent in chunks is committed whole or not at all.
ChunkedIsWhole ==
    \A d \in conn.did : d[2] # None /\ conn.c.framing # "fixed" /\ Whole => d[2] = Body(conn.c)

\* An answer with a range, or without one, carries that part of the object, and
\* as many blocks as it announces, if there is an object; an empty one asked for a
\* range is an exception, see the README.
RangeIsSlice ==
    LET range == conn.c.range
        empty == range # None /\ conn.file = <<>>
        to == IF range = None \/ range.to = None THEN Len(conn.file) - 1
              ELSE Min2(range.to, Len(conn.file) - 1)
        part == SubSeq(conn.file, IF range = None THEN 1 ELSE range.from + 1, to + 1)
    IN conn.pc = "answered" /\ Whole /\ conn.handler = "getObject" /\ conn.status \notin {404, 500} /\ ~empty =>
          /\ conn.status = IF range = None THEN 200 ELSE IF part = <<>> THEN 416 ELSE 206
          /\ conn.status # 416 => conn.sent = part /\ conn.size = Len(part)

\* A listing followed to its end has listed every key that was there all along,
\* itself or by its common prefix - but for the keys the server returned as
\* markers, each of which the next page skips, and for those with the ending of
\* temporary files, which can be put and read and are on no page.
PagesLoseOnlyMarkers ==
    listing.pages # <<>> /\ listing.next = None =>
        \A k \in Matching(Listable(listing.kept), [prefix |-> listing.c.ask.prefix,
                                        marker |-> Marker(listing.c.ask)]) \ listing.markers :
            Entry(k, listing.c.ask) \in UNION ToSet(listing.pages)

\* No key and no common prefix is on two pages, whatever other clients change.
NothingListedTwice ==
    \A i, j \in DOMAIN listing.pages : i < j => listing.pages[i] \cap listing.pages[j] = {}

\* A presigned request works as long as its client was told, counted in seconds
\* from the moment it was signed, over the ends of months and years, and no longer.
PresignedWindow ==
    ~env.anonymous /\ Decided /\ Whole /\ conn.c.auth = "presigned" /\ conn.c.formed
        /\ conn.c.by \in AccessKeys =>
        (conn.accepted <=> 1 <= conn.c.expires /\ conn.c.expires <= 604800 /\ conn.age <= conn.c.expires)

\* The dates the server writes and reads are those of the calendar.
CalendarRight == CivilFromDays(clock.day) = date /\ DaysFromCivil(date) = clock.day

\* Every request the server has is answered or its connection closed, also one whose
\* connection broke before the end of its head or body and a walk others keep changing -
\* unless it waits for a client that neither goes on nor goes away.
RequestsEnd == conn.pc \notin {"idle", "signed"} ~> conn.pc \in {"idle", "signed", "answered"} \/ Waits
=============================================================================
