------------------------------ MODULE MCServer -------------------------------
(* Instances of Server for TLC. *)
EXTENDS Server

CONSTANTS k1, k2, x1, x2

bb == <<98, 98>>
a == <<97>>
aa == <<97, 32, 43, 47, 98>>  \* "a +/b"
b1 == <<98, 47, 97>>          \* "b/a"
b2 == <<98, 47, 98>>
c1 == <<99, 47, 97>>
d == <<100>>
here == <<46, 47>>            \* "./"
up == <<46, 46, 47>>          \* "../"
data == <<100, 97, 116, 97, 47>>
hidden == d \o TmpExt         \* "d.tmp-upload"

NoAsk == [prefix |-> <<>>, delimiter |-> None, max |-> 1, v2 |-> TRUE,
          marker |-> None, token |-> None, start |-> None]
Honest == [op |-> "getObject", bucket |-> bb, key |-> a, hosted |-> FALSE, wasteful |-> FALSE,
           auth |-> "header", by |-> k1, formed |-> TRUE, skew |-> 0, expires |-> 3600,
           framing |-> "none", chunks |-> <<>>, fault |-> "none", range |-> None, ask |-> NoAsk]
Object(op) == [Honest EXCEPT !.op = op, !.key = aa]
OfBucket(op) == [Honest EXCEPT !.op = op, !.key = <<>>]

Quiet == [sends |-> {}, requests |-> 1, others |-> {}, changes |-> 0, ticks |-> 0, step |-> DaySeconds,
          store |-> (a :> <<x1>>) @@ (aa :> <<x1, x2>>), anonymous |-> FALSE, faults |-> {},
          day |-> 19781, sec |-> 43200, date |-> [y |-> 2024, m |-> 2, d |-> 28, wd |-> 3]]

\* Every operation, addressed, escaped and signed in every way; connections that
\* break within the head; requests that must be refused.
Meant == {Object(op) : op \in OnObject} \cup {OfBucket(op) : op \in OnBucket}
         \cup {[OfBucket("listBuckets") EXCEPT !.bucket = <<>>]}
Ways == {[c EXCEPT !.hosted = h, !.wasteful = w, !.auth = s] :
            c \in Meant, h \in BOOLEAN, w \in BOOLEAN, s \in {"header", "presigned"}}
Wrong == {[c EXCEPT !.auth = s, !.by = k, !.formed = f] :
            c \in {Object("getObject"), Object("deleteObject")}, s \in {"none", "header", "presigned"},
            k \in {k1, k2}, f \in BOOLEAN}
         \cup {[Object(op) EXCEPT !.bucket = <<99>>] : op \in {"putObject", "getObject", "deleteObject"}}
         \cup {[OfBucket("listObjects") EXCEPT !.bucket = <<99>>], [Object("putObject") EXCEPT !.key = up \o a],
                [Object("putObject") EXCEPT !.key = <<97, 92, 97>>]}
RouteWorlds ==
    {[Quiet EXCEPT !.sends = {c}, !.anonymous = n, !.faults = {"head", "line"}] :
        c \in {w \in Ways : ~(w.op = "listBuckets" /\ w.hosted)} \cup Wrong, n \in BOOLEAN}

\* Keys with segments . and .., among objects of which one is called as the metadata
\* of another.
Dotted == {here \o a, <<98, 47>> \o here \o a, <<98, 47>> \o up \o a, up \o data \o a, up \o data \o b1,
           up \o up \o bb \o <<47>> \o data \o a, <<99, 47>> \o up \o a, <<98, 47, 46, 46>>}
Item(k, f) == [key |-> k, form |-> f]
DottedLists == {<<Item(k, "object"), Item(a, "object")>> : k \in Dotted}
DottedWorlds ==
    {[Quiet EXCEPT !.sends = {c}, !.faults = {"hangup"}, !.others = {b1}, !.changes = 1,
                   !.store = (a :> <<x1>>) @@ (b1 :> <<x2>>) @@ (a \o MetaExt :> <<x2, x1>>)] :
        c \in {[Object(op) EXCEPT !.key = k] : op \in {"getObject", "headObject", "deleteObject"}, k \in Dotted}
              \cup {[OfBucket("deleteObjects") EXCEPT !.chunks = <<l>>, !.framing = "fixed"] : l \in DottedLists}}

\* Bodies, and what may happen to them on their way.
Chunks == << <<x1>>, <<x1, x2, x2>> >>
Puts == {[Honest EXCEPT !.op = "putObject", !.key = k, !.chunks = Chunks, !.auth = s, !.framing = f, !.fault = e] :
            k \in {a, a \o b1, b2}, s \in {"header", "presigned"},
            f \in {"fixed", "trailer", "chunked", "streaming"}, e \in {"none", "cut", "torn"}}
Tampered == {[Honest EXCEPT !.op = "putObject", !.chunks = Chunks, !.framing = f, !.fault = e] :
                f \in {"fixed", "streaming"}, e \in Tampering}
Lists == {<<Item(a, "object"), Item(<<>>, "object"), Item(aa, "object")>>,
          <<Item(a, "bare"), Item(b1, "bare")>>, <<Item(a, "torn")>>, <<Item(<<>>, "object")>>,
          <<Item(aa, "object"), Item(a, "torn")>>}
Deletes == {[OfBucket("deleteObjects") EXCEPT !.chunks = <<l>>, !.framing = f, !.fault = e] :
               l \in Lists, f \in {"fixed", "chunked"}, e \in {"none", "cut"}}
BodyWorlds ==
    {[Quiet EXCEPT !.sends = {c}, !.faults = {"hangup", "head"}, !.others = {a}, !.changes = 1] :
        c \in {p \in Puts : p.fault = "torn" => p.framing # "fixed"} \cup Tampered \cup Deletes}

\* Ranges of objects of every size up to three.
Ranges == {None} \cup [from : 0..4, to : {None} \cup 0..4]
RangeWorlds ==
    {[Quiet EXCEPT !.sends = {[Honest EXCEPT !.op = o, !.key = k, !.range = r]}, !.faults = {"hangup", "head"},
                   !.store = (a :> <<>>) @@ (b1 :> <<x1>>) @@ (c1 :> <<x1, x2>>) @@ (d :> <<x2, x1, x2>>)] :
        o \in {"getObject", "headObject"}, k \in {a, b1, c1, d}, r \in Ranges}

\* Listings to their last page; while others put and delete, on fewer keys; one object
\* has the name of a temporary file.
Asks == {[NoAsk EXCEPT !.prefix = p, !.delimiter = e, !.max = m, !.v2 = v, !.start = s] :
            p \in {<<>>, <<98>>, <<98, 47>>}, e \in {None, Slash}, m \in 0..3, v \in BOOLEAN, s \in {None, b1}}
Listings(asks) == {[OfBucket("listObjects") EXCEPT !.ask = q] : q \in asks}
Holding(keys) == [k \in keys |-> <<>>]
ListWorlds ==
    {[Quiet EXCEPT !.sends = Listings({q}), !.requests = 6, !.store = Holding({a, b1, b2, c1, d, hidden})] : q \in Asks}
    \cup {[Quiet EXCEPT !.sends = Listings({q}), !.requests = 4, !.store = Holding({b1, b2, c1, hidden}),
                        !.others = {b1, b2, a}, !.changes = 2] :
             q \in {q \in Asks : q.max \in 1..2 /\ q.start = None /\ q.prefix = <<>> /\ q.v2}}

\* Presigned requests over the end of a month and of a year, sent once or twice.
Start(n, at) == [Quiet EXCEPT !.day = n, !.date = at, !.step = 43200, !.ticks = 15, !.requests = 2]
TimeWorlds ==
    {[w EXCEPT !.sends = {[Honest EXCEPT !.auth = "presigned", !.expires = e, !.skew = s]}] :
        e \in {0, 1, 43199, 43200, 172800, 604800, 604801}, s \in {0, 1},
        w \in {Start(19781, [y |-> 2024, m |-> 2, d |-> 28, wd |-> 3]),
               Start(19416, [y |-> 2023, m |-> 2, d |-> 28, wd |-> 2]),
               Start(19722, [y |-> 2023, m |-> 12, d |-> 31, wd |-> 0])}}

\* Every day from the epoch to the year 2101.
CalendarWorlds == {[Quiet EXCEPT !.day = 0, !.sec = 0, !.date = Epoch, !.ticks = 48000]}

\* A streaming put one chunk of which is altered.
ChunkWorlds == {[Quiet EXCEPT !.sends = {c}] : c \in {t \in Tampered : t.framing = "streaming" /\ t.fault = "alter"}}

\* A streaming request of which the seed signature is verified is accepted, also if a
\* chunk does not have its signature (the head of sigv4.rs).
ChunkSignaturesAccepted ==
    conn.pc = "answered" /\ conn.handler = "putObject" /\ conn.c.framing = "streaming" /\ ~conn.gone
        => conn.status = 200

MCBlocks == {x1, x2} \cup UNION {ToSet(l) : l \in Lists \cup DottedLists}
MCWorlds == RouteWorlds \cup DottedWorlds \cup BodyWorlds \cup RangeWorlds \cup ListWorlds \cup TimeWorlds \cup CalendarWorlds
=============================================================================
