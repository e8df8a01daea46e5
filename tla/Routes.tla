------------------------------- MODULE Routes --------------------------------
(***************************************************************************)
(* From the head of a request to the handler that serves it: the decoding  *)
(* of the path (url.rs), SigV4 verification (sigv4.rs), the order of the   *)
(* checks in main.rs, and dispatch (s3.rs).  Characters are their codes.   *)
(* A digest or a signature is the term it is computed from.                *)
(***************************************************************************)
EXTENDS Listing, Calendar

CONSTANT AccessKeys  \* the credentials the server knows; a key stands for its secret

Space == 32
Plus == 43
Dot == 46
Slash == 47
Backslash == 92

\* The first rule that applies.
FirstOf(rules) == rules[Min({i \in DOMAIN rules : rules[i][1]})][2]

Has(lines, name) == \E i \in DOMAIN lines : lines[i][1] = name

\* The value of a header: the last line of that name, or None.
Get(lines, name) ==
    IF Has(lines, name) THEN lines[Max({i \in DOMAIN lines : lines[i][1] = name})][2] ELSE None

----------------------------------------------------------------------------
(* Paths: on the wire a character is escaped or not.                       *)

\* percent_decode: a plus that is not escaped is a space.
Decode(raw) == [i \in DOMAIN raw |-> IF raw[i].c = Plus /\ ~raw[i].esc THEN Space ELSE raw[i].c]

\* encode_path_sigv4: all but the unreserved characters and the slash.
EncodePath(path) == [i \in DOMAIN path |-> [c |-> path[i], esc |-> path[i] \in {Space, Plus}]]

\* Mutant of CanonicalUri: it is the path as it came.
CanonicalUriOfWire(raw) == raw

\* The path as the signature has it, however the client escaped it.
CanonicalUri(raw) == EncodePath(Decode(raw))

\* resolve_addressing: leading slashes go; the bucket is in the host or comes first.
Addressing(host, path) ==
    LET from == Min({i \in DOMAIN path : path[i] # Slash} \cup {Len(path) + 1})
        rest == SubSeq(path, from, Len(path))
        slashes == {i \in DOMAIN rest : rest[i] = Slash}
    IN CASE host # None -> [bucket |-> host, key |-> rest]
         [] host = None /\ slashes = {} -> [bucket |-> rest, key |-> <<>>]
         [] OTHER -> [bucket |-> SubSeq(rest, 1, Min(slashes) - 1),
                      key |-> SubSeq(rest, Min(slashes) + 1, Len(rest))]

\* A key none of whose segments is "." or "..".
Plain(key) ==
    \A i, j \in DOMAIN key :
       /\ i <= j /\ \A n \in i..j : key[n] = Dot
       /\ i = 1 \/ key[i - 1] = Slash
       /\ j = Len(key) \/ key[j + 1] = Slash
       => j - i > 1

\* valid_key: such a key, of at most 1024 characters, none of them NUL or a backslash.
ValidKey(key) ==
    key # <<>> /\ Len(key) <= 1024 /\ ToSet(key) \cap {0, Backslash} = {} /\ Plain(key)

----------------------------------------------------------------------------
(* Authentication.  Signed values are kept with the request: by whom, when *)
(* (a date and a second of its day), which headers, and the signature.     *)

\* canonical_request_pairs, without the query's X-Amz-Signature.
Canonical(req, names, payload) ==
    [method |-> req.method, uri |-> CanonicalUri(req.path), query |-> req.params,
     headers |-> [n \in names |-> Get(req.lines, n)], payload |-> payload]

\* signing_key, of the day; string_to_sign under it
SigningKey(by, date) == <<by, date>>
Signature(by, when, canonical) == <<SigningKey(by, when.date), when, canonical>>

Payload(lines) ==
    IF Has(lines, "x-amz-content-sha256") THEN Get(lines, "x-amz-content-sha256") ELSE "UNSIGNED"

\* The statuses of parse_authorization and parse_presigned.
ParseAuthorization(lines) ==
    IF ~Has(lines, "authorization") THEN 403
    ELSE IF Get(lines, "authorization").formed THEN 200 ELSE 400
IsPresigned(req) == req.presigned # <<>>
ParsePresigned(a) == IF a.formed THEN 200 ELSE 400

Matches(req, a, payload) == a.signature = Signature(a.by, a.when, Canonical(req, a.names, payload))
Verify(req, a) == Matches(req, a, Payload(req.lines))
VerifyPresigned(req, a) == Matches(req, a, "UNSIGNED")

\* Mutant of CheckHeader: a request without the header passes.
CheckHeaderIfAny(req) ==
    LET a == Get(req.lines, "authorization") IN
    IF ~Has(req.lines, "authorization") \/ Verify(req, a) THEN 200 ELSE 403

\* The Authorization header, as handle takes it: the status it ends in.
CheckHeader(req) ==
    LET a == Get(req.lines, "authorization") IN
    IF ParseAuthorization(req.lines) # 200 THEN ParseAuthorization(req.lines)
    ELSE IF a.by \in AccessKeys /\ Verify(req, a) THEN 200 ELSE 403

\* authenticate_presigned
CheckPresigned(req, now) ==
    LET a == Head(req.presigned)  at == AmzSeconds(a.when.date, a.when.sec) IN
    IF ParsePresigned(a) # 200 THEN ParsePresigned(a)
    ELSE IF a.by \notin AccessKeys THEN 403
    ELSE IF at = -1 \/ a.expires < 1 \/ a.expires > 604800 THEN 400
    ELSE IF now > at + a.expires \/ ~VerifyPresigned(req, a) THEN 403 ELSE 200

\* handle, up to dispatch
Authenticate(req, now, anonymous) ==
    CASE anonymous -> 200
      [] ~anonymous /\ IsPresigned(req) -> CheckPresigned(req, now)
      [] OTHER -> CheckHeader(req)

----------------------------------------------------------------------------
(* dispatch                                                                *)

\* The query's parameters come before the method; what no rule knows is ignored.
Rules(m, bucket, obj, q, copy) ==
    << <<"uploads" \in q, IF m = "POST" /\ obj THEN "createMultipart"
                          ELSE IF m = "GET" /\ ~obj THEN "listUploads" ELSE "400">>,
       <<"uploadId" \in q, CASE m = "PUT" -> IF "partNumber" \in q THEN "uploadPart" ELSE "400"
                             [] m = "POST" -> "complete" [] m = "DELETE" -> "abort"
                             [] m = "GET" -> "listParts" [] OTHER -> "400">>,
       <<"tagging" \in q, CASE m = "GET" /\ obj -> "getTagging" [] m = "PUT" /\ obj -> "putTagging"
                            [] m = "DELETE" /\ obj -> "deleteTagging" [] OTHER -> "501">>,
       <<"versioning" \in q /\ ~obj, CASE m = "GET" -> "getVersioning" [] m = "PUT" -> "putVersioning"
                                       [] OTHER -> "405">>,
       <<"versions" \in q /\ ~obj /\ m = "GET", "listVersions">>,
       <<m = "GET" /\ bucket = <<>>, "listBuckets">>,
       <<m = "GET" /\ ~obj /\ "location" \in q, "bucketLocation">>,
       <<m = "HEAD" /\ ~obj, "headBucket">>, <<m = "PUT" /\ ~obj, "createBucket">>,
       <<m = "DELETE" /\ ~obj, "deleteBucket">>, <<m = "GET" /\ ~obj, "listObjects">>,
       <<m = "POST" /\ ~obj /\ "delete" \in q, "deleteObjects">>,
       <<m = "PUT" /\ copy, "copyObject">>, <<m = "PUT", "putObject">>,
       <<m = "GET", "getObject">>, <<m = "HEAD", "headObject">>, <<m = "DELETE", "deleteObject">>,
       <<TRUE, "501">> >>

\* Mutant of Route: tags are a parameter like any it does not know.
RouteWithoutTagging(req, to) ==
    FirstOf(Rules(req.method, to.bucket, to.key # <<>>, req.params \ {"tagging"},
                  Has(req.lines, "x-amz-copy-source")))

Route(req, to) ==
    FirstOf(Rules(req.method, to.bucket, to.key # <<>>, req.params,
                  Has(req.lines, "x-amz-copy-source")))
=============================================================================
