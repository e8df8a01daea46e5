---------------------------- MODULE MCMultipart -----------------------------
(* Instances of Multipart for TLC. *)
EXTENDS Multipart

CONSTANTS b1, b2

MCLists == {<<>>, <<1>>, <<2, 1>>}

\* A bucket's life with objects, and with tags and uploads; the requests that
\* make and remove directories may be abandoned.
BucketWorlds ==
    {w \in [start : {"nothing", "bucket", "nested"},
            ops : {BucketOps \cup {"put", "delete"},
                   BucketOps \cup {"putTagging", "deleteTagging", "createUpload"}},
            requests : {3}, orderly : {FALSE}, faults : {BucketOps \cup {"put"}},
            versioned : BOOLEAN, bodies : {{b1}}, parts : {{}}, lists : {{}}] :
        /\ w.versioned => w.start = "bucket" /\ "delete" \in w.ops
        /\ w.start = "nested" => "put" \in w.ops}

\* Uploads of orderly clients; parts may be abandoned.
OrderlyWorlds ==
    [start : {"bucket"}, ops : {UploadOps \cup {"put", "delete"}}, requests : {5},
     orderly : {TRUE}, faults : {{"part", "createUpload"}}, versioned : {FALSE},
     bodies : {{b1, b2}}, parts : {{1, 2}}, lists : {MCLists}]

\* An upload whose clients race each other, or the bucket's deletion; an abort
\* may be abandoned half way.
RacingWorlds ==
    {w \in [start : {"uploads"}, ops : {UploadOps, UploadOps \cup {"deleteBucket"}}, requests : {2, 3},
            orderly : {FALSE}, faults : {{"abort"}}, versioned : {FALSE},
            bodies : {{b1}}, parts : {{1}}, lists : {{<<1>>}}] :
        w.requests = IF "deleteBucket" \in w.ops THEN 2 ELSE 3}

MCWorlds == BucketWorlds \cup OrderlyWorlds \cup RacingWorlds

=============================================================================
