----------------------------- MODULE Multipart ------------------------------
(***************************************************************************)
(* Multipart uploads (multipart.rs) on the bucket's tree.  Handlers run in *)
(* threads of their own and share nothing but the file system; no lock     *)
(* orders them.  A request may be abandoned between any two steps.         *)
(***************************************************************************)
EXTENDS BucketTree

CONSTANT None  \* no object, no part (of AtomicUploads)

ASSUME NoneAssumption == None \notin Bodies \cup {Empty}

OnUpload(op, u) == [Plain(op) EXCEPT !.up = u]
Known(u) == life[u] # "none"

\* What the behaviour starts from, all of it made by requests before.
Found(start) ==
    LET bucket == {Root, Marker, Data, MetaDir}
        uploads == UNION {Upto(Parts(u)) \cup {Info(u)} : u \in Uploads}
    IN CASE start = "nothing" -> {} [] start = "bucket" -> bucket
         [] start = "uploads" -> bucket \cup uploads
         [] start = "nested" -> bucket \cup {Dir, Nest}

Init ==
    /\ env \in Worlds
    /\ fs = [p \in Found(env.start) |-> Empty]
    /\ left = env.requests
    /\ job = [t \in Threads |-> NoJob]
    /\ stray = FALSE /\ stored = FALSE
    /\ life = [u \in Uploads |-> IF env.start = "uploads" THEN "known" ELSE "none"]
    /\ acked = [u \in Uploads |-> [n \in PartNumbers |-> Empty]]
    /\ settled = [u \in Uploads |-> [n \in PartNumbers |-> TRUE]]

----------------------------------------------------------------------------
(* create_multipart; new_upload_id never returns an identifier twice.      *)

CreateUpload(t) ==
    /\ \E u \in Uploads :
        /\ ~Known(u) /\ Upload(u) \notin tree
        /\ \A o \in Active({"createUpload"}) : job[o].up # u
        /\ Begin(t, OnUpload("createUpload", u), Marker \in tree, "mkupload")
    /\ UNCHANGED <<fs, env, stored, uploadHistory>>

MakeUpload(t) ==
    /\ job[t].pc = "mkupload"
    /\ fs' = Make(fs, Upto(Parts(job[t].up)))
    /\ Goto(t, "info")
    /\ UNCHANGED <<env, left, history>>

WriteInfo(t) ==
    LET u == job[t].up  ok == Upload(u) \in tree IN
    /\ job[t].pc = "info"
    /\ fs' = IF ok THEN Make(fs, {Info(u)}) ELSE fs
    /\ life' = IF ok THEN [life EXCEPT ![u] = "known"] ELSE life
    /\ Done(t)
    /\ UNCHANGED <<env, left, stray, stored, acked, settled>>

----------------------------------------------------------------------------
(* upload_part.                                                            *)

UploadPart(t) ==
    /\ \E u \in Uploads, n \in env.parts, b \in env.bodies :
        /\ Known(u)
        /\ Begin(t, [OnUpload("part", u) EXCEPT !.num = n, !.body = b],
                 Upload(u) \in tree, "openpart")
        /\ settled' = [settled EXCEPT ![u][n] = FALSE]
    /\ UNCHANGED <<fs, env, stored, life, acked>>

\* Mutant of OpenPart: it makes the directory as create_multipart does.
OpenPartMakingDirs(t) ==
    LET p == Part(job[t].up, job[t].num) IN
    /\ job[t].pc = "openpart"
    /\ fs' = Write(Make(fs, Upto(p)), p, Empty)
    /\ job' = [job EXCEPT ![t].pc = "writepart", ![t].linked = TRUE]
    /\ UNCHANGED <<env, left, history>>

\* The part is opened and truncated; its directory must be there.
OpenPart(t) ==
    /\ job[t].pc = "openpart"
    /\ IF Parts(job[t].up) \in tree
       THEN /\ fs' = Write(fs, Part(job[t].up, job[t].num), Empty)
            /\ job' = [job EXCEPT ![t].pc = "writepart", ![t].linked = TRUE]
       ELSE UNCHANGED fs /\ Done(t)
    /\ UNCHANGED <<env, left, history>>

WritePart(t) ==
    /\ job[t].pc = "writepart"
    /\ fs' = IF job[t].linked THEN Write(fs, Part(job[t].up, job[t].num), job[t].body) ELSE fs
    /\ job' = [job EXCEPT ![t].pc = "partmeta", ![t].linked = FALSE]
    /\ UNCHANGED <<env, left, history>>

\* Mutant of WritePartMeta: a digest that is there already stays.
WritePartMetaOnce(t) ==
    LET u == job[t].up  n == job[t].num  ok == Parts(u) \in tree IN
    /\ job[t].pc = "partmeta"
    /\ fs' = IF ok /\ PartMeta(u, n) \notin tree THEN Write(fs, PartMeta(u, n), job[t].body) ELSE fs
    /\ acked' = IF ok THEN [acked EXCEPT ![u][n] = job[t].body] ELSE acked
    /\ settled' = [settled EXCEPT ![u][n] = ok]
    /\ Done(t)
    /\ UNCHANGED <<env, left, stray, stored, life>>

\* Its digest and size; the file is open no longer than it takes to write them.
WritePartMeta(t) ==
    LET u == job[t].up  n == job[t].num  ok == Parts(u) \in tree IN
    /\ job[t].pc = "partmeta"
    /\ fs' = IF ok THEN Write(fs, PartMeta(u, n), job[t].body) ELSE fs
    /\ acked' = IF ok THEN [acked EXCEPT ![u][n] = job[t].body] ELSE acked
    /\ settled' = [settled EXCEPT ![u][n] = ok]
    /\ Done(t)
    /\ UNCHANGED <<env, left, stray, stored, life>>

----------------------------------------------------------------------------
(* complete_multipart: its writer is put_object_writer's, see BucketTree.  *)

Complete(t) ==
    /\ Writing = {}
    /\ \E u \in Uploads, list \in env.lists :
        /\ Known(u)
        /\ Begin(t, [OnUpload("complete", u) EXCEPT !.list = list], Upload(u) \in tree, "writer")
    /\ UNCHANGED <<fs, env, stored, uploadHistory>>

\* put_object_writer asks for the bucket again.
OpenWriter(t) ==
    /\ job[t].pc = "writer"
    /\ Check(t, Marker \in tree, "mkparent")
    /\ UNCHANGED <<fs, env, left, history>>

Listed(t) == job[t].list[job[t].at]
PartsLeft(t) == job[t].at <= Len(job[t].list)

\* Mutant of PartExists: the upload's temporary file is forgotten.
PartExistsNoAbort(t) ==
    /\ job[t].pc = "exists"
    /\ IF PartsLeft(t) THEN Check(t, Part(job[t].up, Listed(t)) \in tree, "read")
       ELSE Goto(t, "rename")
    /\ UNCHANGED <<fs, env, left, history>>

\* Mutant of PartExists: the handler waits for the part.
PartExistsWaiting(t) ==
    /\ job[t].pc = "exists"
    /\ IF ~PartsLeft(t) THEN Goto(t, "rename")
       ELSE IF Part(job[t].up, Listed(t)) \in tree THEN Goto(t, "read")
       ELSE UNCHANGED job
    /\ UNCHANGED <<fs, env, left, history>>

\* The next part of the list, or finish; InvalidPart aborts the writer.
PartExists(t) ==
    LET ok == PartsLeft(t) => Part(job[t].up, Listed(t)) \in tree IN
    /\ job[t].pc = "exists"
    /\ Check(t, ok, IF PartsLeft(t) THEN "read" ELSE "rename")
    /\ fs' = IF ok THEN fs ELSE Erase(fs, {Tmp})
    /\ UNCHANGED <<env, left, history>>

\* Mutant of Block: an empty file is a block too.
BlockOfEmpty(p) == IF p \notin tree THEN <<>> ELSE <<fs[p]>>

\* What a file read at p adds to a sequence of blocks.
Block(p) == IF p \notin tree \/ fs[p] = Empty THEN <<>> ELSE <<fs[p]>>

\* Mutant of ReadPart: what was read last is written first.
ReadPartFirst(t) ==
    LET p == Part(job[t].up, Listed(t)) IN
    /\ job[t].pc = "read"
    /\ IF p \in tree
       THEN job' = [job EXCEPT ![t].pc = "digest", ![t].sum = Block(p) \o @]
       ELSE Done(t)
    /\ UNCHANGED <<fs, env, left, history>>

\* The part may have gone since: the error leaves the temporary file behind.
ReadPart(t) ==
    LET p == Part(job[t].up, Listed(t)) IN
    /\ job[t].pc = "read"
    /\ IF p \in tree
       THEN job' = [job EXCEPT ![t].pc = "digest", ![t].sum = @ \o Block(p)]
       ELSE Done(t)
    /\ UNCHANGED <<fs, env, left, history>>

\* Mutant of ReadDigest: it takes the position in the list for the part's number.
ReadDigestAtPosition(t) ==
    /\ job[t].pc = "digest"
    /\ job' = [job EXCEPT ![t].pc = "exists", ![t].at = @ + 1,
                          ![t].md5s = @ \o Block(PartMeta(job[t].up, job[t].at))]
    /\ UNCHANGED <<fs, env, left, history>>

\* A missing or unreadable digest is left out of the ETag.
ReadDigest(t) ==
    /\ job[t].pc = "digest"
    /\ job' = [job EXCEPT ![t].pc = "exists", ![t].at = @ + 1,
                          ![t].md5s = @ \o Block(PartMeta(job[t].up, Listed(t)))]
    /\ UNCHANGED <<fs, env, left, history>>

\* rewrite_meta_etag, whose errors are ignored; then the upload is removed.
RewriteRead(t) ==
    /\ job[t].pc = "readmeta"
    /\ job' = IF Meta \in tree
              THEN [job EXCEPT ![t].pc = "rewrite", ![t].seen = fs[Meta].of]
              ELSE [job EXCEPT ![t].pc = "remove", ![t].todo = Below(Upload(job[t].up))]
    /\ UNCHANGED <<fs, env, left, history>>

RewriteWrite(t) ==
    /\ job[t].pc = "rewrite"
    /\ fs' = IF MetaDir \in tree
             THEN Write(fs, Meta, [of |-> job[t].seen, etag |-> <<"multi", job[t].md5s>>])
             ELSE fs
    /\ job' = [job EXCEPT ![t].pc = "remove", ![t].todo = Below(Upload(job[t].up))]
    /\ UNCHANGED <<env, left, history>>

----------------------------------------------------------------------------
(* list_parts, list_multipart_uploads, abort_multipart, and the end of a   *)
(* request that nobody finishes.                                           *)

ListedParts(u) ==
    {[number |-> n, etag |-> Block(PartMeta(u, n))] : n \in {m \in PartNumbers : Part(u, m) \in tree}}

ListedUploads == IF Marker \in tree THEN {u \in Uploads : Upload(u) \in tree} ELSE {}

Abort(t) ==
    /\ \E u \in Uploads :
        /\ Known(u)
        /\ Begin(t, [OnUpload("abort", u) EXCEPT !.todo = Below(Upload(u))],
                 Upload(u) \in tree, "remove")
    /\ UNCHANGED <<fs, env, stored, uploadHistory>>

\* A body that ends early, a failed write, a crash: what was done stays.
Abandon(t) ==
    /\ Busy(t) /\ job[t].op \in env.faults
    /\ Done(t)
    /\ stray' = TRUE
    /\ UNCHANGED <<fs, env, left, stored, uploadHistory>>

\* Requests start and end for clients' and networks' reasons.
Arrive(t) ==
    \/ CreateBucket(t) \/ DeleteBucket(t) \/ Put(t) \/ DeleteObject(t)
    \/ PutTagging(t) \/ DeleteTagging(t)
    \/ CreateUpload(t) \/ UploadPart(t) \/ Complete(t) \/ Abort(t)

\* What a thread does by itself once the request is there.
Handle(t) ==
    \/ MakeBucket(t) \/ MarkBucket(t)
    \/ ScanData(t) \/ ScanVersions(t) \/ Remove(t) \/ Removed(t)
    \/ MakeParent(t) \/ OpenTmp(t) \/ Rename(t) \/ Finish(t)
    \/ UnlinkObject(t) \/ Prune(t)
    \/ MakeTagDir(t) \/ WriteTags(t) \/ UnlinkTags(t)
    \/ MakeUpload(t) \/ WriteInfo(t)
    \/ OpenPart(t) \/ WritePart(t) \/ WritePartMeta(t)
    \/ OpenWriter(t) \/ PartExists(t) \/ ReadPart(t) \/ ReadDigest(t)
    \/ RewriteRead(t) \/ RewriteWrite(t)

\* The discipline of orderly clients: writers of the object, and requests for
\* one part, one after the other; nothing else at the upload that is completed
\* or aborted; a part whose last upload failed is not listed.
Disciplined ==
    \A t \in Threads : Busy(t) =>
        /\ job[t].op = "complete" =>
              \A i \in 1..Len(job[t].list) : settled[job[t].up][job[t].list[i]]
        /\ \A q \in Threads \ {t} : Busy(q) =>
              /\ ~({job[t].op, job[q].op} \subseteq {"put", "delete", "complete"})
              /\ job[t].up = job[q].up /\ job[t].up # Empty
                    => job[t].op = "part" /\ job[q].op = "part" /\ job[t].num # job[q].num

Next == (\E t \in Threads : Arrive(t) \/ Handle(t) \/ Abandon(t)) /\ (env.orderly => Disciplined')

Spec == Init /\ [][Next]_vars

\* The steps before which the handler reads the body of its request, with no
\* timeout: they are the client's to allow.
AwaitsBody(t) == \/ job[t].pc \in {"writepart", "writer", "mktags"}
                 \/ job[t].op = "put" /\ job[t].pc = "rename"

\* A connection has a thread of its own, which runs until the answer is sent or
\* the client keeps it waiting.
FairSpec == Spec /\ \A t \in Threads : WF_vars(Handle(t) /\ ~AwaitsBody(t))

----------------------------------------------------------------------------
(* Properties.                                                             *)

Contents == Seq(Bodies)

TypeOK ==
    /\ tree \subseteq Files \cup Dirs
    /\ Object \in tree => fs[Object] \in Contents
    /\ Meta \in tree => fs[Meta].of \in Contents /\ fs[Meta].etag \in {"plain", "multi"} \X Contents
    /\ \A p \in tree \ {Object, Meta} : fs[p] \in Bodies \cup {Empty}
    /\ env \in Worlds /\ left \in 0..env.requests
    /\ DOMAIN job = Threads
    /\ \A t \in Threads :
        /\ ~Busy(t) => job[t] = NoJob
        /\ Busy(t) => job[t].op \in env.ops
        /\ {job[t].sum, job[t].md5s, job[t].seen} \subseteq Contents
        /\ job[t].todo \subseteq Files \cup Dirs
        /\ job[t].list \in Lists \cup {<<>>} /\ job[t].at \in 1..(Len(job[t].list) + 1)
    /\ {stray, stored} \subseteq BOOLEAN
    /\ life \in [Uploads -> {"none", "known", "aborted"}]
    /\ acked \in [Uploads -> [PartNumbers -> Bodies \cup {Empty}]]
    /\ settled \in [Uploads -> [PartNumbers -> BOOLEAN]]

Quiescent == \A t \in Threads : ~Busy(t)

\* An object acknowledged by a PUT or a completed upload that no deletion
\* overlapped is there, in a bucket that is there, until a deletion of the
\* object is asked for: delete_bucket finds it however deep it lies.
StoredStays == stored => {Object, Marker} \subseteq tree

\* When every handler has ended, none was abandoned and no remover overlapped
\* another request, a bucket without objects and versions is one delete_bucket
\* accepts: no failed request leaves a file in data/, unless a directory has the
\* object's name, where finish fails and forgets its temporary file.
NoDebris ==
    Quiescent /\ ~stray /\ {Object, Version, Nest} \cap tree = {} => ~HasAnyFile(Data)

\* And a bucket that is deleted leaves nothing a new one of its name would show.
GoneIsGone == Quiescent /\ ~stray /\ Marker \notin tree => tree = {}

\* Once an abort is acknowledged the upload stays gone, whatever parts were on
\* their way: upload_part and rewriting never make its directory again.
AbortedGone == \A u \in Uploads : life[u] = "aborted" => Upload(u) \notin tree

\* A part acknowledged last, and its digest, are what complete_multipart will
\* read and list_parts shows, until the upload is completed or aborted.
PartsKept ==
    env.orderly =>
        \A u \in Uploads, n \in PartNumbers :
            /\ acked[u][n] # Empty /\ settled[u][n] /\ Upload(u) \in tree
            /\ \A t \in Active({"complete", "abort"}) : job[t].up # u
            => /\ [number |-> n, etag |-> <<acked[u][n]>>] \in ListedParts(u)
               /\ fs[Part(u, n)] = acked[u][n]

\* Between orderly requests the metadata, the multipart ETag included, is of
\* the object's contents: no crash of an upload's parts shows in it.
ETagDescribes ==
    env.orderly /\ Object \in tree /\ Active({"put", "delete", "complete"}) = {}
        => Meta \in tree /\ fs[Meta].of = fs[Object] /\ fs[Meta].etag[2] = fs[Object]

\* The uploads open to clients; one ends when its object appears or its
\* removal begins.
OpenUploads ==
    {u \in ListedUploads : /\ env.orderly /\ Known(u)
                           /\ \A t \in Active({"complete", "abort"}) : job[t].up = u =>
                                  job[t].pc \notin {"finish", "readmeta", "rewrite", "remove"}}

\* Their parts, and the object, as an orderly client knows them.
PartsOfOpen ==
    [u \in Uploads |-> [n \in PartNumbers |->
        IF u \in OpenUploads /\ Part(u, n) \in tree THEN fs[Part(u, n)] ELSE None]]
ObjectThere == IF env.orderly /\ Object \in tree THEN fs[Object] ELSE None

Atomic == INSTANCE AtomicUploads WITH open <- OpenUploads, parts <- PartsOfOpen, object <- ObjectThere

\* Orderly clients cannot tell the files of an upload, read and removed one by
\* one, from an upload that is completed or aborted in one step.
UploadsAreAtomic == Atomic!Spec

\* Every request comes to its end, or to a client that does not send the body: a
\* removal that finds new entries, a missing part, a file that vanished never
\* keep a thread.
HandlersEnd == \A t \in Threads : Busy(t) ~> ~Busy(t) \/ AwaitsBody(t)
=============================================================================
