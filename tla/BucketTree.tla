----------------------------- MODULE BucketTree -----------------------------
(***************************************************************************)
(* The directory tree of one bucket and the handlers that change its shape:*)
(* create and delete bucket, the PUT and DELETE of one object in a         *)
(* subdirectory of data/, and the object's tags (storage.rs, tagging.rs).  *)
(* Multipart adds the handlers of multipart.rs, and the specification.     *)
(*                                                                         *)
(* A node of the tree is its path.  What happens between two writers of    *)
(* one object is ObjectStore's subject: here no two of them use the        *)
(* temporary path at once, and finish is two steps.                        *)
(***************************************************************************)
EXTENDS Naturals, Sequences, TLC, Functions

CONSTANTS
    Threads,      \* each serves one request after another
    Uploads,      \* identifiers new_upload_id may return
    PartNumbers,
    Bodies,       \* the body of a PUT or of one part, one block long
    Lists,        \* the part lists clients complete an upload with
    Worlds,       \* the environments, see World
    Empty         \* an empty file, a directory; no value

BucketOps == {"createBucket", "deleteBucket"}
ObjectOps == {"put", "delete", "putTagging", "deleteTagging"}
UploadOps == {"createUpload", "part", "complete", "abort"}
AllOps == BucketOps \cup ObjectOps \cup UploadOps

\* start: what exists at first: the bucket, it and the uploads, or it and a
\* directory with the object's name.  ops: what clients send, with which bodies,
\* parts and lists of parts.  requests: how many, a bound.  orderly: the clients
\* are Disciplined (see Multipart).  faults: the requests whose handler may stop
\* anywhere.  versioned: the bucket records versions.
World == [start : {"nothing", "bucket", "uploads", "nested"}, ops : SUBSET AllOps, requests : Nat,
          orderly : BOOLEAN, faults : SUBSET AllOps, versioned : BOOLEAN,
          bodies : SUBSET Bodies, parts : SUBSET PartNumbers, lists : SUBSET Lists]

ASSUME WorldAssumption == \A w \in Worlds : w \in World
ASSUME PartAssumption == PartNumbers \subseteq Nat /\ \A l \in Lists : l \in Seq(PartNumbers)
ASSUME EmptyAssumption == Empty \notin Bodies \cup Uploads
\* Orderly clients leave the bucket alone, and what they commit or abort runs to its end.
ASSUME OrderlyAssumption == \A w \in Worlds : w.orderly =>
    "deleteBucket" \notin w.ops /\ {"put", "complete", "abort"} \cap w.faults = {}

VARIABLES
    fs,       \* every path that exists, with its contents
    env,      \* the world of this behaviour
    left,     \* requests still to come
    job,      \* what each thread is doing
    \* history; no guard of the code's own reads it
    stray,    \* a request was abandoned or overlapped a remover
    stored,   \* an object was acknowledged that no deletion overlapped
    life,     \* of each upload: "none" yet, "known" to clients, "aborted" by them
    acked,    \* the body last acknowledged for each part
    settled   \* the last request for that part was acknowledged

uploadHistory == <<life, acked, settled>>
history == <<stray, stored, uploadHistory>>
vars == <<fs, env, left, job, history>>

----------------------------------------------------------------------------
(* The paths of storage.rs, multipart.rs and tagging.rs.                   *)

Root == <<>>
Marker == <<".bucket">>
Data == <<"data">>
Dir == <<"data", "dir">>
Object == <<"data", "dir", "key">>
\* The object's path when it is a directory: a PUT of a key below it made it.
Nest == <<"data", "dir", "key/">>
Tmp == <<"data", "dir", "key.tmp-upload">>
MetaDir == <<"meta">>
Meta == <<"meta", "key.meta">>
Versions == <<"versions">>
Version == <<"versions", "key">>
TagDir == <<"tags">>
Tags == <<"tags", "key.tags">>
Upload(u) == <<"uploads", u>>
Info(u) == <<"uploads", u, ".info">>
Parts(u) == <<"uploads", u, "parts">>
Part(u, n) == <<"uploads", u, "parts", <<n, "data">>>>
PartMeta(u, n) == <<"uploads", u, "parts", <<n, "meta">>>>

Files == {Marker, Object, Tmp, Meta, Version, Tags} \cup {Info(u) : u \in Uploads}
         \cup UNION {{Part(u, n), PartMeta(u, n)} : u \in Uploads, n \in PartNumbers}
Dirs == {Root, Data, Dir, Nest, MetaDir, Versions, TagDir, <<"uploads">>}
        \cup UNION {{Upload(u), Parts(u)} : u \in Uploads}

tree == DOMAIN fs
Upto(p) == {SubSeq(p, 1, i) : i \in 0..Len(p)}
\* p and everything below it that exists.
Below(p) == {q \in tree : p \in Upto(q)}
Children(p) == Below(p) \ {p}

\* create_dir_all; an empty file or a directory where nothing is.
Make(f, ps) == [p \in DOMAIN f \cup ps |-> IF p \in DOMAIN f THEN f[p] ELSE Empty]
Write(f, p, contents) == [q \in DOMAIN f \cup {p} |-> IF q = p THEN contents ELSE f[q]]
Erase(f, ps) == Restrict(f, DOMAIN f \ ps)

\* Mutant of HasAnyFile: it does not descend.
HasAnyFileHere(p) == \E q \in Files \cap tree : Len(q) = Len(p) + 1 /\ p \in Upto(q)

\* has_any_file
HasAnyFile(p) == Files \cap Below(p) # {}

NoJob == [pc |-> "idle", op |-> "none", up |-> Empty, num |-> 0, list |-> <<>>, body |-> Empty,
          sum |-> <<>>,    \* contents of the upload a writer has open
          md5s |-> <<>>,   \* part_md5s of complete_multipart
          at |-> 1,        \* its position in the list
          linked |-> FALSE,\* the part a thread has open still has its name
          seen |-> <<>>,   \* what the metadata rewrite_meta_etag has read is of
          todo |-> {},     \* what remove_dir_all has found and not yet removed
          met |-> FALSE]   \* history: a deletion was going on at the same time

Busy(t) == job[t].pc # "idle"
Active(ops) == {t \in Threads : Busy(t) /\ job[t].op \in ops}
Deletions == {"delete", "deleteBucket"}
\* The requests that call remove_dir_all, and those that use the temporary path.
Removers == {"deleteBucket", "complete", "abort"}
Writing == {t \in Active({"put", "complete"}) :
                job[t].pc \in {"writer", "mkparent", "open", "exists", "read", "digest", "rename"}}

Goto(t, next) == job' = [job EXCEPT ![t].pc = next]
\* The handler answers.
Done(t) == job' = [job EXCEPT ![t] = NoJob]
\* It goes on if the condition holds, and answers with an error otherwise.
Check(t, ok, next) == IF ok THEN Goto(t, next) ELSE Done(t)

\* A request arrives; the handler's first checks pass, or it answers at once.
Begin(t, r, ok, next) ==
    /\ ~Busy(t) /\ left > 0 /\ r.op \in env.ops
    /\ left' = left - 1
    /\ IF ok
       THEN LET others == {q \in Threads : Busy(q)} IN
            /\ job' = [q \in Threads |->
                  IF q = t THEN [r EXCEPT !.pc = next, !.met = Active(Deletions) # {}]
                  ELSE IF Busy(q) THEN [job[q] EXCEPT !.met = @ \/ r.op \in Deletions]
                  ELSE job[q]]
            /\ stray' = (stray \/ (others # {} /\ (r.op \in Removers \/ Active(Removers) # {})))
       ELSE UNCHANGED <<job, stray>>

Plain(op) == [NoJob EXCEPT !.op = op]

----------------------------------------------------------------------------
(* create_bucket and delete_bucket, under the handlers of s3.rs.           *)

CreateBucket(t) ==
    /\ Begin(t, Plain("createBucket"), Marker \notin tree, "mkbucket")
    /\ UNCHANGED <<fs, env, stored, uploadHistory>>

MakeBucket(t) ==
    /\ job[t].pc = "mkbucket"
    /\ fs' = Make(fs, {Root, Data, MetaDir})
    /\ Goto(t, "mark")
    /\ UNCHANGED <<env, left, history>>

\* File::create of the marker needs the directory.
MarkBucket(t) ==
    /\ job[t].pc = "mark"
    /\ fs' = IF Root \in tree THEN Make(fs, {Marker}) ELSE fs
    /\ Done(t)
    /\ UNCHANGED <<env, left, history>>

DeleteBucket(t) ==
    /\ Begin(t, Plain("deleteBucket"), Marker \in tree, "scandata")
    /\ UNCHANGED <<fs, env, stored, uploadHistory>>

ScanData(t) ==
    /\ job[t].pc = "scandata"
    /\ Check(t, ~HasAnyFile(Data), "scanversions")
    /\ UNCHANGED <<fs, env, left, history>>

\* Mutant of ScanVersions: it removes the directories create_bucket made.
ScanVersionsKnownDirs(t) ==
    /\ job[t].pc = "scanversions"
    /\ IF HasAnyFile(Versions) THEN Done(t)
       ELSE job' = [job EXCEPT ![t].pc = "remove",
                               ![t].todo = Below(Data) \cup Below(MetaDir) \cup Below(Marker)]
    /\ UNCHANGED <<fs, env, left, history>>

ScanVersions(t) ==
    /\ job[t].pc = "scanversions"
    /\ IF HasAnyFile(Versions) THEN Done(t)
       ELSE job' = [job EXCEPT ![t].pc = "remove", ![t].todo = Below(Root)]
    /\ UNCHANGED <<fs, env, left, history>>

\* One entry is unlinked; who has it open keeps a file without a name.
Unlink(t, p) ==
    /\ fs' = Erase(fs, {p})
    /\ job' = [q \in Threads |->
                 IF q = t THEN [job[t] EXCEPT !.todo = @ \ {p}]
                 ELSE [job[q] EXCEPT !.linked = @ /\ p # Part(job[q].up, job[q].num)]]

\* fs::remove_dir_all: entries in any order, a directory after its entries.
\* What another request has put there since is found as well, or makes the
\* removal of the directory fail; complete_multipart ignores the failure.
Remove(t) ==
    /\ job[t].pc = "remove"
    /\ \E p \in job[t].todo :
        /\ Children(p) \cap job[t].todo = {}
        /\ \/ Children(p) = {} /\ Unlink(t, p)
           \/ /\ Children(p) # {}
              /\ job' = [job EXCEPT ![t].todo = @ \cup Children(p)]
              /\ UNCHANGED fs
           \/ /\ Children(p) # {}
              /\ IF job[t].op = "complete" THEN job' = [job EXCEPT ![t].todo = {}] ELSE Done(t)
              /\ UNCHANGED fs
    /\ UNCHANGED <<env, left, history>>

\* The walk is over: the request is answered.
Removed(t) ==
    /\ job[t].pc = "remove" /\ job[t].todo = {}
    /\ Done(t)
    /\ life' = IF job[t].op = "abort" THEN [life EXCEPT ![job[t].up] = "aborted"] ELSE life
    /\ stored' = (stored \/ (job[t].op = "complete" /\ ~job[t].met))
    /\ UNCHANGED <<fs, env, left, stray, acked, settled>>

----------------------------------------------------------------------------
(* The object: put_object_writer and finish, which CompleteMultipartUpload *)
(* shares, and delete_object.                                              *)

\* The next use of the temporary path waits for the last one to be over.
Put(t) ==
    /\ Writing = {}
    /\ \E b \in env.bodies :
          Begin(t, [Plain("put") EXCEPT !.sum = <<b>>], Marker \in tree, "mkparent")
    /\ UNCHANGED <<fs, env, stored, uploadHistory>>

\* create_dir_all of the key's parent, also below a bucket that is gone by now.
MakeParent(t) ==
    /\ job[t].pc = "mkparent"
    /\ fs' = Make(fs, Upto(Dir))
    /\ Goto(t, "open")
    /\ UNCHANGED <<env, left, history>>

\* The temporary file; its directory may have been pruned or removed.
OpenTmp(t) ==
    /\ job[t].pc = "open"
    /\ Check(t, Dir \in tree, IF job[t].op = "put" THEN "rename" ELSE "exists")
    /\ fs' = IF Dir \in tree THEN Make(fs, {Tmp}) ELSE fs
    /\ UNCHANGED <<env, left, history>>

\* finish up to the rename, which a directory of the object's name refuses:
\* the request then fails and its temporary file stays.
Rename(t) ==
    LET made == Make(fs, Upto(MetaDir))
        ok == Tmp \in tree /\ Nest \notin tree IN
    /\ job[t].pc = "rename"
    /\ Check(t, ok, "finish")
    /\ fs' = IF ok THEN Erase(Write(made, Object, job[t].sum), {Tmp}) ELSE made
    /\ UNCHANGED <<env, left, history>>

\* finish after the rename: the version, if any, then the metadata.
Finish(t) ==
    LET ok == MetaDir \in tree /\ (env.versioned => Object \in tree)
        kept == CASE env.versioned /\ Object \in tree -> Make(fs, Upto(Version))
                  [] env.versioned /\ Object \notin tree -> Make(fs, Upto(Versions))
                  [] OTHER -> fs IN
    /\ job[t].pc = "finish"
    /\ fs' = IF ok THEN Write(kept, Meta, [of |-> job[t].sum, etag |-> <<"plain", job[t].sum>>])
             ELSE kept
    /\ Check(t, ok /\ job[t].op = "complete", "readmeta")
    /\ stored' = (stored \/ (ok /\ job[t].op = "put" /\ ~job[t].met))
    /\ UNCHANGED <<env, left, stray, uploadHistory>>

\* With versions a delete marker comes first; without, it ends at an object that
\* is missing or a directory.
DeleteObject(t) ==
    LET gone == ~env.versioned /\ Object \notin tree IN
    /\ Begin(t, Plain("delete"), Marker \in tree /\ ~gone, "unlink")
    /\ fs' = IF Marker \in tree /\ env.versioned THEN Make(fs, Upto(Version)) ELSE fs
    /\ stored' = FALSE
    /\ UNCHANGED <<env, uploadHistory>>

UnlinkObject(t) ==
    /\ job[t].pc = "unlink"
    /\ fs' = Erase(fs, {Object})
    /\ Goto(t, "prune")
    /\ UNCHANGED <<env, left, history>>

\* The metadata goes, then prune_empty_data_dirs tests the parent and removes it.
Prune(t) ==
    /\ job[t].pc = "prune"
    /\ fs' = Erase(fs, {Meta} \cup (IF Children(Dir) = {} THEN {Dir} ELSE {}))
    /\ Done(t)
    /\ UNCHANGED <<env, left, history>>

----------------------------------------------------------------------------
(* put_object_tagging and delete_object_tagging.                           *)

PutTagging(t) ==
    /\ Begin(t, Plain("putTagging"), Marker \in tree, "mktags")
    /\ UNCHANGED <<fs, env, stored, uploadHistory>>

MakeTagDir(t) ==
    /\ job[t].pc = "mktags"
    /\ fs' = Make(fs, Upto(TagDir))
    /\ Goto(t, "writetags")
    /\ UNCHANGED <<env, left, history>>

WriteTags(t) ==
    /\ job[t].pc = "writetags"
    /\ fs' = IF TagDir \in tree THEN Make(fs, {Tags}) ELSE fs
    /\ Done(t)
    /\ UNCHANGED <<env, left, history>>

DeleteTagging(t) ==
    /\ Begin(t, Plain("deleteTagging"), Marker \in tree, "unlinktags")
    /\ UNCHANGED <<fs, env, stored, uploadHistory>>

UnlinkTags(t) ==
    /\ job[t].pc = "unlinktags"
    /\ fs' = Erase(fs, {Tags})
    /\ Done(t)
    /\ UNCHANGED <<env, left, history>>
=============================================================================
