----------------------------- MODULE ObjectStore -----------------------------
(***************************************************************************)
(* The object store of minibucket (storage.rs, and the PUT / GET / DELETE  *)
(* handlers of s3.rs and versioning.rs that drive it) over one bucket.     *)
(*                                                                         *)
(* Every request runs in a thread of its own and there is no lock: the     *)
(* threads share nothing but the file system, so the atomic steps are the  *)
(* system calls.  A regular file is an inode and one name; File::create    *)
(* and fs::copy onto an existing name truncate the inode that is there,    *)
(* rename and unlink change the name only and leave open descriptors to    *)
(* the inode alone.  A data or metadata inode is named by the request that *)
(* created it, a byte block by the request that received it.               *)
(***************************************************************************)
EXTENDS Naturals, SequencesExt

CONSTANTS
    Reqs,           \* the requests; each is served once, by one thread
    Ops,            \* the kinds of request the clients send
    Keys,
    Stems,          \* the temporary upload paths
    Stem,           \* Stem[k] is path.with_extension("tmp-upload") of key k
    Exclusive,      \* pairs of keys whose mutating requests never overlap
    ClockMonotone,  \* the wall clock is not set back
    Faults,         \* handlers may fail, panic or lose their client
    InitStatus,     \* the versioning status of the bucket at the start
    MaxVid,         \* bound: version identifiers are 1..MaxVid
    MaxBlocks,      \* bound: blocks of one request body
    NoFile,         \* no such name
    Hole,           \* a block of a sparse file that nobody wrote
    Empty           \* a metadata file without its lines

NoVid == 0
Vids == 1..MaxVid
Statuses == {"Disabled", "Enabled", "Suspended"}
PutOps == {"put", "copy"}
MutatorOps == PutOps \cup {"delete", "deleteVersion"}
AllOps == MutatorOps \cup {"get", "getVersion", "putVersioning"}

ASSUME OpsAssumption == Ops \subseteq AllOps
ASSUME StemAssumption == Stem \in [Keys -> Stems]
ASSUME ExclusiveAssumption == Exclusive \subseteq Keys \X Keys
ASSUME SwitchAssumption == {ClockMonotone, Faults} \subseteq BOOLEAN
ASSUME StatusAssumption == InitStatus \in Statuses
ASSUME BoundAssumption == MaxVid \in Nat /\ MaxBlocks \in Nat
ASSUME NoFileAssumption == NoFile \notin Reqs
ASSUME EmptyAssumption ==
    Empty \notin [etag : Seq(Reqs \cup {Hole}), vid : Vids \cup {NoVid}]

VARIABLES
    \* the threads
    pc,     \* where the handler of each request is
    op,     \* the kind of request
    key,    \* the object it names
    mode,   \* the versioning status it read, or is to write
    sum,    \* the blocks received so far, what the MD5 context digests; of
            \* a GET, those announced and then served, of a repromotion copied
    fd,     \* the inode it holds open
    from,   \* the inode a copy reads from
    vid,    \* the version it records, or is asked to serve or delete
    src,    \* the version repromote_latest picked, or the one whose metadata
            \* a GET has read
    \* data/ and meta/: the live object of each key, and .versioning
    status, tmp, data, body, meta, info,
    \* versions/<key>/<vid>.{data,meta,delete-marker}
    vdir, vdata, vbody, vmeta, vinfo, vmark,
    \* the mutating request on each key that was the last to begin
    last

reqVars == <<op, key, mode, from, vid, src, last>>
mirrorVars == <<tmp, data, body, meta, info>>
versionVars == <<vdir, vdata, vbody, vmeta, vinfo, vmark>>
fileVars == <<status, mirrorVars, versionVars>>
vars == <<pc, reqVars, sum, fd, fileVars>>

Inodes == Reqs \cup {NoFile}
Block == Reqs \cup {Hole}
Info == [etag : Seq(Block), vid : Vids \cup {NoVid}] \cup {Empty}
Final == {"ok", "failed"}
\* Steps the client paces: it sends the body, or reads the response.
ClientPaced == {"body", "stream"}
ServerPaced == {"config", "writer", "blocks", "rename", "version", "copy", "copyfill", "vmeta", "vmetafill",
                "meta", "metafill", "marker", "markfile", "unlink", "unlinkmeta",
                "purge", "scan", "mirror", "mirrorfill", "tidy"}

\* The state of every variable is in the set of values the code gives it.
TypeOK ==
    /\ pc \in [Reqs -> {"idle"} \cup ClientPaced \cup ServerPaced \cup Final]
    /\ op \in [Reqs -> Ops \cup {"none"}]
    /\ key \in [Reqs -> Keys \cup {NoFile}]
    /\ mode \in [Reqs -> Statuses]
    /\ sum \in [Reqs -> Seq(Block)]
    /\ fd \in [Reqs -> Inodes]
    /\ from \in [Reqs -> Inodes]
    /\ vid \in [Reqs -> Vids \cup {NoVid}]
    /\ src \in [Reqs -> Vids \cup {NoVid}]
    /\ status \in Statuses
    /\ tmp \in [Stems -> Inodes]
    /\ data \in [Keys -> Inodes]
    /\ body \in [Reqs -> Seq(Block)]
    /\ meta \in [Keys -> Inodes]
    /\ info \in [Reqs -> Info]
    /\ vdir \in [Keys -> BOOLEAN]
    /\ vdata \in [Keys -> SUBSET Vids]
    /\ vbody \in [Vids -> Seq(Block)]
    /\ vmeta \in [Keys -> SUBSET Vids]
    /\ vinfo \in [Vids -> Info]
    /\ vmark \in [Keys -> SUBSET Vids]
    /\ last \in [Keys -> Inodes]

Init ==
    /\ pc = [r \in Reqs |-> "idle"]
    /\ op = [r \in Reqs |-> "none"]
    /\ key = [r \in Reqs |-> NoFile]
    /\ mode = [r \in Reqs |-> "Disabled"]
    /\ sum = [r \in Reqs |-> <<>>]
    /\ fd = [r \in Reqs |-> NoFile]
    /\ from = [r \in Reqs |-> NoFile]
    /\ vid = [r \in Reqs |-> NoVid]
    /\ src = [r \in Reqs |-> NoVid]
    /\ status = InitStatus
    /\ tmp = [s \in Stems |-> NoFile]
    /\ data = [k \in Keys |-> NoFile]
    /\ body = [r \in Reqs |-> <<>>]
    /\ meta = [k \in Keys |-> NoFile]
    /\ info = [r \in Reqs |-> Empty]
    /\ vdir = [k \in Keys |-> FALSE]
    /\ vdata = [k \in Keys |-> {}]
    /\ vbody = [v \in Vids |-> <<>>]
    /\ vmeta = [k \in Keys |-> {}]
    /\ vinfo = [v \in Vids |-> Empty]
    /\ vmark = [k \in Keys |-> {}]
    /\ last = [k \in Keys |-> NoFile]

----------------------------------------------------------------------------
(* Helpers.                                                                *)

\* VersioningStatus::records_versions
Records(m) == m \in {"Enabled", "Suspended"}

Active(r) == pc[r] \notin Final \cup {"idle"}
Mutating(r) == op[r] \in MutatorOps /\ pc[r] \notin Final

\* The version identifiers handed out by new_version_id.
Issued == {vid[r] : r \in {q \in Reqs : op[q] \in PutOps \cup {"delete"}}} \ {NoVid}

\* Mutant of NewVid: identifiers of one second are not told apart.
NewVidSameSecond(v) == v \in Vids

\* new_version_id: seconds, nanoseconds and a process-wide counter at fixed
\* width.  No two calls return the same identifier; while the clock is not
\* set back, a later call also returns a greater one.
NewVid(v) ==
    /\ v \in Vids \ Issued
    /\ ClockMonotone => \A w \in Vids : w \in Issued <=> w < v

\* What repromote_latest collects: the stems of *.data and *.delete-marker.
Entries(k) == vdata[k] \cup vmark[k]

\* entries[0] once they are sorted, greatest first.
IsNewest(k, v) == v \in Entries(k) /\ \A w \in Entries(k) : w <= v

\* write_all at block i of a file whose content is c.
WriteAt(c, i, b) ==
    [j \in 1..(IF i > Len(c) THEN i ELSE Len(c)) |->
        IF j = i THEN b ELSE IF j <= Len(c) THEN c[j] ELSE Hole]

\* What open(create, truncate) yields: the inode the name has, or a new one.
Opened(name, r) == IF name = NoFile THEN r ELSE name

\* Handlers that write to key k may begin next to those that are running.
Admit(r, k) ==
    /\ pc[r] = "idle"
    /\ \A q \in Reqs : Mutating(q) => <<key[q], k>> \notin Exclusive

Begin(r, o, k, next) ==
    /\ o \in Ops
    /\ pc' = [pc EXCEPT ![r] = next]
    /\ op' = [op EXCEPT ![r] = o]
    /\ key' = [key EXCEPT ![r] = k]

Goto(r, next) == pc' = [pc EXCEPT ![r] = next]

----------------------------------------------------------------------------
(* PUT: put_object_writer, ObjectWriter::write, finish and abort.          *)

\* Mutant of PutObjectWriter: the upload is opened without truncate(true).
PutObjectWriterAppending(r, k) ==
    /\ Admit(r, k)
    /\ Begin(r, "put", k, "body")
    /\ last' = [last EXCEPT ![k] = r]
    /\ LET i == Opened(tmp[Stem[k]], r) IN
        /\ tmp' = [tmp EXCEPT ![Stem[k]] = i]
        /\ fd' = [fd EXCEPT ![r] = i]
    /\ mode' = [mode EXCEPT ![r] = status]
    /\ UNCHANGED <<from, vid, src, sum, status, data, body, meta, info, versionVars>>

\* Mutant of PutObjectWriter: the body is written under the live name.
PutObjectWriterInPlace(r, k) ==
    /\ Admit(r, k)
    /\ Begin(r, "put", k, "body")
    /\ last' = [last EXCEPT ![k] = r]
    /\ LET i == Opened(data[k], r) IN
        /\ tmp' = [tmp EXCEPT ![Stem[k]] = i]
        /\ data' = [data EXCEPT ![k] = i]
        /\ body' = [body EXCEPT ![i] = <<>>]
        /\ fd' = [fd EXCEPT ![r] = i]
    /\ mode' = [mode EXCEPT ![r] = status]
    /\ UNCHANGED <<from, vid, src, sum, status, meta, info, versionVars>>

\* The temporary file is created or truncated, and the status is read.
OpenUpload(r, k) ==
    LET i == Opened(tmp[Stem[k]], r) IN
    /\ tmp' = [tmp EXCEPT ![Stem[k]] = i]
    /\ body' = [body EXCEPT ![i] = <<>>]
    /\ fd' = [fd EXCEPT ![r] = i]
    /\ mode' = [mode EXCEPT ![r] = status]

PutObjectWriter(r, k) ==
    /\ Admit(r, k)
    /\ Begin(r, "put", k, "body")
    /\ last' = [last EXCEPT ![k] = r]
    /\ OpenUpload(r, k)
    /\ UNCHANGED <<from, vid, src, sum, status, data, meta, info, versionVars>>

\* ObjectWriter::write, once for each block that arrives.
WriteBlock(r) ==
    /\ pc[r] = "body"
    /\ Len(sum[r]) < MaxBlocks
    /\ body' = [body EXCEPT ![fd[r]] = WriteAt(@, Len(sum[r]) + 1, r)]
    /\ sum' = [sum EXCEPT ![r] = Append(@, r)]
    /\ UNCHANGED <<pc, reqVars, fd, status, tmp, data, meta, info, versionVars>>

\* copy_object opens its source, key k0, and then the upload of key k.
CopyObject(r, k0, k) ==
    /\ Admit(r, k)
    /\ Begin(r, "copy", k, IF data[k0] = NoFile THEN "failed" ELSE "writer")
    /\ last' = [last EXCEPT ![k] = r]
    /\ from' = [from EXCEPT ![r] = data[k0]]
    /\ UNCHANGED <<mode, vid, src, sum, fd, fileVars>>

CopyWriter(r) ==
    /\ pc[r] = "writer"
    /\ Goto(r, "blocks")
    /\ OpenUpload(r, key[r])
    /\ UNCHANGED <<op, key, from, vid, src, last, sum, status, data, meta, info,
                   versionVars>>

\* One read of the source and one write, until a read yields nothing.
CopyBlock(r) ==
    LET n == Len(sum[r])  source == body[from[r]] IN
    /\ pc[r] = "blocks"
    /\ IF n < Len(source)
       THEN /\ body' = [body EXCEPT ![fd[r]] = WriteAt(@, n + 1, source[n + 1])]
            /\ sum' = [sum EXCEPT ![r] = Append(@, source[n + 1])]
            /\ UNCHANGED pc
       ELSE Goto(r, "rename") /\ UNCHANGED <<body, sum>>
    /\ UNCHANGED <<reqVars, fd, status, tmp, data, meta, info, versionVars>>

\* A write error: abort unlinks the temporary name, whatever it names now.
Abort(r) ==
    /\ Faults
    /\ pc[r] \in {"body", "blocks"}
    /\ Goto(r, "failed")
    /\ tmp' = [tmp EXCEPT ![Stem[key[r]]] = NoFile]
    /\ UNCHANGED <<reqVars, sum, fd, status, data, body, meta, info, versionVars>>

\* finish: the temporary name becomes the data file, whatever it names now.
\* The body of a PUT ends when the client ends it.
Rename(r) ==
    /\ pc[r] \in {"body", "rename"}
    /\ LET s == Stem[key[r]] IN
        IF tmp[s] = NoFile
        THEN Goto(r, "failed") /\ UNCHANGED <<tmp, data>>
        ELSE /\ Goto(r, IF Records(mode[r]) THEN "version" ELSE "meta")
             /\ data' = [data EXCEPT ![key[r]] = tmp[s]]
             /\ tmp' = [tmp EXCEPT ![s] = NoFile]
    /\ UNCHANGED <<reqVars, sum, fd, status, body, meta, info, versionVars>>

FinishCopy(r) == pc[r] = "rename" /\ Rename(r)

\* Mutant of NewVersion: the identifier is read again, after the counter moved.
NewVersionReread(r, next) ==
    /\ \E v \in Vids : NewVid(v) /\ vid' = [vid EXCEPT ![r] = v + 1]
    /\ vdir' = [vdir EXCEPT ![key[r]] = TRUE]
    /\ Goto(r, next)
    /\ UNCHANGED <<op, key, mode, from, src, last, sum, fd, status, mirrorVars,
                   vdata, vbody, vmeta, vinfo, vmark>>

\* A version identifier and the key's directory under versions/, for a PUT
\* (then the copy of the data) or a DELETE (then the delete marker).
NewVersion(r, next) ==
    /\ \E v \in Vids : NewVid(v) /\ vid' = [vid EXCEPT ![r] = v]
    /\ vdir' = [vdir EXCEPT ![key[r]] = TRUE]
    /\ Goto(r, next)
    /\ UNCHANGED <<op, key, mode, from, src, last, sum, fd, status, mirrorVars,
                   vdata, vbody, vmeta, vinfo, vmark>>

PutVersion(r) == pc[r] = "version" /\ NewVersion(r, "copy")

\* Mutant of CopyOpen: an error of fs::copy is dropped.
CopyOpenUnchecked(r) ==
    LET k == key[r]  found == data[k] # NoFile /\ vdir[k] IN
    /\ pc[r] = "copy"
    /\ Goto(r, IF found THEN "copyfill" ELSE "vmeta")
    /\ IF found
       THEN /\ fd' = [fd EXCEPT ![r] = data[k]]
            /\ vdata' = [vdata EXCEPT ![k] = @ \cup {vid[r]}]
            /\ vbody' = [vbody EXCEPT ![vid[r]] = <<>>]
       ELSE UNCHANGED <<fd, vdata, vbody>>
    /\ UNCHANGED <<reqVars, sum, status, mirrorVars, vdir, vmeta, vinfo, vmark>>

\* Mutant of CopyOpen: it waits for the data file to appear.
CopyOpenWaiting(r) ==
    LET k == key[r] IN
    /\ pc[r] = "copy"
    /\ data[k] # NoFile /\ vdir[k]
    /\ Goto(r, "copyfill")
    /\ fd' = [fd EXCEPT ![r] = data[k]]
    /\ vdata' = [vdata EXCEPT ![k] = @ \cup {vid[r]}]
    /\ vbody' = [vbody EXCEPT ![vid[r]] = <<>>]
    /\ UNCHANGED <<reqVars, sum, status, mirrorVars, vdir, vmeta, vinfo, vmark>>

\* fs::copy opens the data file, then creates <vid>.data; it copies what the
\* data file names now, not what this request wrote.
CopyOpen(r) ==
    LET k == key[r] IN
    /\ pc[r] = "copy"
    /\ IF data[k] = NoFile \/ ~vdir[k]
       THEN Goto(r, "failed") /\ UNCHANGED <<fd, vdata, vbody>>
       ELSE /\ Goto(r, "copyfill")
            /\ fd' = [fd EXCEPT ![r] = data[k]]
            /\ vdata' = [vdata EXCEPT ![k] = @ \cup {vid[r]}]
            /\ vbody' = [vbody EXCEPT ![vid[r]] = <<>>]
    /\ UNCHANGED <<reqVars, sum, status, mirrorVars, vdir, vmeta, vinfo, vmark>>

\* Mutant of CopyFill: the metadata is not kept waiting for the last block.
CopyFillShort(r) ==
    LET n == Len(vbody[vid[r]])  live == body[fd[r]] IN
    /\ pc[r] = "copyfill"
    /\ Goto(r, IF n + 1 < Len(live) THEN "copyfill" ELSE "vmeta")
    /\ IF n + 1 < Len(live)
       THEN vbody' = [vbody EXCEPT ![vid[r]] = Append(@, live[n + 1])]
       ELSE UNCHANGED vbody
    /\ UNCHANGED <<reqVars, sum, fd, status, mirrorVars, vdir, vdata, vmeta, vinfo, vmark>>

\* fs::copy goes on block by block, until a read yields nothing.
CopyFill(r) ==
    LET n == Len(vbody[vid[r]])  live == body[fd[r]] IN
    /\ pc[r] = "copyfill"
    /\ IF n < Len(live)
       THEN vbody' = [vbody EXCEPT ![vid[r]] = Append(@, live[n + 1])] /\ UNCHANGED pc
       ELSE Goto(r, "vmeta") /\ UNCHANGED vbody
    /\ UNCHANGED <<reqVars, sum, fd, status, mirrorVars, vdir, vdata, vmeta, vinfo, vmark>>

VersionMeta(r) ==
    LET k == key[r] IN
    /\ pc[r] = "vmeta"
    /\ IF ~vdir[k]
       THEN Goto(r, "failed") /\ UNCHANGED <<vmeta, vinfo>>
       ELSE /\ Goto(r, "vmetafill")
            /\ vmeta' = [vmeta EXCEPT ![k] = @ \cup {vid[r]}]
            /\ vinfo' = [vinfo EXCEPT ![vid[r]] = Empty]
    /\ UNCHANGED <<reqVars, sum, fd, status, mirrorVars, vdir, vdata, vbody, vmark>>

VersionMetaFill(r) ==
    /\ pc[r] = "vmetafill"
    /\ Goto(r, "meta")
    /\ vinfo' = [vinfo EXCEPT ![vid[r]] = [etag |-> sum[r], vid |-> vid[r]]]
    /\ UNCHANGED <<reqVars, sum, fd, status, mirrorVars, vdir, vdata, vbody, vmeta, vmark>>

\* meta/<key>.meta: created by a PUT, or by the fs::copy of repromote_latest,
\* which fails if the file to copy went away since it was seen.
MetaCreate(r) ==
    LET k == key[r]  i == Opened(meta[k], r) IN
    /\ pc[r] = "meta"
    /\ IF op[r] = "deleteVersion" /\ src[r] \notin vmeta[k]
       THEN Goto(r, "failed") /\ UNCHANGED <<meta, info, fd>>
       ELSE /\ Goto(r, "metafill")
            /\ meta' = [meta EXCEPT ![k] = i]
            /\ info' = [info EXCEPT ![i] = Empty]
            /\ fd' = [fd EXCEPT ![r] = i]
    /\ UNCHANGED <<reqVars, sum, status, tmp, data, body, versionVars>>

MetaFill(r) ==
    /\ pc[r] = "metafill"
    /\ \/ /\ op[r] \in PutOps
          /\ Goto(r, "ok")
          /\ info' = [info EXCEPT ![fd[r]] = [etag |-> sum[r], vid |-> vid[r]]]
       \/ /\ op[r] = "deleteVersion"
          /\ Goto(r, "tidy")
          /\ info' = [info EXCEPT ![fd[r]] = vinfo[src[r]]]
    /\ UNCHANGED <<reqVars, sum, fd, status, tmp, data, body, meta, versionVars>>

----------------------------------------------------------------------------
(* DELETE: delete_object.                                                  *)

DeleteObject(r, k) ==
    /\ Admit(r, k)
    /\ Begin(r, "delete", k, IF Records(status) THEN "marker" ELSE "unlink")
    /\ last' = [last EXCEPT ![k] = r]
    /\ mode' = [mode EXCEPT ![r] = status]
    /\ UNCHANGED <<from, vid, src, sum, fd, fileVars>>

MarkerVersion(r) == pc[r] = "marker" /\ NewVersion(r, "markfile")

CreateMarker(r) ==
    LET k == key[r] IN
    /\ pc[r] = "markfile"
    /\ IF ~vdir[k]
       THEN Goto(r, "failed") /\ UNCHANGED <<vmark, vmeta>>
       ELSE /\ Goto(r, "unlink")
            /\ vmark' = [vmark EXCEPT ![k] = @ \cup {vid[r]}]
            /\ vmeta' = [vmeta EXCEPT ![k] = @ \cup {vid[r]}]
    /\ UNCHANGED <<reqVars, sum, fd, status, mirrorVars, vdir, vdata, vbody, vinfo>>

\* Mutant of UnlinkData: with versioning the delete marker is thought enough.
UnlinkDataUnversioned(r) ==
    LET k == key[r] IN
    /\ pc[r] = "unlink"
    /\ IF op[r] = "delete" /\ (Records(mode[r]) \/ data[k] = NoFile)
       THEN Goto(r, "ok") /\ UNCHANGED data
       ELSE Goto(r, "unlinkmeta") /\ data' = [data EXCEPT ![k] = NoFile]
    /\ UNCHANGED <<reqVars, sum, fd, status, tmp, body, meta, info, versionVars>>

\* The live data file goes, for a DELETE and for a repromotion that finds a
\* delete marker or nothing; without versioning a missing file ends it.
UnlinkData(r) ==
    LET k == key[r] IN
    /\ pc[r] = "unlink"
    /\ IF op[r] = "delete" /\ ~Records(mode[r]) /\ data[k] = NoFile
       THEN Goto(r, "ok")
       ELSE Goto(r, "unlinkmeta")
    /\ data' = [data EXCEPT ![k] = NoFile]
    /\ UNCHANGED <<reqVars, sum, fd, status, tmp, body, meta, info, versionVars>>

UnlinkMeta(r) ==
    /\ pc[r] = "unlinkmeta"
    /\ Goto(r, IF op[r] = "delete" THEN "ok" ELSE "tidy")
    /\ meta' = [meta EXCEPT ![key[r]] = NoFile]
    /\ UNCHANGED <<reqVars, sum, fd, status, tmp, data, body, info, versionVars>>

----------------------------------------------------------------------------
(* DELETE ?versionId: delete_object_version and repromote_latest.          *)

\* The client names any identifier it was given or saw in a listing, or one
\* that does not exist (NoVid).
DeleteVersion(r, k) ==
    /\ Admit(r, k)
    /\ Begin(r, "deleteVersion", k, "purge")
    /\ last' = [last EXCEPT ![k] = r]
    /\ \E v \in Entries(k) \cup vmeta[k] \cup {NoVid} :
        /\ vid' = [vid EXCEPT ![r] = v]
        /\ vdata' = [vdata EXCEPT ![k] = @ \ {v}]
    /\ UNCHANGED <<mode, from, src, sum, fd, status, mirrorVars, vdir, vbody, vmeta,
                   vinfo, vmark>>

PurgeRest(r) ==
    LET k == key[r] IN
    /\ pc[r] = "purge"
    /\ Goto(r, "scan")
    /\ vmeta' = [vmeta EXCEPT ![k] = @ \ {vid[r]}]
    /\ vmark' = [vmark EXCEPT ![k] = @ \ {vid[r]}]
    /\ UNCHANGED <<reqVars, sum, fd, status, mirrorVars, vdir, vdata, vbody, vinfo>>

Scan(r) ==
    LET k == key[r] IN
    /\ pc[r] = "scan"
    /\ \/ /\ ~vdir[k]
          /\ Goto(r, "tidy")
          /\ UNCHANGED src
       \/ /\ vdir[k]
          /\ \A v \in Entries(k) : IsNewest(k, v) => v \in vmark[k]
          /\ Goto(r, "unlink")
          /\ UNCHANGED src
       \/ \E v \in vdata[k] \ vmark[k] :
          /\ vdir[k] /\ IsNewest(k, v)
          /\ Goto(r, "mirror")
          /\ src' = [src EXCEPT ![r] = v]
    /\ UNCHANGED <<op, key, mode, from, vid, last, sum, fd, fileVars>>

\* fs::copy of the version over the live data file: in place if there is one.
MirrorOpen(r) ==
    LET k == key[r]  i == Opened(data[k], r) IN
    /\ pc[r] = "mirror"
    /\ IF src[r] \notin vdata[k]
       THEN Goto(r, "failed") /\ UNCHANGED <<data, body, fd>>
       ELSE /\ Goto(r, "mirrorfill")
            /\ data' = [data EXCEPT ![k] = i]
            /\ body' = [body EXCEPT ![i] = <<>>]
            /\ fd' = [fd EXCEPT ![r] = i]
    /\ UNCHANGED <<reqVars, sum, status, tmp, meta, info, versionVars>>

\* Block by block; then the metadata, if the version has any.
MirrorFill(r) ==
    LET n == Len(sum[r])  version == vbody[src[r]] IN
    /\ pc[r] = "mirrorfill"
    /\ IF n < Len(version)
       THEN /\ body' = [body EXCEPT ![fd[r]] = WriteAt(@, n + 1, version[n + 1])]
            /\ sum' = [sum EXCEPT ![r] = Append(@, version[n + 1])]
            /\ UNCHANGED pc
       ELSE /\ Goto(r, IF src[r] \in vmeta[key[r]] THEN "meta" ELSE "tidy")
            /\ UNCHANGED <<body, sum>>
    /\ UNCHANGED <<reqVars, fd, status, tmp, data, meta, info, versionVars>>

\* remove_dir, of a directory that is empty.
Tidy(r) ==
    LET k == key[r] IN
    /\ pc[r] = "tidy"
    /\ Goto(r, "ok")
    /\ vdir' = [vdir EXCEPT ![k] = @ /\ Entries(k) \cup vmeta[k] # {}]
    /\ UNCHANGED <<reqVars, sum, fd, status, mirrorVars, vdata, vbody, vmeta, vinfo, vmark>>

----------------------------------------------------------------------------
(* GET, and PUT ?versioning.                                               *)

\* The descriptor is opened, and the length it has then is announced.
GetObject(r, k) ==
    LET found == data[k] # NoFile IN
    /\ pc[r] = "idle"
    /\ Begin(r, "get", k, IF found THEN "stream" ELSE "failed")
    /\ fd' = [fd EXCEPT ![r] = data[k]]
    /\ sum' = [sum EXCEPT ![r] = IF found THEN body[data[k]] ELSE <<>>]
    /\ UNCHANGED <<mode, from, vid, src, last, fileVars>>

\* read_meta of <vid>.meta: nothing of a file that is missing or unfilled.
Described(k, v) == v \in vmeta[k] /\ vinfo[v] # Empty

\* GET ?versionId of an identifier the client knows or makes up: 405 for a
\* delete marker, 404 without data.  The metadata is read, and then the file
\* is opened and its length announced.
GetObjectVersion(r, k) ==
    /\ pc[r] = "idle"
    /\ \E v \in Entries(k) \cup {NoVid} :
        LET found == v \in vdata[k] \ vmark[k] IN
        /\ Begin(r, "getVersion", k, IF found THEN "stream" ELSE "failed")
        /\ vid' = [vid EXCEPT ![r] = v]
        /\ sum' = [sum EXCEPT ![r] = IF found THEN vbody[v] ELSE <<>>]
        /\ src' = [src EXCEPT ![r] = IF found /\ Described(k, v) THEN v ELSE NoVid]
    /\ UNCHANGED <<mode, from, last, fd, fileVars>>

\* What the descriptor of a GET yields now, also if its name is gone.
Contents(r) == IF op[r] = "getVersion" THEN vbody[vid[r]] ELSE body[fd[r]]

\* The response body is what the descriptor yields when it is read, up to the
\* announced length or the end of the file.
EndGet(r) ==
    LET c == Contents(r) IN
    /\ pc[r] = "stream"
    /\ Goto(r, "ok")
    /\ sum' = [sum EXCEPT ![r] = SubSeq(c, 1, IF Len(@) < Len(c) THEN Len(@) ELSE Len(c))]
    /\ UNCHANGED <<reqVars, fd, fileVars>>

\* fs::write truncates .versioning, which then reads as Disabled, and fills it.
PutVersioning(r, m) ==
    /\ pc[r] = "idle"
    /\ Begin(r, "putVersioning", NoFile, "config")
    /\ mode' = [mode EXCEPT ![r] = m]
    /\ status' = "Disabled"
    /\ UNCHANGED <<from, vid, src, last, sum, fd, mirrorVars, versionVars>>

PutVersioningFill(r) ==
    /\ pc[r] = "config"
    /\ Goto(r, "ok")
    /\ status' = mode[r]
    /\ UNCHANGED <<reqVars, sum, fd, mirrorVars, versionVars>>

----------------------------------------------------------------------------
(* Failure, and the specification.                                         *)

\* The handler stops where it is and leaves the files as they are: an I/O
\* error propagated by `?`, a panic, a client that disconnects before the end
\* of its chunked body, or (to all handlers at once) a crash of the server.
\* A PUT ?versioning that stops leaves .versioning truncated.
Abandon(r) ==
    /\ Faults
    /\ Active(r)
    /\ op[r] \in MutatorOps \cup {"putVersioning"}
    /\ Goto(r, "failed")
    /\ UNCHANGED <<reqVars, sum, fd, fileVars>>

\* Every request is served: the instance is exhausted, not stuck.
Served ==
    /\ \A r \in Reqs : pc[r] \in Final
    /\ UNCHANGED vars

Receive(r, k) ==
    \/ PutObjectWriter(r, k)
    \/ \E k0 \in Keys : CopyObject(r, k0, k)
    \/ DeleteObject(r, k)
    \/ DeleteVersion(r, k)
    \/ GetObject(r, k)
    \/ GetObjectVersion(r, k)

\* The steps a handler takes on its own, once its body is received.
Handle(r) ==
    \/ CopyWriter(r)
    \/ CopyBlock(r)
    \/ FinishCopy(r)
    \/ PutVersion(r)
    \/ CopyOpen(r)
    \/ CopyFill(r)
    \/ VersionMeta(r)
    \/ VersionMetaFill(r)
    \/ MetaCreate(r)
    \/ MetaFill(r)
    \/ MarkerVersion(r)
    \/ CreateMarker(r)
    \/ UnlinkData(r)
    \/ UnlinkMeta(r)
    \/ PurgeRest(r)
    \/ Scan(r)
    \/ MirrorOpen(r)
    \/ MirrorFill(r)
    \/ Tidy(r)
    \/ PutVersioningFill(r)

Next ==
    \/ \E r \in Reqs :
        \/ \E k \in Keys : Receive(r, k)
        \/ \E m \in {"Enabled", "Suspended"} : PutVersioning(r, m)
        \/ WriteBlock(r)
        \/ Abort(r)
        \/ Rename(r)
        \/ Handle(r)
        \/ EndGet(r)
        \/ Abandon(r)
    \/ Served

Spec == Init /\ [][Next]_vars

\* Each thread runs on: the scheduler is fair to the handler's own steps, and
\* nothing is assumed of the client.
FairSpec == Spec /\ \A r \in Reqs : WF_vars(Handle(r))

----------------------------------------------------------------------------
(* Properties.                                                             *)

\* The keys whose mutating requests, and those of the keys with the same
\* temporary path, come one at a time.
SerialKeys ==
    {k \in Keys : \A k2 \in Keys :
        Stem[k2] = Stem[k] => {<<k, k2>>, <<k2, k>>} \subseteq Exclusive}

Purged(v) == \E q \in Reqs : op[q] = "deleteVersion" /\ vid[q] = v

\* A PUT that was answered 200 with a version nobody deleted since.
Acked(r) == op[r] \in PutOps /\ pc[r] = "ok" /\ vid[r] # NoVid /\ ~Purged(vid[r])

\* The version of an acknowledged PUT, and the marker of an acknowledged
\* DELETE, stay under versions/ with the metadata of that very request until
\* a client deletes that version: whatever runs at the same time, whatever
\* crashes, and also when the last file of the directory is being tidied.
AckedDurable ==
    \A r \in Reqs :
        /\ Acked(r) =>
            /\ vid[r] \in vdata[key[r]] \cap vmeta[key[r]]
            /\ vinfo[vid[r]] = [etag |-> sum[r], vid |-> vid[r]]
        /\ op[r] = "delete" /\ pc[r] = "ok" /\ vid[r] # NoVid /\ ~Purged(vid[r]) =>
            vid[r] \in vmark[key[r]]

\* The bytes of an acknowledged version never change again: neither a retry,
\* nor a repromotion, nor a copy of another request writes to its file.
AckedVersionFrozen ==
    [][\A r \in Reqs : Acked(r) => vbody'[vid[r]] = vbody[vid[r]]]_vars

\* If the mutating requests on a key come one at a time, the version a PUT
\* reports holds exactly the bytes it received, although finish copies them
\* from the live name after the rename.
AckedVersionWhole ==
    \A r \in Reqs : Acked(r) /\ key[r] \in SerialKeys => vbody[vid[r]] = sum[r]

\* After the last mutating request on a serial key succeeded, the live files
\* are those of that request, whatever debris the failed ones before it left.
ReadYourWrites ==
    \A k \in SerialKeys : last[k] # NoFile =>
        LET r == last[k] IN
        /\ op[r] \in PutOps /\ pc[r] = "ok" =>
            /\ data[k] # NoFile /\ body[data[k]] = sum[r]
            /\ meta[k] # NoFile /\ info[meta[k]] = [etag |-> sum[r], vid |-> vid[r]]
        /\ op[r] = "delete" /\ pc[r] = "ok" => data[k] = NoFile

\* A request that was answered and found the bucket to record versions; one
\* that removes a version does not ask.  A PUT or DELETE that reads .versioning
\* while fs::write has it truncated, or after that was cut off, finds it off
\* and leaves the versions there are as they are.
Tracked(r) == pc[r] = "ok" /\ (op[r] = "deleteVersion" \/ Records(mode[r]))

\* After the last mutating request on a serial key succeeded, the live data
\* file is the newest entry under versions/: its bytes, or no file if it is a
\* delete marker; also when what was deleted was the live version, and also
\* if requests before it found no versioning because a PUT ?versioning was
\* under way or had crashed.
MirrorsNewest ==
    \A k \in SerialKeys : last[k] # NoFile /\ Tracked(last[k]) =>
        \A v \in Entries(k) : IsNewest(k, v) =>
            IF v \in vmark[k]
            THEN data[k] = NoFile
            ELSE data[k] # NoFile /\ body[data[k]] = vbody[v]

\* A GET serves the whole body of one upload of that key, and a COPY stores
\* the whole body a client sent: never a part, a mix or a hole, even if the
\* object is replaced or deleted while it is read.  A GET of a version that
\* is still being copied announces and serves a beginning of that version's
\* upload; once it has the version's ETag to tell, it serves all of it.
ServedWhole ==
    \A r \in Reqs : pc[r] = "ok" /\ key[r] \in SerialKeys =>
        /\ op[r] = "get" =>
            \E q \in Reqs : op[q] \in PutOps /\ key[q] = key[r] /\ sum[q] = sum[r]
        /\ op[r] = "copy" =>
            \E q \in Reqs : op[q] = "put" /\ sum[q] = sum[r]
        /\ op[r] = "getVersion" /\ sum[r] # <<>> =>
            \E q \in Reqs : op[q] \in PutOps /\ vid[q] = vid[r] /\ IsPrefix(sum[r], sum[q])
        /\ op[r] = "getVersion" /\ src[r] # NoVid =>
            \E q \in Reqs : op[q] \in PutOps /\ vid[q] = vid[r] /\ sum[q] = sum[r]

\* A handler that has its request does not wait for another one: it answers,
\* whatever the other handlers do and wherever they stop.
Answered == \A r \in Reqs : pc[r] \in ServerPaced ~> pc[r] \in Final

(* What the comments of the code say, and the code does not do.            *)

\* storage.rs:553, "Mirror data + meta into the versions store": a version's
\* data is what its metadata describes, also for overlapping PUTs on a key.
VersionMatchesMeta ==
    \A r \in Reqs : Acked(r) => vbody[vid[r]] = vinfo[vid[r]].etag

\* storage.rs:6, "data/<key> - latest version data": what a key serves after
\* a PUT is what that PUT sent, if the requests on that key do not overlap.
LatestData ==
    \A k \in Keys : last[k] # NoFile /\ <<k, k>> \in Exclusive =>
        LET r == last[k] IN
        op[r] \in PutOps /\ pc[r] = "ok" => data[k] # NoFile /\ body[data[k]] = sum[r]

\* storage.rs:348, "Re-establishes the data/<key> + meta/<key>.meta mirror to
\* reflect the newest": after a repromotion the live metadata is its too.
MirrorsNewestMeta ==
    \A k \in SerialKeys :
        /\ last[k] # NoFile /\ op[last[k]] = "deleteVersion" /\ pc[last[k]] = "ok"
        /\ meta[k] # NoFile
        => \A v \in vdata[k] : IsNewest(k, v) => info[meta[k]] \in {Empty, vinfo[v]}

\* storage.rs:294, "previous versions still live under versions/": a DELETE
\* with versioning on removes the live file of an object that is kept there.
PreviousLivesOn ==
    [][\A r \in Reqs :
        /\ op[r] = "delete" /\ Records(mode[r])
        /\ pc[r] = "unlink" /\ pc'[r] = "unlinkmeta" /\ data[key[r]] # NoFile
        => \E v \in vdata[key[r]] : vbody[v] = body[data[key[r]]]]_vars
=============================================================================
