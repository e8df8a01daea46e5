---------------------------- MODULE SerialKeyProofs ----------------------------
(***************************************************************************)
(* What holds of the keys whose mutating requests come one at a time:      *)
(* AckedVersionWhole, ReadYourWrites, MirrorsNewest and ServedWhole, and   *)
(* of the listing of versions AckedListed and LatestIsLive.                *)
(*                                                                         *)
(* They need to know that nobody else writes to the inode behind a name.   *)
(* That has a part that is true of every key, whatever overlaps: an inode  *)
(* never leaves the keys of its temporary path (Territory), has one name   *)
(* at most and none before it exists (OneName); and a part that serial     *)
(* keys add: one handler at a time (Sole), so that what a handler has put  *)
(* behind a name is there at its next step (UploadHeld, LiveHeld,          *)
(* VersionHeld, MetaHeld).                                                 *)
(*                                                                         *)
(* MirrorsNewest also needs the order of the versions: whose request each  *)
(* of them is (Owned), that the last handler's is the newest (Ascending),  *)
(* and what the handler that records a version, or the scan and the copy   *)
(* of repromote_latest, keeps knowing while it acts (Mirrored).            *)
(*                                                                         *)
(* ServedWhole follows the bytes into a reader: a live file is Sealed, so  *)
(* what a GET or a COPY has opened does not change under it, and it holds  *)
(* the body of a request that had all of it (LiveWhole); a version holds a *)
(* beginning of such a body, all of it once it is described (VersionWhole);*)
(* what the reader has of it is a beginning of that (ReadersWhole).        *)
(*                                                                         *)
(* AckedListed and LatestIsLive read the files of versions themselves:     *)
(* which of a version's are there, and what they say of it (Shown).        *)
(***************************************************************************)
EXTENDS ObjectStoreProofs, Versions, SequenceTheorems, WellFoundedInduction

\* A handler that has a data file open for writing.
DataOpen == Uploading \cup {"mirrorfill"}

\* Where the name of a file says who may have created its inode.
Territory ==
    /\ \A s \in Stems : tmp[s] # NoFile =>
        op[tmp[s]] \in MutatorOps /\ Stem[key[tmp[s]]] = s
    /\ \A k \in Keys : data[k] # NoFile =>
        op[data[k]] \in MutatorOps /\ Stem[key[data[k]]] = Stem[k]
    /\ \A k \in Keys : meta[k] # NoFile =>
        op[meta[k]] \in MutatorOps /\ key[meta[k]] = k
    /\ \A r \in Reqs : pc[r] \in DataOpen =>
        op[fd[r]] \in MutatorOps /\ Stem[key[fd[r]]] = Stem[key[r]]
    /\ \A r \in Reqs : pc[r] = "metafill" =>
        op[fd[r]] \in MutatorOps /\ key[fd[r]] = key[r]

\* A handler that has not created its inode.
Unborn == {"idle", "writer", "purge", "scan", "mirror"}

OneName ==
    /\ \A k \in Keys : data[k] # NoFile => data[k] # tmp[Stem[k]]
    /\ \A k, k2 \in Keys : data[k] # NoFile /\ data[k] = data[k2] => k = k2
    /\ \A r \in Reqs : pc[r] \in Unborn =>
        /\ \A k \in Keys : data[k] # r
        /\ \A s \in Stems : tmp[s] # r
        /\ \A q \in Reqs : pc[q] \in DataOpen => fd[q] # r
    /\ \A r \in Reqs : pc[r] = "mirrorfill" =>
        /\ \A k \in Keys : data[k] = fd[r] => k = key[r]
        /\ \A s \in Stems : tmp[s] # fd[r]

\* No two handlers write next to each other under the path of a serial key,
\* and the one that does is the last that began on its key.
Sole ==
    /\ \A r, q \in Reqs :
        /\ Mutating(r) /\ Mutating(q)
        /\ key[r] \in SerialKeys /\ Stem[key[q]] = Stem[key[r]]
        => r = q
    /\ \A r \in Reqs : Mutating(r) /\ key[r] \in SerialKeys => last[key[r]] = r
    /\ \A k \in Keys : last[k] # NoFile => op[last[k]] \in MutatorOps /\ key[last[k]] = k

\* Nobody uploads into the live file of a serial key.
Apart ==
    \A k \in SerialKeys, r \in Reqs : pc[r] \in Uploading => fd[r] # data[k]

UploadHeld ==
    \A r \in Reqs :
        /\ pc[r] \in Unborn => sum[r] = <<>>
        /\ pc[r] \in Uploading /\ key[r] \in SerialKeys =>
            tmp[Stem[key[r]]] = fd[r] /\ body[fd[r]] = sum[r]

\* A request that is under way, or whose effect nobody has replaced.
Standing(r) == last[key[r]] = r

Renamed == {"version", "copy", "copyfill", "vmeta", "vmetafill", "meta", "metafill", "ok"}

LiveHeld ==
    \A r \in Reqs : op[r] \in MutatorOps /\ key[r] \in SerialKeys /\ Standing(r) =>
        /\ op[r] \in PutOps /\ pc[r] \in Renamed =>
            data[key[r]] # NoFile /\ body[data[key[r]]] = sum[r]
        /\ pc[r] \in {"copyfill", "mirrorfill"} => fd[r] = data[key[r]]
        /\ op[r] = "delete" /\ pc[r] \in {"unlinkmeta", "ok"} => data[key[r]] = NoFile

VersionHeld ==
    \A r \in Reqs : op[r] \in PutOps /\ key[r] \in SerialKeys /\ vid[r] # NoVid =>
        /\ pc[r] = "copyfill" => IsPrefix(vbody[vid[r]], sum[r])
        /\ pc[r] \in {"vmeta", "vmetafill", "meta", "metafill", "ok"} => vbody[vid[r]] = sum[r]

MetaHeld ==
    \A r \in Reqs : op[r] \in PutOps /\ key[r] \in SerialKeys /\ Standing(r) =>
        /\ pc[r] = "metafill" => meta[key[r]] = fd[r]
        /\ pc[r] = "ok" => /\ meta[key[r]] # NoFile
                           /\ info[meta[key[r]]] = [etag |-> sum[r], vid |-> vid[r]]

SInv ==
    /\ IInv /\ Territory /\ OneName /\ Sole
    /\ Apart /\ UploadHeld /\ LiveHeld /\ VersionHeld /\ MetaHeld

----------------------------------------------------------------------------
(* The steps of the specification, by what they do to the live files, to   *)
(* the bytes of the versions and to the requests.                          *)

\* A mutating request begins and opens nothing for writing.
Enters(r) ==
    /\ \E k \in Keys, o \in MutatorOps, next \in {"failed", "writer", "marker", "unlink", "purge"} :
        /\ Admit(r, k)
        /\ pc' = [pc EXCEPT ![r] = next]
        /\ op' = [op EXCEPT ![r] = o]
        /\ key' = [key EXCEPT ![r] = k]
        /\ last' = [last EXCEPT ![k] = r]
    /\ \/ vid' = vid
       \/ op'[r] = "deleteVersion" /\ \E v : vid' = [vid EXCEPT ![r] = v]
    /\ UNCHANGED <<sum, fd, tmp, data, body, meta, info, vbody>>

\* A request that changes no object begins.
Reads(r) ==
    /\ pc[r] = "idle"
    /\ \E o \in {"get", "getVersion", "putVersioning"}, next \in {"failed", "stream", "config"} :
        op' = [op EXCEPT ![r] = o] /\ pc' = [pc EXCEPT ![r] = next]
    /\ \E k : key' = [key EXCEPT ![r] = k]
    /\ vid' = vid \/ \E v : vid' = [vid EXCEPT ![r] = v]
    /\ sum' = sum \/ \E c : sum' = [sum EXCEPT ![r] = c]
    /\ fd' = fd \/ \E i : fd' = [fd EXCEPT ![r] = i]
    /\ UNCHANGED <<last, tmp, data, body, meta, info, vbody>>

\* It ends.
ReadsOn(r) ==
    /\ op[r] \in {"get", "getVersion", "putVersioning"}
    /\ \E next \in Final : pc' = [pc EXCEPT ![r] = next]
    /\ sum' = sum \/ \E c : sum' = [sum EXCEPT ![r] = c]
    /\ UNCHANGED <<op, key, last, vid, fd, tmp, data, body, meta, info, vbody>>

\* The temporary file of key k is opened.
Opens(r, k) ==
    /\ k \in Keys /\ Stem[k] \in Stems
    /\ \E i \in Reqs :
        /\ i = tmp[Stem[k]] \/ (tmp[Stem[k]] = NoFile /\ i = r)
        /\ tmp' = [tmp EXCEPT ![Stem[k]] = i]
        /\ body' = [body EXCEPT ![i] = <<>>]
        /\ fd' = [fd EXCEPT ![r] = i]
    /\ UNCHANGED <<vid, sum, data, meta, info, vbody>>

Puts(r) ==
    \E k \in Keys :
        /\ Admit(r, k)
        /\ pc' = [pc EXCEPT ![r] = "body"]
        /\ op' = [op EXCEPT ![r] = "put"]
        /\ key' = [key EXCEPT ![r] = k]
        /\ last' = [last EXCEPT ![k] = r]
        /\ Opens(r, k)

Copies(r) ==
    /\ pc[r] = "writer" /\ op[r] = "copy"
    /\ pc' = [pc EXCEPT ![r] = "blocks"]
    /\ UNCHANGED <<op, key, last>>
    /\ Opens(r, key[r])

Writes(r) ==
    /\ pc[r] \in {"body", "blocks"} /\ fd[r] \in Reqs
    /\ \E b \in Block :
        /\ body' = [body EXCEPT ![fd[r]] = WriteAt(@, Len(sum[r]) + 1, b)]
        /\ sum' = [sum EXCEPT ![r] = Append(@, b)]
    /\ UNCHANGED <<pc, op, key, last, vid, fd, tmp, data, meta, info, vbody>>

\* What a handler does elsewhere, from where to where.
Elsewhere ==
    {<<"blocks", "rename">>, <<"version", "copy">>, <<"vmeta", "vmetafill">>,
     <<"vmetafill", "meta">>, <<"marker", "markfile">>, <<"markfile", "unlink">>,
     <<"purge", "scan">>, <<"scan", "unlink">>, <<"scan", "tidy">>, <<"scan", "mirror">>,
     <<"tidy", "ok">>}

Advances(r, next) ==
    /\ op[r] \in MutatorOps /\ pc[r] \notin Final \cup {"idle"}
    /\ pc' = [pc EXCEPT ![r] = next]
    /\ next = "failed" \/ <<pc[r], next>> \in Elsewhere
    /\ \/ vid' = vid
       \/ pc[r] \in {"version", "marker"} /\ \E v \in Vids : vid' = [vid EXCEPT ![r] = v]
    /\ UNCHANGED <<op, key, last, sum, fd, tmp, data, body, meta, info, vbody>>

Aborts(r) ==
    /\ pc[r] \in Uploading /\ op[r] \in PutOps /\ key[r] \in Keys
    /\ pc' = [pc EXCEPT ![r] = "failed"]
    /\ tmp' = [tmp EXCEPT ![Stem[key[r]]] = NoFile]
    /\ UNCHANGED <<op, key, last, vid, sum, fd, data, body, meta, info, vbody>>

Renames(r) ==
    /\ pc[r] \in Uploading /\ op[r] \in PutOps /\ key[r] \in Keys /\ vid[r] = NoVid
    /\ pc[r] # "blocks"
    /\ Stem[key[r]] \in Stems /\ tmp[Stem[key[r]]] # NoFile
    /\ \E next \in {"version", "meta"} : pc' = [pc EXCEPT ![r] = next]
    /\ data' = [data EXCEPT ![key[r]] = tmp[Stem[key[r]]]]
    /\ tmp' = [tmp EXCEPT ![Stem[key[r]]] = NoFile]
    /\ UNCHANGED <<op, key, last, vid, sum, fd, body, meta, info, vbody>>

OpensVersion(r) ==
    /\ pc[r] = "copy" /\ op[r] \in PutOps /\ key[r] \in Keys /\ vid[r] \in Vids
    /\ data[key[r]] # NoFile
    /\ pc' = [pc EXCEPT ![r] = "copyfill"]
    /\ fd' = [fd EXCEPT ![r] = data[key[r]]]
    /\ vbody' = [vbody EXCEPT ![vid[r]] = <<>>]
    /\ UNCHANGED <<op, key, last, vid, sum, tmp, data, body, meta, info>>

FillsVersion(r) ==
    /\ pc[r] = "copyfill" /\ op[r] \in PutOps /\ key[r] \in Keys /\ vid[r] \in Vids
    /\ fd[r] \in Reqs
    /\ \E next \in {"copyfill", "vmeta"} :
        /\ pc' = [pc EXCEPT ![r] = next]
        /\ next = "copyfill" =>
            /\ Len(vbody[vid[r]]) < Len(body[fd[r]])
            /\ vbody' = [vbody EXCEPT ![vid[r]] = Append(@, body[fd[r]][Len(@) + 1])]
        /\ next = "vmeta" => ~(Len(vbody[vid[r]]) < Len(body[fd[r]])) /\ vbody' = vbody
    /\ UNCHANGED <<op, key, last, vid, sum, fd, tmp, data, body, meta, info>>

OpensMeta(r) ==
    /\ pc[r] = "meta" /\ op[r] \in MutatorOps /\ key[r] \in Keys
    /\ pc' = [pc EXCEPT ![r] = "metafill"]
    /\ \E i \in Reqs :
        /\ i = meta[key[r]] \/ (meta[key[r]] = NoFile /\ i = r)
        /\ meta' = [meta EXCEPT ![key[r]] = i]
        /\ info' = [info EXCEPT ![i] = Empty]
        /\ fd' = [fd EXCEPT ![r] = i]
    /\ UNCHANGED <<op, key, last, vid, sum, tmp, data, body, vbody>>

FillsMeta(r) ==
    /\ pc[r] = "metafill" /\ fd[r] \in Reqs /\ key[r] \in Keys
    /\ \/ /\ op[r] \in PutOps
          /\ pc' = [pc EXCEPT ![r] = "ok"]
          /\ info' = [info EXCEPT ![fd[r]] = [etag |-> sum[r], vid |-> vid[r]]]
       \/ /\ op[r] = "deleteVersion"
          /\ pc' = [pc EXCEPT ![r] = "tidy"]
          /\ \E c : info' = [info EXCEPT ![fd[r]] = c]
    /\ UNCHANGED <<op, key, last, vid, sum, fd, tmp, data, body, meta, vbody>>

Unlinks(r) ==
    /\ pc[r] = "unlink" /\ op[r] \in {"delete", "deleteVersion"} /\ key[r] \in Keys
    /\ data' = [data EXCEPT ![key[r]] = NoFile]
    /\ pc' = [pc EXCEPT ![r] = "unlinkmeta"] \/ (op[r] = "delete" /\ pc' = [pc EXCEPT ![r] = "ok"])
    /\ UNCHANGED <<op, key, last, vid, sum, fd, tmp, body, meta, info, vbody>>

UnlinksMeta(r) ==
    /\ pc[r] = "unlinkmeta" /\ op[r] \in {"delete", "deleteVersion"} /\ key[r] \in Keys
    /\ meta' = [meta EXCEPT ![key[r]] = NoFile]
    /\ \/ op[r] = "delete" /\ pc' = [pc EXCEPT ![r] = "ok"]
       \/ op[r] = "deleteVersion" /\ pc' = [pc EXCEPT ![r] = "tidy"]
    /\ UNCHANGED <<op, key, last, vid, sum, fd, tmp, data, body, info, vbody>>

OpensMirror(r) ==
    /\ pc[r] = "mirror" /\ op[r] = "deleteVersion" /\ key[r] \in Keys
    /\ pc' = [pc EXCEPT ![r] = "mirrorfill"]
    /\ \E i \in Reqs :
        /\ i = data[key[r]] \/ (data[key[r]] = NoFile /\ i = r)
        /\ data' = [data EXCEPT ![key[r]] = i]
        /\ body' = [body EXCEPT ![i] = <<>>]
        /\ fd' = [fd EXCEPT ![r] = i]
    /\ UNCHANGED <<op, key, last, vid, sum, tmp, meta, info, vbody>>

FillsMirror(r) ==
    /\ pc[r] = "mirrorfill" /\ op[r] = "deleteVersion" /\ key[r] \in Keys /\ fd[r] \in Reqs
    /\ src[r] \in Vids
    /\ \E next \in {"mirrorfill", "meta", "tidy"} :
        /\ pc' = [pc EXCEPT ![r] = next]
        /\ LET n == Len(sum[r]) IN
            /\ next = "mirrorfill" =>
                /\ n < Len(vbody[src[r]])
                /\ body' = [body EXCEPT ![fd[r]] = WriteAt(@, n + 1, vbody[src[r]][n + 1])]
                /\ sum' = [sum EXCEPT ![r] = Append(@, vbody[src[r]][n + 1])]
            /\ next # "mirrorfill" => ~(n < Len(vbody[src[r]])) /\ UNCHANGED <<body, sum>>
    /\ UNCHANGED <<op, key, last, vid, fd, tmp, data, meta, info, vbody>>

Stutters == UNCHANGED <<pc, op, key, last, vid, sum, fd, tmp, data, body, meta, info, vbody>>

Kinds(r) ==
    \/ Enters(r) \/ Reads(r) \/ ReadsOn(r) \/ Puts(r) \/ Copies(r) \/ Writes(r)
    \/ (\E next : Advances(r, next))
    \/ Aborts(r) \/ Renames(r) \/ OpensVersion(r) \/ FillsVersion(r) \/ OpensMeta(r)
    \/ FillsMeta(r) \/ Unlinks(r) \/ UnlinksMeta(r) \/ OpensMirror(r) \/ FillsMirror(r)

\* Every step is of one of these kinds.
LEMMA StepKinds ==
    ASSUME TypeOK, Control, [Next]_vars
    PROVE  Stutters \/ \E r \in Reqs : Kinds(r)
<1>. USE DEF Goto, reqVars, mirrorVars, versionVars, fileVars
<1>1. ASSUME NEW r \in Reqs, NEW k \in Keys, PutObjectWriter(r, k) PROVE Puts(r)
  <2>1. Stem[k] \in Stems /\ tmp[Stem[k]] \in Reqs \cup {NoFile}
    BY StemAssumption DEF TypeOK, Inodes
  <2>2. \E i \in Reqs : /\ i = tmp[Stem[k]] \/ (tmp[Stem[k]] = NoFile /\ i = r)
                        /\ tmp' = [tmp EXCEPT ![Stem[k]] = i]
                        /\ body' = [body EXCEPT ![i] = <<>>]
                        /\ fd' = [fd EXCEPT ![r] = i]
    <3>. DEFINE i == Opened(tmp[Stem[k]], r)
    <3>1. i \in Reqs /\ (i = tmp[Stem[k]] \/ (tmp[Stem[k]] = NoFile /\ i = r))
      BY <1>1, <2>1 DEF Opened
    <3>2. /\ tmp' = [tmp EXCEPT ![Stem[k]] = i] /\ body' = [body EXCEPT ![i] = <<>>]
          /\ fd' = [fd EXCEPT ![r] = i]
      BY <1>1, <2>1 DEF PutObjectWriter, OpenUpload
    <3>. HIDE DEF i
    <3>. QED
      BY <3>1, <3>2
  <2>. QED
    BY <1>1, <2>1, <2>2 DEF PutObjectWriter, Begin, Puts, Opens
<1>2. ASSUME NEW r \in Reqs, NEW k \in Keys, DeleteObject(r, k) PROVE Enters(r)
  BY <1>2 DEF DeleteObject, Begin, Enters, MutatorOps
<1>3. ASSUME NEW r \in Reqs, NEW k \in Keys, DeleteVersion(r, k) PROVE Enters(r)
  BY <1>3 DEF DeleteVersion, Begin, Enters, MutatorOps, TypeOK
<1>4. ASSUME NEW r \in Reqs, NEW k \in Keys, GetObject(r, k) PROVE Reads(r)
  BY <1>4 DEF GetObject, Begin, Reads
<1>5. ASSUME NEW r \in Reqs, NEW m \in {"Enabled", "Suspended"}, PutVersioning(r, m) PROVE Reads(r)
  BY <1>5 DEF PutVersioning, Begin, Reads
<1>6. ASSUME NEW r \in Reqs, WriteBlock(r) PROVE Writes(r)
  BY <1>6 DEF WriteBlock, Writes, Control, Uploading, Block
<1>7. ASSUME NEW r \in Reqs, Abort(r) PROVE Aborts(r)
  BY <1>7 DEF Abort, Aborts, Control, Uploading, PutOps, MutatorOps
<1>8. ASSUME NEW r \in Reqs, Rename(r) PROVE Renames(r) \/ Advances(r, "failed")
  <2>1. /\ pc[r] \in Uploading /\ op[r] \in PutOps /\ key[r] \in Keys /\ vid[r] = NoVid
        /\ op[r] \in MutatorOps
    BY <1>8 DEF Rename, Control, Uploading, PutOps, MutatorOps
  <2>2. Stem[key[r]] \in Stems
    BY <2>1, StemAssumption
  <2>3. CASE tmp[Stem[key[r]]] = NoFile
    BY <1>8, <2>1, <2>3 DEF Rename, Advances, Uploading, Final
  <2>4. CASE tmp[Stem[key[r]]] # NoFile
    BY <1>8, <2>1, <2>2, <2>4 DEF Rename, Renames
  <2>. QED
    BY <2>3, <2>4
<1>9. ASSUME NEW r \in Reqs, EndGet(r) PROVE ReadsOn(r)
  BY <1>9 DEF EndGet, ReadsOn, Control, Final
<1>10. ASSUME NEW r \in Reqs, Abandon(r) PROVE Advances(r, "failed") \/ ReadsOn(r)
  <2>1. CASE op[r] \in MutatorOps
    BY <1>10, <2>1 DEF Abandon, Active, Advances
  <2>2. CASE op[r] = "putVersioning"
    BY <1>10, <2>2 DEF Abandon, Active, ReadsOn, Final
  <2>. QED
    BY <1>10, <2>1, <2>2 DEF Abandon
<1>11. ASSUME NEW r \in Reqs, PutVersion(r) PROVE Advances(r, "copy")
  BY <1>11 DEF PutVersion, NewVersion, Advances, Elsewhere, Control, MutatorOps, Final
<1>12. ASSUME NEW r \in Reqs, CopyOpen(r) PROVE Advances(r, "failed") \/ OpensVersion(r)
  <2>1. pc[r] = "copy" /\ op[r] \in PutOps /\ op[r] \in MutatorOps /\ key[r] \in Keys /\ vid[r] \in Vids
    BY <1>12 DEF CopyOpen, Control, MutatorOps, TypeOK
  <2>2. CASE data[key[r]] = NoFile \/ ~vdir[key[r]]
    BY <1>12, <2>1, <2>2 DEF CopyOpen, Advances, Final
  <2>3. CASE ~(data[key[r]] = NoFile \/ ~vdir[key[r]])
    BY <1>12, <2>1, <2>3 DEF CopyOpen, OpensVersion
  <2>. QED
    BY <2>2, <2>3
<1>13. ASSUME NEW r \in Reqs, CopyFill(r) PROVE FillsVersion(r)
  <2>1. /\ pc[r] = "copyfill" /\ op[r] \in PutOps /\ key[r] \in Keys /\ vid[r] \in Vids
        /\ fd[r] \in Reqs
        /\ UNCHANGED <<op, key, last, vid, sum, fd, tmp, data, body, meta, info>>
    BY <1>13 DEF CopyFill, Control, MutatorOps, TypeOK, Uploading
  <2>2. CASE Len(vbody[vid[r]]) < Len(body[fd[r]])
    <3>1. /\ pc' = [pc EXCEPT ![r] = "copyfill"]
          /\ vbody' = [vbody EXCEPT ![vid[r]] = Append(@, body[fd[r]][Len(@) + 1])]
      BY <1>13, <2>1, <2>2 DEF CopyFill, TypeOK
    <3>. QED
      BY <2>1, <2>2, <3>1 DEF FillsVersion
  <2>3. CASE ~(Len(vbody[vid[r]]) < Len(body[fd[r]]))
    <3>1. pc' = [pc EXCEPT ![r] = "vmeta"] /\ vbody' = vbody
      BY <1>13, <2>3 DEF CopyFill
    <3>. QED
      BY <2>1, <2>3, <3>1 DEF FillsVersion
  <2>. QED
    BY <2>2, <2>3
<1>14. ASSUME NEW r \in Reqs, VersionMeta(r) PROVE Advances(r, "failed") \/ Advances(r, "vmetafill")
  <2>1. pc[r] = "vmeta" /\ op[r] \in MutatorOps
    BY <1>14 DEF VersionMeta, Control, MutatorOps
  <2>2. CASE ~vdir[key[r]]
    BY <1>14, <2>1, <2>2 DEF VersionMeta, Advances, Final
  <2>3. CASE vdir[key[r]]
    BY <1>14, <2>1, <2>3 DEF VersionMeta, Advances, Elsewhere, Final
  <2>. QED
    BY <2>2, <2>3
<1>15. ASSUME NEW r \in Reqs, VersionMetaFill(r) PROVE Advances(r, "meta")
  BY <1>15 DEF VersionMetaFill, Advances, Elsewhere, Control, MutatorOps, Final
<1>16. ASSUME NEW r \in Reqs, MetaCreate(r) PROVE Advances(r, "failed") \/ OpensMeta(r)
  <2>1. pc[r] = "meta" /\ op[r] \in MutatorOps /\ key[r] \in Keys /\ meta[key[r]] \in Reqs \cup {NoFile}
    BY <1>16 DEF MetaCreate, Control, MutatorOps, PutOps, TypeOK, Inodes
  <2>2. CASE op[r] = "deleteVersion" /\ src[r] \notin vmeta[key[r]]
    BY <1>16, <2>1, <2>2 DEF MetaCreate, Advances, Final
  <2>3. CASE ~(op[r] = "deleteVersion" /\ src[r] \notin vmeta[key[r]])
    <3>. DEFINE i == Opened(meta[key[r]], r)
    <3>1. i \in Reqs /\ (i = meta[key[r]] \/ (meta[key[r]] = NoFile /\ i = r))
      BY <2>1 DEF i, Opened
    <3>2. /\ pc' = [pc EXCEPT ![r] = "metafill"] /\ meta' = [meta EXCEPT ![key[r]] = i]
          /\ info' = [info EXCEPT ![i] = Empty] /\ fd' = [fd EXCEPT ![r] = i]
      BY <1>16, <2>3 DEF MetaCreate
    <3>3. UNCHANGED <<op, key, last, vid, sum, tmp, data, body, vbody>>
      BY <1>16 DEF MetaCreate
    <3>. HIDE DEF i
    <3>. QED
      BY <2>1, <3>1, <3>2, <3>3 DEF OpensMeta
  <2>. QED
    BY <2>2, <2>3
<1>17. ASSUME NEW r \in Reqs, MetaFill(r) PROVE FillsMeta(r)
  BY <1>17 DEF MetaFill, FillsMeta, Control, MutatorOps, PutOps
<1>18. ASSUME NEW r \in Reqs, MarkerVersion(r) PROVE Advances(r, "markfile")
  BY <1>18 DEF MarkerVersion, NewVersion, Advances, Elsewhere, Control, MutatorOps, Final
<1>19. ASSUME NEW r \in Reqs, CreateMarker(r) PROVE Advances(r, "failed") \/ Advances(r, "unlink")
  <2>1. pc[r] = "markfile" /\ op[r] \in MutatorOps
    BY <1>19 DEF CreateMarker, Control, MutatorOps
  <2>2. CASE ~vdir[key[r]]
    BY <1>19, <2>1, <2>2 DEF CreateMarker, Advances, Final
  <2>3. CASE vdir[key[r]]
    BY <1>19, <2>1, <2>3 DEF CreateMarker, Advances, Elsewhere, Final
  <2>. QED
    BY <2>2, <2>3
<1>20. ASSUME NEW r \in Reqs, UnlinkData(r) PROVE Unlinks(r)
  <2>1. /\ pc[r] = "unlink" /\ op[r] \in {"delete", "deleteVersion"} /\ key[r] \in Keys
        /\ UNCHANGED <<op, key, last, vid, sum, fd, tmp, body, meta, info, vbody>>
        /\ data' = [data EXCEPT ![key[r]] = NoFile]
    BY <1>20 DEF UnlinkData, Control, MutatorOps
  <2>2. pc' = [pc EXCEPT ![r] = "unlinkmeta"] \/ (op[r] = "delete" /\ pc' = [pc EXCEPT ![r] = "ok"])
    BY <1>20 DEF UnlinkData
  <2>. QED
    BY <2>1, <2>2 DEF Unlinks
<1>21. ASSUME NEW r \in Reqs, UnlinkMeta(r) PROVE UnlinksMeta(r)
  BY <1>21 DEF UnlinkMeta, UnlinksMeta, Control, MutatorOps
<1>22. ASSUME NEW r \in Reqs, PurgeRest(r) PROVE Advances(r, "scan")
  BY <1>22 DEF PurgeRest, Advances, Elsewhere, Control, MutatorOps, Final
<1>23. ASSUME NEW r \in Reqs, Scan(r) PROVE \E next : Advances(r, next)
  <2>1. PICK next \in {"tidy", "unlink", "mirror"} : pc' = [pc EXCEPT ![r] = next]
    BY <1>23 DEF Scan
  <2>2. pc[r] = "scan" /\ op[r] \in MutatorOps
    BY <1>23 DEF Scan, Control, MutatorOps
  <2>3. UNCHANGED <<op, key, last, vid, sum, fd, tmp, data, body, meta, info, vbody>>
    BY <1>23 DEF Scan
  <2>4. Advances(r, next)
    BY <2>1, <2>2, <2>3 DEF Advances, Elsewhere, Final
  <2>. QED
    BY <2>4
<1>24. ASSUME NEW r \in Reqs, MirrorOpen(r) PROVE Advances(r, "failed") \/ OpensMirror(r)
  <2>1. pc[r] = "mirror" /\ op[r] = "deleteVersion" /\ key[r] \in Keys
            /\ data[key[r]] \in Reqs \cup {NoFile}
    BY <1>24 DEF MirrorOpen, Control, MutatorOps, TypeOK, Inodes
  <2>2. CASE src[r] \notin vdata[key[r]]
    BY <1>24, <2>1, <2>2 DEF MirrorOpen, Advances, Final, MutatorOps
  <2>3. CASE src[r] \in vdata[key[r]]
    <3>. DEFINE i == Opened(data[key[r]], r)
    <3>1. i \in Reqs /\ (i = data[key[r]] \/ (data[key[r]] = NoFile /\ i = r))
      BY <2>1 DEF i, Opened
    <3>2. /\ pc' = [pc EXCEPT ![r] = "mirrorfill"] /\ data' = [data EXCEPT ![key[r]] = i]
          /\ body' = [body EXCEPT ![i] = <<>>] /\ fd' = [fd EXCEPT ![r] = i]
      BY <1>24, <2>3 DEF MirrorOpen
    <3>3. UNCHANGED <<op, key, last, vid, sum, tmp, meta, info, vbody>>
      BY <1>24 DEF MirrorOpen
    <3>. HIDE DEF i
    <3>. QED
      BY <2>1, <3>1, <3>2, <3>3 DEF OpensMirror
  <2>. QED
    BY <2>2, <2>3
<1>25. ASSUME NEW r \in Reqs, MirrorFill(r) PROVE FillsMirror(r)
  <2>. DEFINE n == Len(sum[r])
  <2>1. /\ pc[r] = "mirrorfill" /\ op[r] = "deleteVersion" /\ key[r] \in Keys /\ fd[r] \in Reqs
        /\ src[r] \in Vids
        /\ UNCHANGED <<op, key, last, vid, fd, tmp, data, meta, info, vbody>>
    BY <1>25 DEF MirrorFill, Control, MutatorOps, TypeOK, Uploading
  <2>2. CASE n < Len(vbody[src[r]])
    <3>1. /\ pc' = [pc EXCEPT ![r] = "mirrorfill"]
          /\ body' = [body EXCEPT ![fd[r]] = WriteAt(@, n + 1, vbody[src[r]][n + 1])]
          /\ sum' = [sum EXCEPT ![r] = Append(@, vbody[src[r]][n + 1])]
      BY <1>25, <2>1, <2>2 DEF MirrorFill, TypeOK
    <3>. QED
      BY <2>1, <2>2, <3>1 DEF FillsMirror
  <2>3. CASE ~(n < Len(vbody[src[r]]))
    <3>1. PICK next \in {"meta", "tidy"} : pc' = [pc EXCEPT ![r] = next]
      BY <1>25, <2>3 DEF MirrorFill
    <3>2. UNCHANGED <<body, sum>>
      BY <1>25, <2>3 DEF MirrorFill
    <3>. QED
      BY <2>1, <2>3, <3>1, <3>2 DEF FillsMirror
  <2>. QED
    BY <2>2, <2>3
<1>26. ASSUME NEW r \in Reqs, Tidy(r) PROVE Advances(r, "ok")
  BY <1>26 DEF Tidy, Advances, Elsewhere, Control, MutatorOps, Final
<1>27. ASSUME NEW r \in Reqs, PutVersioningFill(r) PROVE ReadsOn(r)
  BY <1>27 DEF PutVersioningFill, ReadsOn, Control, Final
<1>28. ASSUME NEW r \in Reqs, NEW k0 \in Keys, NEW k \in Keys, CopyObject(r, k0, k) PROVE Enters(r)
  BY <1>28 DEF CopyObject, Begin, Enters, PutOps, MutatorOps
<1>29. ASSUME NEW r \in Reqs, CopyWriter(r) PROVE Copies(r)
  <2>1. pc[r] = "writer" /\ op[r] = "copy" /\ key[r] \in Keys
    BY <1>29 DEF CopyWriter, Control, MutatorOps, PutOps
  <2>2. Stem[key[r]] \in Stems /\ tmp[Stem[key[r]]] \in Reqs \cup {NoFile}
    BY <2>1, StemAssumption DEF TypeOK, Inodes
  <2>3. \E i \in Reqs : /\ i = tmp[Stem[key[r]]] \/ (tmp[Stem[key[r]]] = NoFile /\ i = r)
                        /\ tmp' = [tmp EXCEPT ![Stem[key[r]]] = i]
                        /\ body' = [body EXCEPT ![i] = <<>>]
                        /\ fd' = [fd EXCEPT ![r] = i]
    <3>. DEFINE i == Opened(tmp[Stem[key[r]]], r)
    <3>1. i \in Reqs /\ (i = tmp[Stem[key[r]]] \/ (tmp[Stem[key[r]]] = NoFile /\ i = r))
      BY <1>29, <2>2 DEF Opened
    <3>2. /\ tmp' = [tmp EXCEPT ![Stem[key[r]]] = i] /\ body' = [body EXCEPT ![i] = <<>>]
          /\ fd' = [fd EXCEPT ![r] = i]
      BY <1>29, <2>2 DEF CopyWriter, OpenUpload
    <3>. HIDE DEF i
    <3>. QED
      BY <3>1, <3>2
  <2>. QED
    BY <1>29, <2>1, <2>2, <2>3 DEF CopyWriter, Copies, Opens
<1>30. ASSUME NEW r \in Reqs, CopyBlock(r) PROVE Writes(r) \/ Advances(r, "rename")
  <2>1. pc[r] = "blocks" /\ fd[r] \in Reqs /\ from[r] \in Reqs /\ op[r] \in MutatorOps
    BY <1>30 DEF CopyBlock, Control, Uploading, MutatorOps, PutOps
  <2>2. CASE Len(sum[r]) < Len(body[from[r]])
    <3>1. body[from[r]][Len(sum[r]) + 1] \in Block
      BY <2>1, <2>2 DEF TypeOK
    <3>. QED
      BY <1>30, <2>1, <2>2, <3>1 DEF CopyBlock, Writes
  <2>3. CASE ~(Len(sum[r]) < Len(body[from[r]]))
    BY <1>30, <2>1, <2>3 DEF CopyBlock, Advances, Elsewhere, Final
  <2>. QED
    BY <2>2, <2>3
<1>31. ASSUME NEW r \in Reqs, NEW k \in Keys, GetObjectVersion(r, k) PROVE Reads(r)
  BY <1>31 DEF GetObjectVersion, Begin, Reads
<1>32. CASE Served \/ UNCHANGED vars
  BY <1>32 DEF Served, vars, Stutters
<1>. QED
  BY <1>1, <1>2, <1>3, <1>4, <1>5, <1>6, <1>7, <1>8, <1>9, <1>10, <1>11, <1>12, <1>13, <1>14,
     <1>15, <1>16, <1>17, <1>18, <1>19, <1>20, <1>21, <1>22, <1>23, <1>24, <1>25, <1>26,
     <1>27, <1>28, <1>29, <1>30, <1>31, <1>32
     DEF Next, Receive, Handle, FinishCopy, Kinds

----------------------------------------------------------------------------
(* What holds of all keys.                                                 *)

\* At the start nothing exists and nobody is at work.
LEMMA InitSInv == Init => SInv
<1>. SUFFICES ASSUME Init PROVE SInv
  OBVIOUS
<1>1. IInv
  BY InitIInv
<1>. USE DEF Init
<1>2. Territory /\ OneName
  BY NoFileAssumption DEF Territory, OneName, DataOpen, Uploading
<1>3. Sole /\ Apart /\ UploadHeld /\ LiveHeld /\ VersionHeld /\ MetaHeld
  BY DEF Sole, Apart, UploadHeld, LiveHeld, VersionHeld, MetaHeld, Uploading, Mutating,
         PutOps, MutatorOps
<1>. QED
  BY <1>1, <1>2, <1>3 DEF SInv

\* Names are given to inodes of their own path.
LEMMA TerritoryStep == SInv /\ [Next]_vars => Territory'
<1>. SUFFICES ASSUME TypeOK, Control, Territory, [Next]_vars PROVE Territory'
  BY DEF SInv, IInv
<1>1. Stutters \/ \E r \in Reqs : Kinds(r)
  BY StepKinds
<1>. USE StemAssumption, NoFileAssumption DEF TypeOK, Control, Territory, DataOpen, PutOps,
         MutatorOps, Uploading, Final, Inodes
<1>2. ASSUME NEW r \in Reqs, Enters(r) PROVE Territory'
  BY <1>2 DEF Enters, Admit
<1>3. ASSUME NEW r \in Reqs, Reads(r) PROVE Territory'
  <2>1. op[r] = "none" /\ pc'[r] \notin DataOpen \cup {"metafill"}
    BY <1>3 DEF Reads
  <2>2. \A q \in Reqs : q # r => pc'[q] = pc[q] /\ op'[q] = op[q] /\ key'[q] = key[q] /\ fd'[q] = fd[q]
    BY <1>3 DEF Reads
  <2>3. UNCHANGED <<tmp, data, meta>>
    BY <1>3 DEF Reads
  <2>4. \A i \in Reqs : op[i] \in MutatorOps => op'[i] = op[i] /\ key'[i] = key[i]
    BY <2>1, <2>2
  <2>5. /\ \A st \in Stems : tmp[st] \in Inodes
        /\ \A k \in Keys : data[k] \in Inodes /\ meta[k] \in Inodes
        /\ \A q \in Reqs : pc[q] \in DataOpen \cup {"metafill"} => fd[q] \in Reqs
    OBVIOUS
  <2>. HIDE DEF TypeOK, Control, DataOpen, MutatorOps
  <2>. QED
    BY <2>1, <2>2, <2>3, <2>4, <2>5
<1>4. ASSUME NEW r \in Reqs, ReadsOn(r) PROVE Territory'
  BY <1>4 DEF ReadsOn
<1>5. ASSUME NEW r \in Reqs, Puts(r) PROVE Territory'
  BY <1>5 DEF Puts, Admit, Opens
<1>6. ASSUME NEW r \in Reqs, Copies(r) PROVE Territory'
  BY <1>6 DEF Copies, Opens
<1>7. ASSUME NEW r \in Reqs, Writes(r) PROVE Territory'
  BY <1>7 DEF Writes
<1>8. ASSUME NEW r \in Reqs, NEW next, Advances(r, next) PROVE Territory'
  BY <1>8 DEF Advances, Elsewhere
<1>9. ASSUME NEW r \in Reqs, Aborts(r) PROVE Territory'
  BY <1>9 DEF Aborts
<1>10. ASSUME NEW r \in Reqs, Renames(r) PROVE Territory'
  <2>. DEFINE s == Stem[key[r]]
  <2>1. s \in Stems /\ key[r] \in Keys /\ tmp[s] \in Reqs
    BY <1>10 DEF Renames
  <2>2. op[tmp[s]] \in MutatorOps /\ Stem[key[tmp[s]]] = s
    BY <2>1
  <2>3. data' = [data EXCEPT ![key[r]] = tmp[s]] /\ tmp' = [tmp EXCEPT ![s] = NoFile]
    BY <1>10 DEF Renames
  <2>4. UNCHANGED <<op, key, fd, meta>>
    BY <1>10 DEF Renames
  <2>5. \A q \in Reqs : pc'[q] \in DataOpen \cup {"metafill"} => pc'[q] = pc[q]
    BY <1>10 DEF Renames
  <2>6. /\ \A k \in Keys : data'[k] = IF k = key[r] THEN tmp[s] ELSE data[k]
        /\ \A st \in Stems : tmp'[st] = IF st = s THEN NoFile ELSE tmp[st]
    BY <2>1, <2>3
  <2>. HIDE DEF TypeOK, Control, DataOpen, MutatorOps
  <2>. QED
    BY <2>1, <2>2, <2>4, <2>5, <2>6
<1>11. ASSUME NEW r \in Reqs, OpensVersion(r) PROVE Territory'
  BY <1>11 DEF OpensVersion
<1>12. ASSUME NEW r \in Reqs, FillsVersion(r) PROVE Territory'
  BY <1>12 DEF FillsVersion
<1>13. ASSUME NEW r \in Reqs, OpensMeta(r) PROVE Territory'
  BY <1>13 DEF OpensMeta
<1>14. ASSUME NEW r \in Reqs, FillsMeta(r) PROVE Territory'
  BY <1>14 DEF FillsMeta
<1>15. ASSUME NEW r \in Reqs, Unlinks(r) PROVE Territory'
  BY <1>15 DEF Unlinks
<1>16. ASSUME NEW r \in Reqs, UnlinksMeta(r) PROVE Territory'
  BY <1>16 DEF UnlinksMeta
<1>17. ASSUME NEW r \in Reqs, OpensMirror(r) PROVE Territory'
  BY <1>17 DEF OpensMirror
<1>18. ASSUME NEW r \in Reqs, FillsMirror(r) PROVE Territory'
  BY <1>18 DEF FillsMirror
<1>19. CASE Stutters
  BY <1>19 DEF Stutters
<1>. HIDE DEF TypeOK, Control, Territory, DataOpen, PutOps, MutatorOps, Uploading, Final, Inodes
<1>. QED
  BY <1>1, <1>2, <1>3, <1>4, <1>5, <1>6, <1>7, <1>8, <1>9, <1>10, <1>11, <1>12, <1>13,
     <1>14, <1>15, <1>16, <1>17, <1>18, <1>19 DEF Kinds

\* A name is taken from one place when it is given to another.
LEMMA OneNameStep == SInv /\ [Next]_vars => OneName'
<1>. SUFFICES ASSUME TypeOK, Control, Territory, OneName, [Next]_vars PROVE OneName'
  BY DEF SInv, IInv
<1>1. Stutters \/ \E r \in Reqs : Kinds(r)
  BY StepKinds
<1>. USE StemAssumption, NoFileAssumption DEF TypeOK, Control, Territory, DataOpen, OneName,
         Unborn, PutOps, MutatorOps, Uploading, Final, Inodes
<1>2. ASSUME NEW r \in Reqs, Enters(r) PROVE OneName'
  BY <1>2 DEF Enters, Admit
<1>3. ASSUME NEW r \in Reqs, Reads(r) PROVE OneName'
  BY <1>3 DEF Reads
<1>4. ASSUME NEW r \in Reqs, ReadsOn(r) PROVE OneName'
  BY <1>4 DEF ReadsOn
<1>5. ASSUME NEW r \in Reqs, Puts(r) PROVE OneName'
  BY <1>5 DEF Puts, Admit, Opens
<1>6. ASSUME NEW r \in Reqs, Copies(r) PROVE OneName'
  BY <1>6 DEF Copies, Opens
<1>7. ASSUME NEW r \in Reqs, Writes(r) PROVE OneName'
  BY <1>7 DEF Writes
<1>8. ASSUME NEW r \in Reqs, NEW next, Advances(r, next) PROVE OneName'
  BY <1>8 DEF Advances, Elsewhere
<1>9. ASSUME NEW r \in Reqs, Aborts(r) PROVE OneName'
  BY <1>9 DEF Aborts
<1>10. ASSUME NEW r \in Reqs, Renames(r) PROVE OneName'
  <2>. DEFINE s == Stem[key[r]]
  <2>1. s \in Stems /\ key[r] \in Keys /\ tmp[s] \in Reqs
    BY <1>10 DEF Renames
  <2>2. data' = [data EXCEPT ![key[r]] = tmp[s]] /\ tmp' = [tmp EXCEPT ![s] = NoFile]
    BY <1>10 DEF Renames
  <2>3. /\ \A k \in Keys : data'[k] = IF k = key[r] THEN tmp[s] ELSE data[k]
        /\ \A st \in Stems : tmp'[st] = IF st = s THEN NoFile ELSE tmp[st]
    BY <2>1, <2>2
  <2>4. UNCHANGED <<key, fd>>
    BY <1>10 DEF Renames
  <2>5. \A q \in Reqs : pc'[q] \in Unborn \cup DataOpen => pc'[q] = pc[q]
    BY <1>10 DEF Renames
  <2>6. Stem[key[tmp[s]]] = s
    BY <2>1 DEF Territory
  <2>7. ASSUME NEW k \in Keys, data[k] = tmp[s] PROVE FALSE
    <3>1. data[k] # NoFile /\ Stem[key[data[k]]] = Stem[k]
      BY <2>1, <2>7 DEF Territory
    <3>2. Stem[k] = s /\ data[k] # tmp[Stem[k]]
      BY <2>6, <2>7, <3>1 DEF OneName
    <3>. QED
      BY <2>7, <3>2
  <2>8. \A q \in Reqs : q # NoFile /\ (pc[q] = "mirrorfill" => fd[q] # NoFile)
    OBVIOUS
  <2>9. \A k \in Keys : Stem[k] \in Stems
    OBVIOUS
  <2>. HIDE DEF TypeOK, Control, Territory, OneName, DataOpen, Unborn, MutatorOps, PutOps, Inodes, s
  <2>10. ASSUME NEW k \in Keys, data'[k] # NoFile
         PROVE  data'[k] # tmp'[Stem[k]] /\ \A k2 \in Keys : data'[k] = data'[k2] => k = k2
    BY <2>1, <2>3, <2>7, <2>9, <2>10 DEF OneName, s
  <2>11. ASSUME NEW q \in Reqs, pc'[q] \in Unborn
         PROVE  /\ \A k \in Keys : data'[k] # q
                /\ \A st \in Stems : tmp'[st] # q
                /\ \A x \in Reqs : pc'[x] \in DataOpen => fd'[x] # q
    BY <2>1, <2>3, <2>4, <2>5, <2>8, <2>11 DEF OneName
  <2>12. ASSUME NEW q \in Reqs, pc'[q] = "mirrorfill"
         PROVE  /\ \A k \in Keys : data'[k] = fd'[q] => k = key'[q]
                /\ \A st \in Stems : tmp'[st] # fd'[q]
    <3>1. pc[q] = "mirrorfill" /\ fd'[q] = fd[q] /\ key'[q] = key[q]
      BY <2>4, <2>5, <2>12 DEF DataOpen
    <3>. QED
      BY <2>1, <2>3, <2>8, <3>1 DEF OneName
  <2>. QED
    BY <2>10, <2>11, <2>12 DEF OneName
<1>11. ASSUME NEW r \in Reqs, OpensVersion(r) PROVE OneName'
  BY <1>11 DEF OpensVersion
<1>12. ASSUME NEW r \in Reqs, FillsVersion(r) PROVE OneName'
  BY <1>12 DEF FillsVersion
<1>13. ASSUME NEW r \in Reqs, OpensMeta(r) PROVE OneName'
  BY <1>13 DEF OpensMeta
<1>14. ASSUME NEW r \in Reqs, FillsMeta(r) PROVE OneName'
  <2>1. UNCHANGED <<key, tmp, data, fd>>
    BY <1>14 DEF FillsMeta
  <2>2. \A q \in Reqs : pc'[q] \in Unborn \cup DataOpen => pc'[q] = pc[q]
    BY <1>14 DEF FillsMeta
  <2>. HIDE DEF TypeOK, Control, Territory, PutOps, MutatorOps, Inodes
  <2>. QED
    BY <2>1, <2>2
<1>15. ASSUME NEW r \in Reqs, Unlinks(r) PROVE OneName'
  <2>1. UNCHANGED <<key, tmp, fd>> /\ data' = [data EXCEPT ![key[r]] = NoFile]
    BY <1>15 DEF Unlinks
  <2>2. \A q \in Reqs : pc'[q] \in Unborn \cup DataOpen => pc'[q] = pc[q]
    BY <1>15 DEF Unlinks
  <2>3. \A k \in Keys : data'[k] \in {data[k], NoFile}
    BY <2>1
  <2>4. \A q \in Reqs : q # NoFile /\ (pc[q] = "mirrorfill" => fd[q] # NoFile)
    OBVIOUS
  <2>. HIDE DEF TypeOK, Control, Territory, PutOps, MutatorOps, Inodes
  <2>. QED
    BY <2>1, <2>2, <2>3, <2>4
<1>16. ASSUME NEW r \in Reqs, UnlinksMeta(r) PROVE OneName'
  <2>1. UNCHANGED <<key, tmp, data, fd>>
    BY <1>16 DEF UnlinksMeta
  <2>2. \A q \in Reqs : pc'[q] \in Unborn \cup DataOpen => pc'[q] = pc[q]
    BY <1>16 DEF UnlinksMeta
  <2>. HIDE DEF TypeOK, Control, Territory, PutOps, MutatorOps, Inodes
  <2>. QED
    BY <2>1, <2>2
<1>17. ASSUME NEW r \in Reqs, OpensMirror(r) PROVE OneName'
  BY <1>17 DEF OpensMirror
<1>18. ASSUME NEW r \in Reqs, FillsMirror(r) PROVE OneName'
  BY <1>18 DEF FillsMirror
<1>19. CASE Stutters
  BY <1>19 DEF Stutters
<1>. HIDE DEF TypeOK, Control, Territory, DataOpen, OneName, Unborn, PutOps, MutatorOps,
          Uploading, Final, Inodes
<1>. QED
  BY <1>1, <1>2, <1>3, <1>4, <1>5, <1>6, <1>7, <1>8, <1>9, <1>10, <1>11, <1>12, <1>13,
     <1>14, <1>15, <1>16, <1>17, <1>18, <1>19 DEF Kinds

----------------------------------------------------------------------------
(* What serial keys add.                                                   *)

\* What Admit excludes: a handler of the same path, if the key of either is serial.
LEMMA AdmittedAlone ==
    ASSUME TypeOK, Control, NEW r \in Reqs, NEW k \in Keys, Admit(r, k),
           NEW q \in Reqs, Mutating(q), k \in SerialKeys \/ key[q] \in SerialKeys
    PROVE  Stem[key[q]] # Stem[k]
<1>1. key[q] \in Keys /\ <<key[q], k>> \notin Exclusive
  BY DEF Mutating, Control, Admit
<1>. QED
  BY <1>1 DEF SerialKeys

\* A request that is admitted is alone on its path, and the last on its key.
LEMMA AdmittedSole ==
    ASSUME TypeOK, Control, Sole, NEW r \in Reqs, NEW k \in Keys, Admit(r, k),
           NEW o \in MutatorOps, NEW next,
           pc' = [pc EXCEPT ![r] = next], op' = [op EXCEPT ![r] = o],
           key' = [key EXCEPT ![r] = k], last' = [last EXCEPT ![k] = r]
    PROVE  Sole'
<1>1. \A q \in Reqs : q # r => /\ (Mutating(q))' <=> Mutating(q)
                               /\ key'[q] = key[q]
  BY DEF TypeOK, Mutating
<1>2. key'[r] = k
  BY DEF TypeOK
<1>3. ASSUME NEW q \in Reqs, q # r, Mutating(q), k \in SerialKeys \/ key[q] \in SerialKeys
      PROVE  Stem[key[q]] # Stem[k]
  BY <1>3, AdmittedAlone
<1>4. SerialKeys' = SerialKeys
  BY DEF SerialKeys
<1>5. ASSUME NEW x \in Reqs, NEW y \in Reqs, (Mutating(x))', (Mutating(y))',
             key'[x] \in SerialKeys, Stem[key'[y]] = Stem[key'[x]]
      PROVE  x = y
  <2>1. CASE x # r /\ y # r
    BY <1>1, <1>5, <2>1 DEF Sole
  <2>2. CASE x = r /\ y # r
    BY <1>1, <1>2, <1>3, <1>5, <2>2
  <2>3. CASE x # r /\ y = r
    BY <1>1, <1>2, <1>3, <1>5, <2>3
  <2>. QED
    BY <2>1, <2>2, <2>3
<1>6. ASSUME NEW q \in Reqs, (Mutating(q))', key'[q] \in SerialKeys
      PROVE  last'[key'[q]] = q
  <2>1. CASE q = r
    BY <1>2, <2>1 DEF TypeOK
  <2>2. CASE q # r
    <3>1. Mutating(q) /\ key[q] \in SerialKeys /\ key'[q] = key[q]
      BY <1>1, <1>6, <2>2
    <3>2. key[q] # k
      BY <1>3, <2>2, <3>1
    <3>3. last[key[q]] = q
      BY <3>1 DEF Sole
    <3>4. key[q] \in Keys
      BY <3>1 DEF SerialKeys
    <3>. QED
      BY <3>1, <3>2, <3>3, <3>4 DEF TypeOK
  <2>. QED
    BY <2>1, <2>2
<1>7. ASSUME NEW k2 \in Keys, last'[k2] # NoFile
      PROVE  op'[last'[k2]] \in MutatorOps /\ key'[last'[k2]] = k2
  <2>1. CASE k2 = k
    BY <2>1 DEF TypeOK
  <2>2. CASE k2 # k
    <3>1. last'[k2] = last[k2] /\ last[k2] \in Reqs
      BY <1>7, <2>2 DEF TypeOK, Inodes
    <3>2. op[last[k2]] \in MutatorOps /\ key[last[k2]] = k2
      BY <1>7, <3>1 DEF Sole
    <3>3. last[k2] # r
      BY <3>2 DEF Admit, Control, PutOps, MutatorOps
    <3>. QED
      BY <3>1, <3>2, <3>3 DEF TypeOK
  <2>. QED
    BY <2>1, <2>2
<1>. QED
  BY <1>4, <1>5, <1>6, <1>7 DEF Sole

\* A handler is admitted next to no other of its path.
LEMMA SoleStep == SInv /\ [Next]_vars => Sole'
<1>. SUFFICES ASSUME TypeOK, Control, Sole, [Next]_vars PROVE Sole'
  BY DEF SInv, IInv
<1>1. Stutters \/ \E r \in Reqs : Kinds(r)
  BY StepKinds
<1>. USE StemAssumption DEF TypeOK, Control, Sole, Mutating, SerialKeys, PutOps, MutatorOps,
         Uploading, Final, Inodes
<1>2. ASSUME NEW r \in Reqs, Enters(r) PROVE Sole'
  <2>1. PICK k \in Keys, o \in MutatorOps, next \in {"failed", "writer", "marker", "unlink", "purge"} :
          /\ Admit(r, k)
          /\ pc' = [pc EXCEPT ![r] = next]
          /\ op' = [op EXCEPT ![r] = o]
          /\ key' = [key EXCEPT ![r] = k]
          /\ last' = [last EXCEPT ![k] = r]
    BY <1>2 DEF Enters
  <2>. HIDE DEF TypeOK, Control, Sole, MutatorOps
  <2>. QED
    BY <2>1, AdmittedSole
<1>3. ASSUME NEW r \in Reqs, Reads(r) PROVE Sole'
  BY <1>3 DEF Reads
<1>4. ASSUME NEW r \in Reqs, ReadsOn(r) PROVE Sole'
  BY <1>4 DEF ReadsOn
<1>5. ASSUME NEW r \in Reqs, Puts(r) PROVE Sole'
  <2>1. PICK k \in Keys :
          /\ Admit(r, k)
          /\ pc' = [pc EXCEPT ![r] = "body"]
          /\ op' = [op EXCEPT ![r] = "put"]
          /\ key' = [key EXCEPT ![r] = k]
          /\ last' = [last EXCEPT ![k] = r]
    BY <1>5 DEF Puts
  <2>2. "put" \in MutatorOps
    OBVIOUS
  <2>. HIDE DEF TypeOK, Control, Sole, MutatorOps
  <2>. QED
    BY <2>1, <2>2, AdmittedSole
<1>6. ASSUME NEW r \in Reqs, Copies(r) PROVE Sole'
  BY <1>6 DEF Copies, Opens
<1>7. ASSUME NEW r \in Reqs, Writes(r) PROVE Sole'
  BY <1>7 DEF Writes
<1>8. ASSUME NEW r \in Reqs, NEW next, Advances(r, next) PROVE Sole'
  BY <1>8 DEF Advances, Elsewhere
<1>9. ASSUME NEW r \in Reqs, Aborts(r) PROVE Sole'
  BY <1>9 DEF Aborts
<1>10. ASSUME NEW r \in Reqs, Renames(r) PROVE Sole'
  <2>1. UNCHANGED <<op, key, last>>
    BY <1>10 DEF Renames
  <2>2. \A q \in Reqs : (Mutating(q))' => Mutating(q)
    BY <1>10 DEF Renames
  <2>. HIDE DEF TypeOK, Control, Mutating, PutOps, MutatorOps, Inodes
  <2>. QED
    BY <2>1, <2>2
<1>11. ASSUME NEW r \in Reqs, OpensVersion(r) PROVE Sole'
  BY <1>11 DEF OpensVersion
<1>12. ASSUME NEW r \in Reqs, FillsVersion(r) PROVE Sole'
  BY <1>12 DEF FillsVersion
<1>13. ASSUME NEW r \in Reqs, OpensMeta(r) PROVE Sole'
  BY <1>13 DEF OpensMeta
<1>14. ASSUME NEW r \in Reqs, FillsMeta(r) PROVE Sole'
  <2>1. UNCHANGED <<op, key, last>>
    BY <1>14 DEF FillsMeta
  <2>2. \A q \in Reqs : (Mutating(q))' => Mutating(q)
    BY <1>14 DEF FillsMeta
  <2>. HIDE DEF TypeOK, Control, Mutating, PutOps, MutatorOps, Inodes
  <2>. QED
    BY <2>1, <2>2
<1>15. ASSUME NEW r \in Reqs, Unlinks(r) PROVE Sole'
  <2>1. UNCHANGED <<op, key, last>>
    BY <1>15 DEF Unlinks
  <2>2. \A q \in Reqs : (Mutating(q))' => Mutating(q)
    BY <1>15 DEF Unlinks
  <2>. HIDE DEF TypeOK, Control, Mutating, PutOps, MutatorOps, Inodes
  <2>. QED
    BY <2>1, <2>2
<1>16. ASSUME NEW r \in Reqs, UnlinksMeta(r) PROVE Sole'
  <2>1. UNCHANGED <<op, key, last>>
    BY <1>16 DEF UnlinksMeta
  <2>2. \A q \in Reqs : (Mutating(q))' => Mutating(q)
    BY <1>16 DEF UnlinksMeta
  <2>. HIDE DEF TypeOK, Control, Mutating, PutOps, MutatorOps, Inodes
  <2>. QED
    BY <2>1, <2>2
<1>17. ASSUME NEW r \in Reqs, OpensMirror(r) PROVE Sole'
  BY <1>17 DEF OpensMirror
<1>18. ASSUME NEW r \in Reqs, FillsMirror(r) PROVE Sole'
  BY <1>18 DEF FillsMirror
<1>19. CASE Stutters
  BY <1>19 DEF Stutters
<1>. HIDE DEF TypeOK, Control, Sole, Mutating, SerialKeys, PutOps, MutatorOps, Uploading,
          Final, Inodes
<1>. QED
  BY <1>1, <1>2, <1>3, <1>4, <1>5, <1>6, <1>7, <1>8, <1>9, <1>10, <1>11, <1>12, <1>13,
     <1>14, <1>15, <1>16, <1>17, <1>18, <1>19 DEF Kinds

\* An open for writing truncates an inode that has no other name, which is
\* then what the temporary name and the handler's descriptor refer to.
LEMMA OpensFresh ==
    ASSUME TypeOK, Territory, OneName, NEW r \in Reqs, pc[r] \in Unborn,
           NEW k \in Keys, Opens(r, k)
    PROVE  /\ \A k2 \in Keys : data[k2] # fd'[r]
           /\ \A q \in Reqs : q # r => fd'[q] = fd[q]
           /\ fd'[r] \in Reqs /\ tmp'[Stem[k]] = fd'[r] /\ body'[fd'[r]] = <<>>
           /\ \A s \in Stems : s # Stem[k] => tmp'[s] = tmp[s] /\ tmp[s] # fd'[r]
           /\ \A j \in Reqs : j # fd'[r] => body'[j] = body[j]
<1>1. PICK i \in Reqs :
        /\ i = tmp[Stem[k]] \/ (tmp[Stem[k]] = NoFile /\ i = r)
        /\ tmp' = [tmp EXCEPT ![Stem[k]] = i]
        /\ body' = [body EXCEPT ![i] = <<>>]
        /\ fd' = [fd EXCEPT ![r] = i]
  BY DEF Opens
<1>2. Stem[k] \in Stems
  BY StemAssumption
<1>3. /\ fd'[r] = i /\ tmp'[Stem[k]] = i /\ body'[i] = <<>>
      /\ \A q \in Reqs : q # r => fd'[q] = fd[q]
      /\ \A s \in Stems : s # Stem[k] => tmp'[s] = tmp[s]
      /\ \A j \in Reqs : j # i => body'[j] = body[j]
  BY <1>1, <1>2 DEF TypeOK
<1>4. CASE i = r
  BY <1>1, <1>2, <1>3, <1>4 DEF OneName, Territory
<1>5. CASE i = tmp[Stem[k]]
  <2>1. Stem[key[i]] = Stem[k]
    BY <1>2, <1>5, NoFileAssumption DEF Territory
  <2>2. \A s \in Stems : s # Stem[k] => tmp[s] # i
    BY <2>1, NoFileAssumption DEF Territory
  <2>3. ASSUME NEW k2 \in Keys, data[k2] = i PROVE FALSE
    <3>1. Stem[k2] = Stem[k]
      BY <2>1, <2>3, NoFileAssumption DEF Territory
    <3>. QED
      BY <1>5, <2>3, <3>1, NoFileAssumption DEF OneName
  <2>. QED
    BY <1>3, <2>2, <2>3
<1>. QED
  BY <1>1, <1>4, <1>5

\* What a prefix is, block by block.
LEMMA PrefixIs ==
    ASSUME NEW S, NEW c \in Seq(S), NEW d \in Seq(S)
    PROVE  IsPrefix(c, d) <=> Len(c) <= Len(d) /\ \A i \in 1..Len(c) : c[i] = d[i]
<1>1. Len(c) \in Nat /\ Len(d) \in Nat
  OBVIOUS
<1>2. SubSeq(c, 1, Len(c)) = c
  BY SubSeqFull
<1>3. ASSUME Len(c) <= Len(d)
      PROVE  SubSeq(c, 1, Len(c)) = SubSeq(d, 1, Len(c)) <=> \A i \in 1..Len(c) : c[i] = d[i]
  <2>1. /\ SubSeq(d, 1, Len(c)) \in Seq(S) /\ Len(SubSeq(d, 1, Len(c))) = Len(c)
        /\ \A i \in 1..Len(c) : SubSeq(d, 1, Len(c))[i] = d[i]
    BY <1>1, <1>3
  <2>. QED
    BY <1>1, <1>2, <2>1, SeqEqual
<1>. QED
  BY <1>3 DEF IsPrefix

\* Nothing is a prefix of anything.
LEMMA PrefixEmpty ==
    ASSUME NEW S, NEW d \in Seq(S)
    PROVE  IsPrefix(<<>>, d)
<1>1. <<>> \in Seq(S) /\ Len(<<>>) = 0 /\ Len(d) \in Nat
  OBVIOUS
<1>. DEFINE c == <<>>
<1>2. Len(c) <= Len(d) /\ \A i \in 1..Len(c) : c[i] = d[i]
  BY <1>1
<1>. HIDE DEF c
<1>3. c \in Seq(S)
  BY <1>1 DEF c
<1>4. IsPrefix(c, d)
  BY <1>2, <1>3, PrefixIs
<1>. QED
  BY <1>4 DEF c

\* It grows by the next block, and one that is as long is all there is.
LEMMA PrefixGrows ==
    ASSUME NEW S, NEW c \in Seq(S), NEW d \in Seq(S), IsPrefix(c, d)
    PROVE  /\ Len(c) < Len(d) => IsPrefix(Append(c, d[Len(c) + 1]), d)
           /\ ~(Len(c) < Len(d)) => c = d
<1>1. Len(c) \in Nat /\ Len(d) \in Nat /\ Len(c) <= Len(d) /\ \A i \in 1..Len(c) : c[i] = d[i]
  BY PrefixIs
<1>2. ASSUME Len(c) < Len(d) PROVE IsPrefix(Append(c, d[Len(c) + 1]), d)
  <2>. DEFINE e == Append(c, d[Len(c) + 1])
  <2>1. d[Len(c) + 1] \in S
    BY <1>1, <1>2
  <2>2. e \in Seq(S) /\ Len(e) = Len(c) + 1
        /\ \A i \in 1..Len(e) : e[i] = IF i = Len(c) + 1 THEN d[Len(c) + 1] ELSE c[i]
    BY <1>1, <2>1
  <2>. HIDE DEF e
  <2>3. Len(e) <= Len(d) /\ \A i \in 1..Len(e) : e[i] = d[i]
    BY <1>1, <1>2, <2>2
  <2>. QED
    BY <2>2, <2>3, PrefixIs DEF e
<1>3. ASSUME ~(Len(c) < Len(d)) PROVE c = d
  BY <1>1, <1>3, SeqEqual
<1>. QED
  BY <1>2, <1>3

\* A sequence is a prefix of itself and of what is appended to it.
LEMMA PrefixAppends ==
    ASSUME NEW S, NEW c \in Seq(S), NEW b \in S
    PROVE  IsPrefix(c, c) /\ IsPrefix(c, Append(c, b))
<1>1. Len(c) \in Nat /\ Append(c, b) \in Seq(S) /\ Len(Append(c, b)) = Len(c) + 1
      /\ \A i \in 1..Len(c) : Append(c, b)[i] = c[i]
  OBVIOUS
<1>2. Len(c) <= Len(c) /\ Len(c) <= Len(Append(c, b))
  BY <1>1
<1>. QED
  BY <1>1, <1>2, PrefixIs

\* A prefix of a prefix.
LEMMA PrefixOfPrefix ==
    ASSUME NEW S, NEW c \in Seq(S), NEW d \in Seq(S), NEW e \in Seq(S), IsPrefix(c, d), IsPrefix(d, e)
    PROVE  IsPrefix(c, e)
<1>1. /\ Len(c) \in Nat /\ Len(d) \in Nat /\ Len(e) \in Nat /\ Len(c) <= Len(d) /\ Len(d) <= Len(e)
      /\ \A i \in 1..Len(c) : c[i] = d[i]
      /\ \A i \in 1..Len(d) : d[i] = e[i]
  BY PrefixIs
<1>2. Len(c) <= Len(e) /\ \A i \in 1..Len(c) : c[i] = e[i]
  BY <1>1
<1>. QED
  BY <1>2, PrefixIs

\* A write at the end appends.
LEMMA WriteAtEnd ==
    ASSUME NEW c \in Seq(Block), NEW b \in Block
    PROVE  WriteAt(c, Len(c) + 1, b) = Append(c, b)
<1>1. Len(c) \in Nat
  OBVIOUS
<1>2. WriteAt(c, Len(c) + 1, b) = [j \in 1..(Len(c) + 1) |->
          IF j = Len(c) + 1 THEN b ELSE IF j <= Len(c) THEN c[j] ELSE Hole]
  BY <1>1 DEF WriteAt
<1>3. WriteAt(c, Len(c) + 1, b) \in Seq(Block)
  BY <1>1, WriteAtType
<1>4. Len(WriteAt(c, Len(c) + 1, b)) = Len(c) + 1
  BY <1>1, <1>2, <1>3
<1>5. \A j \in 1..(Len(c) + 1) : WriteAt(c, Len(c) + 1, b)[j] = Append(c, b)[j]
  BY <1>1, <1>2
<1>. QED
  BY <1>1, <1>3, <1>4, <1>5

\* What keeps uploads and live files apart: no new upload and no new live file.
LEMMA ApartKept ==
    ASSUME TypeOK, Control, Apart,
           \A k \in Keys : data'[k] \in {data[k], NoFile},
           \A q \in Reqs : pc'[q] \in Uploading => pc[q] \in Uploading /\ fd'[q] = fd[q]
    PROVE  Apart'
<1>1. ASSUME NEW k \in SerialKeys, NEW q \in Reqs, pc'[q] \in Uploading PROVE fd'[q] # data'[k]
  <2>1. fd'[q] = fd[q] /\ fd[q] # data[k] /\ fd[q] \in Reqs
    BY <1>1 DEF Apart, Control
  <2>2. data'[k] \in {data[k], NoFile}
    BY <1>1 DEF SerialKeys
  <2>. QED
    BY <2>1, <2>2, NoFileAssumption
<1>2. SerialKeys' = SerialKeys
  BY DEF SerialKeys
<1>. QED
  BY <1>1, <1>2 DEF Apart

\* A name moves from an upload to the live file when nobody else uploads.
LEMMA ApartStep == SInv /\ [Next]_vars => Apart'
<1>. SUFFICES ASSUME TypeOK, Control, Territory, OneName, Sole, Apart, [Next]_vars PROVE Apart'
  BY DEF SInv, IInv
<1>1. Stutters \/ \E r \in Reqs : Kinds(r)
  BY StepKinds
<1>. USE StemAssumption, NoFileAssumption DEF TypeOK, Control, Territory, OneName, Sole,
         DataOpen, Unborn, Apart, Mutating, PutOps, MutatorOps, Uploading, Final, Inodes
<1>2. ASSUME NEW r \in Reqs, Enters(r) PROVE Apart'
  <2>1. UNCHANGED data
    BY <1>2 DEF Enters
  <2>2. \A q \in Reqs : pc'[q] \in Uploading => pc[q] \in Uploading /\ fd'[q] = fd[q]
    BY <1>2 DEF Enters, Admit
  <2>3. \A k \in Keys : data'[k] \in {data[k], NoFile}
    BY <2>1
  <2>. HIDE DEF TypeOK, Control, Apart
  <2>. QED
    BY <2>2, <2>3, ApartKept
<1>3. ASSUME NEW r \in Reqs, Reads(r) PROVE Apart'
  <2>1. UNCHANGED data
    BY <1>3 DEF Reads
  <2>2. \A q \in Reqs : pc'[q] \in Uploading => pc[q] \in Uploading /\ fd'[q] = fd[q]
    BY <1>3 DEF Reads
  <2>3. \A k \in Keys : data'[k] \in {data[k], NoFile}
    BY <2>1
  <2>. HIDE DEF TypeOK, Control, Apart
  <2>. QED
    BY <2>2, <2>3, ApartKept
<1>4. ASSUME NEW r \in Reqs, ReadsOn(r) PROVE Apart'
  <2>1. UNCHANGED data
    BY <1>4 DEF ReadsOn
  <2>2. \A q \in Reqs : pc'[q] \in Uploading => pc[q] \in Uploading /\ fd'[q] = fd[q]
    BY <1>4 DEF ReadsOn
  <2>3. \A k \in Keys : data'[k] \in {data[k], NoFile}
    BY <2>1
  <2>. HIDE DEF TypeOK, Control, Apart
  <2>. QED
    BY <2>2, <2>3, ApartKept
<1>5. ASSUME NEW r \in Reqs, Puts(r) PROVE Apart'
  <2>1. PICK k \in Keys : Admit(r, k) /\ Opens(r, k)
    BY <1>5 DEF Puts
  <2>2. pc[r] \in Unborn
    BY <1>5, <2>1 DEF Admit
  <2>3. UNCHANGED data /\ \A q \in Reqs : q # r /\ pc'[q] \in Uploading => pc[q] \in Uploading
    BY <1>5 DEF Puts, Opens
  <2>4. /\ \A k2 \in Keys : data[k2] # fd'[r]
        /\ \A q \in Reqs : q # r => fd'[q] = fd[q]
    BY <2>1, <2>2, OpensFresh
  <2>5. SerialKeys' = SerialKeys /\ SerialKeys \subseteq Keys
    BY DEF SerialKeys
  <2>. HIDE DEF TypeOK, Control, Territory, OneName, Unborn
  <2>. QED
    BY <2>3, <2>4, <2>5
<1>6. ASSUME NEW r \in Reqs, Copies(r) PROVE Apart'
  <2>. DEFINE k == key[r]
  <2>1. k \in Keys /\ Opens(r, k)
    BY <1>6 DEF Copies
  <2>2. pc[r] \in Unborn
    BY <1>6 DEF Copies
  <2>3. UNCHANGED data /\ \A q \in Reqs : q # r /\ pc'[q] \in Uploading => pc[q] \in Uploading
    BY <1>6 DEF Copies, Opens
  <2>4. /\ \A k2 \in Keys : data[k2] # fd'[r]
        /\ \A q \in Reqs : q # r => fd'[q] = fd[q]
    BY <2>1, <2>2, OpensFresh
  <2>5. SerialKeys' = SerialKeys /\ SerialKeys \subseteq Keys
    BY DEF SerialKeys
  <2>. HIDE DEF TypeOK, Control, Territory, OneName, Unborn
  <2>. QED
    BY <2>3, <2>4, <2>5
<1>7. ASSUME NEW r \in Reqs, Writes(r) PROVE Apart'
  <2>1. UNCHANGED data
    BY <1>7 DEF Writes
  <2>2. \A q \in Reqs : pc'[q] \in Uploading => pc[q] \in Uploading /\ fd'[q] = fd[q]
    BY <1>7 DEF Writes
  <2>3. \A k \in Keys : data'[k] \in {data[k], NoFile}
    BY <2>1
  <2>. HIDE DEF TypeOK, Control, Apart
  <2>. QED
    BY <2>2, <2>3, ApartKept
<1>8. ASSUME NEW r \in Reqs, NEW next, Advances(r, next) PROVE Apart'
  <2>1. UNCHANGED data
    BY <1>8 DEF Advances
  <2>2. \A q \in Reqs : pc'[q] \in Uploading => pc[q] \in Uploading /\ fd'[q] = fd[q]
    BY <1>8 DEF Advances, Elsewhere
  <2>3. \A k \in Keys : data'[k] \in {data[k], NoFile}
    BY <2>1
  <2>. HIDE DEF TypeOK, Control, Apart
  <2>. QED
    BY <2>2, <2>3, ApartKept
<1>9. ASSUME NEW r \in Reqs, Aborts(r) PROVE Apart'
  <2>1. UNCHANGED data
    BY <1>9 DEF Aborts
  <2>2. \A q \in Reqs : pc'[q] \in Uploading => pc[q] \in Uploading /\ fd'[q] = fd[q]
    BY <1>9 DEF Aborts
  <2>3. \A k \in Keys : data'[k] \in {data[k], NoFile}
    BY <2>1
  <2>. HIDE DEF TypeOK, Control, Apart
  <2>. QED
    BY <2>2, <2>3, ApartKept
<1>10. ASSUME NEW r \in Reqs, Renames(r) PROVE Apart'
  <2>. DEFINE s == Stem[key[r]]
  <2>1. s \in Stems /\ key[r] \in Keys /\ tmp[s] \in Reqs /\ pc[r] \in Uploading /\ op[r] \in PutOps
    BY <1>10 DEF Renames
  <2>2. data' = [data EXCEPT ![key[r]] = tmp[s]] /\ UNCHANGED <<op, key, fd>>
    BY <1>10 DEF Renames
  <2>3. \A q \in Reqs : pc'[q] \in Uploading => pc[q] \in Uploading /\ q # r
    BY <1>10 DEF Renames
  <2>4. Stem[key[tmp[s]]] = s
    BY <2>1
  <2>5. ASSUME key[r] \in SerialKeys, NEW q \in Reqs, pc'[q] \in Uploading, fd[q] = tmp[s] PROVE FALSE
    <3>1. pc[q] \in Uploading /\ op[q] \in PutOps
      BY <2>3, <2>5
    <3>2. Stem[key[q]] = s
      BY <2>4, <2>5, <3>1
    <3>3. Mutating(q) /\ Mutating(r)
      BY <2>1, <3>1
    <3>. HIDE DEF TypeOK, Control, Territory, OneName, Mutating
    <3>. QED
      BY <2>1, <2>3, <2>5, <3>2, <3>3
  <2>6. \A k \in Keys : data'[k] = IF k = key[r] THEN tmp[s] ELSE data[k]
    BY <2>1, <2>2
  <2>. HIDE DEF TypeOK, Control, Territory, OneName, s, Sole
  <2>. QED
    BY <2>1, <2>2, <2>3, <2>5, <2>6
<1>11. ASSUME NEW r \in Reqs, OpensVersion(r) PROVE Apart'
  <2>1. UNCHANGED data
    BY <1>11 DEF OpensVersion
  <2>2. \A q \in Reqs : pc'[q] \in Uploading => pc[q] \in Uploading /\ fd'[q] = fd[q]
    BY <1>11 DEF OpensVersion
  <2>3. \A k \in Keys : data'[k] \in {data[k], NoFile}
    BY <2>1
  <2>. HIDE DEF TypeOK, Control, Apart
  <2>. QED
    BY <2>2, <2>3, ApartKept
<1>12. ASSUME NEW r \in Reqs, FillsVersion(r) PROVE Apart'
  <2>1. UNCHANGED data
    BY <1>12 DEF FillsVersion
  <2>2. \A q \in Reqs : pc'[q] \in Uploading => pc[q] \in Uploading /\ fd'[q] = fd[q]
    BY <1>12 DEF FillsVersion
  <2>3. \A k \in Keys : data'[k] \in {data[k], NoFile}
    BY <2>1
  <2>. HIDE DEF TypeOK, Control, Apart
  <2>. QED
    BY <2>2, <2>3, ApartKept
<1>13. ASSUME NEW r \in Reqs, OpensMeta(r) PROVE Apart'
  <2>1. UNCHANGED data
    BY <1>13 DEF OpensMeta
  <2>2. \A q \in Reqs : pc'[q] \in Uploading => pc[q] \in Uploading /\ fd'[q] = fd[q]
    BY <1>13 DEF OpensMeta
  <2>3. \A k \in Keys : data'[k] \in {data[k], NoFile}
    BY <2>1
  <2>. HIDE DEF TypeOK, Control, Apart
  <2>. QED
    BY <2>2, <2>3, ApartKept
<1>14. ASSUME NEW r \in Reqs, FillsMeta(r) PROVE Apart'
  <2>1. UNCHANGED data
    BY <1>14 DEF FillsMeta
  <2>2. \A q \in Reqs : pc'[q] \in Uploading => pc[q] \in Uploading /\ fd'[q] = fd[q]
    BY <1>14 DEF FillsMeta
  <2>3. \A k \in Keys : data'[k] \in {data[k], NoFile}
    BY <2>1
  <2>. HIDE DEF TypeOK, Control, Apart
  <2>. QED
    BY <2>2, <2>3, ApartKept
<1>15. ASSUME NEW r \in Reqs, Unlinks(r) PROVE Apart'
  <2>1. data' = [data EXCEPT ![key[r]] = NoFile]
    BY <1>15 DEF Unlinks
  <2>2. \A q \in Reqs : pc'[q] \in Uploading => pc[q] \in Uploading /\ fd'[q] = fd[q]
    BY <1>15 DEF Unlinks
  <2>3. \A k \in Keys : data'[k] \in {data[k], NoFile}
    BY <2>1
  <2>. HIDE DEF TypeOK, Control, Apart
  <2>. QED
    BY <2>2, <2>3, ApartKept
<1>16. ASSUME NEW r \in Reqs, UnlinksMeta(r) PROVE Apart'
  <2>1. UNCHANGED data
    BY <1>16 DEF UnlinksMeta
  <2>2. \A q \in Reqs : pc'[q] \in Uploading => pc[q] \in Uploading /\ fd'[q] = fd[q]
    BY <1>16 DEF UnlinksMeta
  <2>3. \A k \in Keys : data'[k] \in {data[k], NoFile}
    BY <2>1
  <2>. HIDE DEF TypeOK, Control, Apart
  <2>. QED
    BY <2>2, <2>3, ApartKept
<1>17. ASSUME NEW r \in Reqs, OpensMirror(r) PROVE Apart'
  <2>1. PICK i \in Reqs :
          /\ i = data[key[r]] \/ (data[key[r]] = NoFile /\ i = r)
          /\ data' = [data EXCEPT ![key[r]] = i]
    BY <1>17 DEF OpensMirror
  <2>2. /\ UNCHANGED <<op, key>> /\ key[r] \in Keys /\ pc[r] \in Unborn
        /\ \A q \in Reqs : pc'[q] \in Uploading => pc[q] \in Uploading /\ q # r /\ fd'[q] = fd[q]
    BY <1>17 DEF OpensMirror
  <2>3. \A q \in Reqs : pc[q] \in Uploading => fd[q] # r
    BY <2>2
  <2>4. \A k \in Keys : data'[k] = IF k = key[r] THEN i ELSE data[k]
    BY <2>1, <2>2
  <2>. HIDE DEF TypeOK, Control, Territory, OneName, Sole
  <2>. QED
    BY <2>1, <2>2, <2>3, <2>4
<1>18. ASSUME NEW r \in Reqs, FillsMirror(r) PROVE Apart'
  <2>1. UNCHANGED data
    BY <1>18 DEF FillsMirror
  <2>2. \A q \in Reqs : pc'[q] \in Uploading => pc[q] \in Uploading /\ fd'[q] = fd[q]
    BY <1>18 DEF FillsMirror
  <2>3. \A k \in Keys : data'[k] \in {data[k], NoFile}
    BY <2>1
  <2>. HIDE DEF TypeOK, Control, Apart
  <2>. QED
    BY <2>2, <2>3, ApartKept
<1>19. CASE Stutters
  <2>1. UNCHANGED <<pc, fd, data>>
    BY <1>19 DEF Stutters
  <2>2. SerialKeys' = SerialKeys
    BY DEF SerialKeys
  <2>. QED
    BY <2>1, <2>2
<1>. HIDE DEF TypeOK, Control, Territory, OneName, Sole, DataOpen, Unborn, Apart, Mutating,
          PutOps, MutatorOps, Uploading, Final, Inodes
<1>. QED
  BY <1>1, <1>2, <1>3, <1>4, <1>5, <1>6, <1>7, <1>8, <1>9, <1>10, <1>11, <1>12, <1>13,
     <1>14, <1>15, <1>16, <1>17, <1>18, <1>19 DEF Kinds

\* Handlers next to each other work under different paths.
LEMMA Elsewhen ==
    ASSUME Sole, NEW r \in Reqs, NEW q \in Reqs, q # r, Mutating(r), Mutating(q),
           key[q] \in SerialKeys
    PROVE  Stem[key[q]] # Stem[key[r]]
  BY DEF Sole

\* Which keys are serial does not change.
LEMMA SerialKeysFixed == SerialKeys' = SerialKeys /\ SerialKeys \subseteq Keys
  BY DEF SerialKeys

\* The temporary file holds what was received.
LEMMA UploadHeldStep == SInv /\ [Next]_vars => UploadHeld'
<1>. SUFFICES ASSUME TypeOK, Control, Territory, OneName, Sole, UploadHeld,
                     [Next]_vars
              PROVE  UploadHeld'
  BY DEF SInv, IInv
<1>1. Stutters \/ \E r \in Reqs : Kinds(r)
  BY StepKinds
<1>. USE StemAssumption, NoFileAssumption DEF TypeOK, Control, Territory, OneName, Sole,
         DataOpen, Unborn, UploadHeld, Mutating, PutOps, MutatorOps, Uploading, Final,
         Inodes
<1>2. ASSUME NEW r \in Reqs, Enters(r) PROVE UploadHeld'
  BY <1>2 DEF Enters, Admit
<1>3. ASSUME NEW r \in Reqs, Reads(r) PROVE UploadHeld'
  BY <1>3 DEF Reads
<1>4. ASSUME NEW r \in Reqs, ReadsOn(r) PROVE UploadHeld'
  BY <1>4 DEF ReadsOn
<1>5. ASSUME NEW r \in Reqs, Puts(r) PROVE UploadHeld'
  <2>1. PICK k \in Keys : Admit(r, k) /\ key' = [key EXCEPT ![r] = k] /\ Opens(r, k)
    BY <1>5 DEF Puts
  <2>2. pc[r] \in Unborn /\ sum[r] = <<>>
    BY <2>1 DEF Admit
  <2>3. /\ \A q \in Reqs : q # r => fd'[q] = fd[q]
        /\ fd'[r] \in Reqs /\ tmp'[Stem[k]] = fd'[r] /\ body'[fd'[r]] = <<>>
        /\ \A s \in Stems : s # Stem[k] => tmp'[s] = tmp[s] /\ tmp[s] # fd'[r]
        /\ \A j \in Reqs : j # fd'[r] => body'[j] = body[j]
    <3>. HIDE DEF TypeOK, Territory, OneName, Unborn
    <3>. QED
      BY <2>1, <2>2, OpensFresh
  <2>4. \A q \in Reqs : q # r => pc'[q] = pc[q] /\ key'[q] = key[q]
    BY <1>5 DEF Puts
  <2>5. pc'[r] = "body" /\ key'[r] = k
    BY <1>5, <2>1 DEF Puts
  <2>6. ASSUME NEW q \in Reqs, q # r, pc[q] \in Uploading, key[q] \in SerialKeys
        PROVE  tmp'[Stem[key[q]]] = fd[q] /\ body'[fd[q]] = sum[q]
    <3>1. Mutating(q) /\ key[q] \in Keys /\ fd[q] \in Reqs
      BY <2>6
    <3>2. Stem[key[q]] # Stem[k] /\ Stem[key[q]] \in Stems
      BY <2>1, <2>6, <3>1, AdmittedAlone
    <3>3. tmp[Stem[key[q]]] = fd[q] /\ body[fd[q]] = sum[q]
      BY <2>6
    <3>. QED
      BY <2>3, <3>1, <3>2, <3>3
  <2>7. UNCHANGED sum /\ SerialKeys' = SerialKeys
    BY <2>1, SerialKeysFixed DEF Opens
  <2>. HIDE DEF TypeOK, Control, Territory, OneName, Sole, Unborn, Mutating
  <2>. QED
    BY <2>2, <2>3, <2>4, <2>5, <2>6, <2>7
<1>6. ASSUME NEW r \in Reqs, Copies(r) PROVE UploadHeld'
  <2>. DEFINE k == key[r]
  <2>1. k \in Keys /\ Opens(r, k)
    BY <1>6 DEF Copies
  <2>2. pc[r] \in Unborn /\ sum[r] = <<>> /\ Mutating(r)
    BY <1>6 DEF Copies
  <2>3. /\ \A q \in Reqs : q # r => fd'[q] = fd[q]
        /\ fd'[r] \in Reqs /\ tmp'[Stem[k]] = fd'[r] /\ body'[fd'[r]] = <<>>
        /\ \A s \in Stems : s # Stem[k] => tmp'[s] = tmp[s] /\ tmp[s] # fd'[r]
        /\ \A j \in Reqs : j # fd'[r] => body'[j] = body[j]
    <3>. HIDE DEF TypeOK, Territory, OneName, Unborn
    <3>. QED
      BY <2>1, <2>2, OpensFresh
  <2>4. \A q \in Reqs : q # r => pc'[q] = pc[q] /\ key'[q] = key[q]
    BY <1>6 DEF Copies
  <2>5. pc'[r] = "blocks" /\ key'[r] = k
    BY <1>6, <2>1 DEF Copies
  <2>6. ASSUME NEW q \in Reqs, q # r, pc[q] \in Uploading, key[q] \in SerialKeys
        PROVE  tmp'[Stem[key[q]]] = fd[q] /\ body'[fd[q]] = sum[q]
    <3>1. Mutating(q) /\ key[q] \in Keys /\ fd[q] \in Reqs
      BY <2>6
    <3>2. Stem[key[q]] # Stem[k] /\ Stem[key[q]] \in Stems
      BY <2>2, <2>6, <3>1, Elsewhen
    <3>3. tmp[Stem[key[q]]] = fd[q] /\ body[fd[q]] = sum[q]
      BY <2>6
    <3>. QED
      BY <2>3, <3>1, <3>2, <3>3
  <2>7. UNCHANGED sum /\ SerialKeys' = SerialKeys
    BY <2>1, SerialKeysFixed DEF Opens
  <2>. HIDE DEF TypeOK, Control, Territory, OneName, Sole, Unborn, Mutating
  <2>. QED
    BY <2>2, <2>3, <2>4, <2>5, <2>6, <2>7
<1>7. ASSUME NEW r \in Reqs, Writes(r) PROVE UploadHeld'
  <2>1. pc[r] \in Uploading /\ op[r] \in PutOps /\ Mutating(r) /\ fd[r] \in Reqs
    BY <1>7 DEF Writes
  <2>2. PICK b \in Block : /\ body' = [body EXCEPT ![fd[r]] = WriteAt(@, Len(sum[r]) + 1, b)]
                           /\ sum' = [sum EXCEPT ![r] = Append(@, b)]
    BY <1>7 DEF Writes
  <2>3. UNCHANGED <<pc, key, fd, tmp>> /\ SerialKeys' = SerialKeys
    BY <1>7, SerialKeysFixed DEF Writes
  <2>4. /\ \A q \in Reqs : sum'[q] = IF q = r THEN Append(sum[r], b) ELSE sum[q]
        /\ \A j \in Reqs : body'[j] = IF j = fd[r] THEN WriteAt(body[j], Len(sum[r]) + 1, b) ELSE body[j]
        /\ \A q \in Reqs : sum[q] \in Seq(Block)
    BY <2>1, <2>2
  <2>5. ASSUME key[r] \in SerialKeys
        PROVE  tmp[Stem[key[r]]] = fd[r] /\ body'[fd[r]] = sum'[r]
    <3>1. tmp[Stem[key[r]]] = fd[r] /\ body[fd[r]] = sum[r]
      BY <2>1, <2>5
    <3>2. sum[r] \in Seq(Block) /\ WriteAt(sum[r], Len(sum[r]) + 1, b) = Append(sum[r], b)
      BY <2>4, WriteAtEnd
    <3>. HIDE DEF TypeOK, Control, Territory, OneName, Sole, Mutating, UploadHeld
    <3>3. body'[fd[r]] = WriteAt(sum[r], Len(sum[r]) + 1, b)
      BY <2>1, <2>4, <3>1
    <3>4. sum'[r] = Append(sum[r], b)
      BY <2>4
    <3>. QED
      BY <3>1, <3>2, <3>3, <3>4
  <2>6. ASSUME NEW q \in Reqs, q # r, pc[q] \in Uploading, key[q] \in SerialKeys
        PROVE  tmp[Stem[key[q]]] = fd[q] /\ body'[fd[q]] = sum[q]
    <3>1. Mutating(q) /\ fd[q] \in Reqs
      BY <2>6
    <3>2. Stem[key[q]] # Stem[key[r]]
      BY <2>1, <2>6, <3>1, Elsewhen
    <3>3. Stem[key[fd[q]]] = Stem[key[q]] /\ Stem[key[fd[r]]] = Stem[key[r]]
      BY <2>1, <2>6
    <3>4. fd[q] # fd[r]
      BY <3>2, <3>3
    <3>. HIDE DEF TypeOK, Control, Territory, OneName, Sole, Mutating
    <3>. QED
      BY <2>4, <2>6, <3>1, <3>4 DEF UploadHeld
  <2>7. pc[r] \notin Unborn
    BY <2>1
  <2>. HIDE DEF TypeOK, Control, Territory, OneName, Sole, Mutating
  <2>. QED
    BY <2>3, <2>4, <2>5, <2>6, <2>7
<1>8. ASSUME NEW r \in Reqs, NEW next, Advances(r, next) PROVE UploadHeld'
  BY <1>8 DEF Advances, Elsewhere
<1>9. ASSUME NEW r \in Reqs, Aborts(r) PROVE UploadHeld'
  <2>1. Mutating(r) /\ key[r] \in Keys /\ tmp' = [tmp EXCEPT ![Stem[key[r]]] = NoFile]
    BY <1>9 DEF Aborts
  <2>2. UNCHANGED <<key, sum, fd, body>> /\ SerialKeys' = SerialKeys
    BY <1>9, SerialKeysFixed DEF Aborts
  <2>3. \A q \in Reqs : /\ pc'[q] \in Unborn => pc[q] = pc'[q]
                        /\ pc'[q] \in Uploading => pc[q] \in Uploading /\ q # r
    BY <1>9 DEF Aborts
  <2>4. ASSUME NEW q \in Reqs, q # r, pc[q] \in Uploading, key[q] \in SerialKeys
        PROVE  tmp'[Stem[key[q]]] = tmp[Stem[key[q]]]
    <3>1. Mutating(q) /\ key[q] \in Keys
      BY <2>4
    <3>2. Stem[key[q]] # Stem[key[r]]
      BY <2>1, <2>4, <3>1, Elsewhen
    <3>. QED
      BY <2>1, <3>1, <3>2
  <2>5. \A q \in Reqs : /\ pc[q] \in Unborn => sum[q] = <<>>
                        /\ pc[q] \in Uploading /\ key[q] \in SerialKeys =>
                             tmp[Stem[key[q]]] = fd[q] /\ body[fd[q]] = sum[q]
    OBVIOUS
  <2>. HIDE DEF TypeOK, Control, Territory, OneName, Sole, Mutating, UploadHeld
  <2>6. ASSUME NEW q \in Reqs, pc'[q] \in Unborn PROVE sum'[q] = <<>>
    BY <2>2, <2>3, <2>5, <2>6
  <2>7. ASSUME NEW q \in Reqs, pc'[q] \in Uploading, key'[q] \in SerialKeys'
        PROVE  tmp'[Stem[key'[q]]] = fd'[q] /\ body'[fd'[q]] = sum'[q]
    <3>1. pc[q] \in Uploading /\ q # r /\ key'[q] = key[q] /\ key[q] \in SerialKeys
      BY <2>2, <2>3, <2>7
    <3>. QED
      BY <2>2, <2>4, <2>5, <3>1
  <2>. HIDE DEF Uploading
  <2>. QED
    BY <2>6, <2>7 DEF UploadHeld
<1>10. ASSUME NEW r \in Reqs, Renames(r) PROVE UploadHeld'
  <2>1. Mutating(r) /\ key[r] \in Keys /\ tmp' = [tmp EXCEPT ![Stem[key[r]]] = NoFile]
    BY <1>10 DEF Renames
  <2>2. UNCHANGED <<key, sum, fd, body>> /\ SerialKeys' = SerialKeys
    BY <1>10, SerialKeysFixed DEF Renames
  <2>3. \A q \in Reqs : /\ pc'[q] \in Unborn => pc[q] = pc'[q]
                        /\ pc'[q] \in Uploading => pc[q] \in Uploading /\ q # r
    BY <1>10 DEF Renames
  <2>4. ASSUME NEW q \in Reqs, q # r, pc[q] \in Uploading, key[q] \in SerialKeys
        PROVE  tmp'[Stem[key[q]]] = tmp[Stem[key[q]]]
    <3>1. Mutating(q) /\ key[q] \in Keys
      BY <2>4
    <3>2. Stem[key[q]] # Stem[key[r]]
      BY <2>1, <2>4, <3>1, Elsewhen
    <3>. QED
      BY <2>1, <3>1, <3>2
  <2>5. \A q \in Reqs : /\ pc[q] \in Unborn => sum[q] = <<>>
                        /\ pc[q] \in Uploading /\ key[q] \in SerialKeys =>
                             tmp[Stem[key[q]]] = fd[q] /\ body[fd[q]] = sum[q]
    OBVIOUS
  <2>. HIDE DEF TypeOK, Control, Territory, OneName, Sole, Mutating, UploadHeld
  <2>6. ASSUME NEW q \in Reqs, pc'[q] \in Unborn PROVE sum'[q] = <<>>
    BY <2>2, <2>3, <2>5, <2>6
  <2>7. ASSUME NEW q \in Reqs, pc'[q] \in Uploading, key'[q] \in SerialKeys'
        PROVE  tmp'[Stem[key'[q]]] = fd'[q] /\ body'[fd'[q]] = sum'[q]
    <3>1. pc[q] \in Uploading /\ q # r /\ key'[q] = key[q] /\ key[q] \in SerialKeys
      BY <2>2, <2>3, <2>7
    <3>. QED
      BY <2>2, <2>4, <2>5, <3>1
  <2>. HIDE DEF Uploading
  <2>. QED
    BY <2>6, <2>7 DEF UploadHeld
<1>11. ASSUME NEW r \in Reqs, OpensVersion(r) PROVE UploadHeld'
  BY <1>11 DEF OpensVersion
<1>12. ASSUME NEW r \in Reqs, FillsVersion(r) PROVE UploadHeld'
  BY <1>12 DEF FillsVersion
<1>13. ASSUME NEW r \in Reqs, OpensMeta(r) PROVE UploadHeld'
  BY <1>13 DEF OpensMeta
<1>14. ASSUME NEW r \in Reqs, FillsMeta(r) PROVE UploadHeld'
  BY <1>14 DEF FillsMeta
<1>15. ASSUME NEW r \in Reqs, Unlinks(r) PROVE UploadHeld'
  BY <1>15 DEF Unlinks
<1>16. ASSUME NEW r \in Reqs, UnlinksMeta(r) PROVE UploadHeld'
  BY <1>16 DEF UnlinksMeta
<1>17. ASSUME NEW r \in Reqs, OpensMirror(r) PROVE UploadHeld'
  <2>1. PICK i \in Reqs :
          /\ i = data[key[r]] \/ (data[key[r]] = NoFile /\ i = r)
          /\ body' = [body EXCEPT ![i] = <<>>]
    BY <1>17 DEF OpensMirror
  <2>2. /\ UNCHANGED <<key, sum, tmp>> /\ SerialKeys' = SerialKeys
        /\ pc[r] \in Unborn /\ key[r] \in Keys
    BY <1>17, SerialKeysFixed DEF OpensMirror
  <2>3. /\ \A q \in Reqs : pc'[q] \in Unborn \cup Uploading => pc[q] = pc'[q]
        /\ \A q \in Reqs : pc'[q] \in Uploading => fd'[q] = fd[q]
    BY <1>17 DEF OpensMirror
  <2>4. ASSUME NEW s \in Stems, tmp[s] = i PROVE FALSE
    <3>1. CASE i = r
      BY <2>2, <2>4, <3>1
    <3>2. CASE i = data[key[r]]
      <4>1. Stem[key[i]] = s /\ Stem[key[i]] = Stem[key[r]]
        BY <2>2, <2>4, <3>2
      <4>. QED
        BY <2>2, <2>4, <3>2, <4>1
    <3>. QED
      BY <2>1, <3>1, <3>2
  <2>5. \A q \in Reqs : pc[q] \in Uploading /\ key[q] \in SerialKeys => fd[q] # i /\ fd[q] \in Reqs
    <3>. SUFFICES ASSUME NEW q \in Reqs, pc[q] \in Uploading, key[q] \in SerialKeys
                  PROVE  fd[q] # i /\ fd[q] \in Reqs
      OBVIOUS
    <3>1. fd[q] = tmp[Stem[key[q]]] /\ Stem[key[q]] \in Stems /\ fd[q] \in Reqs
      OBVIOUS
    <3>. QED
      BY <2>4, <3>1
  <2>6. \A j \in Reqs : j # i => body'[j] = body[j]
    BY <2>1
  <2>. HIDE DEF TypeOK, Control, Territory, OneName, Sole, Mutating
  <2>. QED
    BY <2>2, <2>3, <2>5, <2>6
<1>18. ASSUME NEW r \in Reqs, FillsMirror(r) PROVE UploadHeld'
  <2>1. \A j \in Reqs : j # fd[r] => body'[j] = body[j]
    BY <1>18 DEF FillsMirror
  <2>2. UNCHANGED <<key, fd, tmp>> /\ SerialKeys' = SerialKeys
    BY <1>18, SerialKeysFixed DEF FillsMirror
  <2>3. \A q \in Reqs : pc'[q] \in Unborn \cup Uploading => pc[q] = pc'[q] /\ q # r
    BY <1>18 DEF FillsMirror
  <2>4. \A s \in Stems : tmp[s] # fd[r]
    BY <1>18 DEF FillsMirror
  <2>5. \A q \in Reqs : pc[q] \in Uploading /\ key[q] \in SerialKeys => fd[q] # fd[r] /\ fd[q] \in Reqs
    <3>. SUFFICES ASSUME NEW q \in Reqs, pc[q] \in Uploading, key[q] \in SerialKeys
                  PROVE  fd[q] # fd[r] /\ fd[q] \in Reqs
      OBVIOUS
    <3>1. fd[q] = tmp[Stem[key[q]]] /\ Stem[key[q]] \in Stems /\ fd[q] \in Reqs
      OBVIOUS
    <3>. QED
      BY <2>4, <3>1
  <2>6. \A q \in Reqs : q # r => sum'[q] = sum[q]
    BY <1>18 DEF FillsMirror
  <2>. HIDE DEF TypeOK, Control, Territory, OneName, Sole, Mutating
  <2>. QED
    BY <2>1, <2>2, <2>3, <2>5, <2>6
<1>19. CASE Stutters
  BY <1>19 DEF Stutters
<1>. HIDE DEF TypeOK, Control, Territory, OneName, Sole, DataOpen, Unborn, UploadHeld,
          Mutating, PutOps, MutatorOps, Uploading, Final, Inodes
<1>. QED
  BY <1>1, <1>2, <1>3, <1>4, <1>5, <1>6, <1>7, <1>8, <1>9, <1>10, <1>11, <1>12, <1>13,
     <1>14, <1>15, <1>16, <1>17, <1>18, <1>19 DEF Kinds

\* A step of r that leaves no trace in the live data file of the others.
LEMMA LiveKept ==
    ASSUME TypeOK, LiveHeld, NEW r \in Reqs,
           data' = data, sum' = sum \/ \A q \in Reqs : q # r => sum'[q] = sum[q],
           \A q \in Reqs : q # r =>
               pc'[q] = pc[q] /\ op'[q] = op[q] /\ key'[q] = key[q] /\ fd'[q] = fd[q],
           pc'[r] \notin {"copyfill", "mirrorfill"},
           op'[r] \notin PutOps \/ pc'[r] \notin Renamed,
           op'[r] # "delete" \/ pc'[r] \notin {"unlinkmeta", "ok"},
           \A q \in Reqs : q # r /\ key[q] \in SerialKeys /\ last'[key[q]] = q =>
               /\ last[key[q]] = q
               /\ op[q] \in PutOps /\ data[key[q]] # NoFile =>
                    body'[data[key[q]]] = body[data[key[q]]]
    PROVE  LiveHeld'
<1>1. ASSUME NEW q \in Reqs, op'[q] \in MutatorOps, key'[q] \in SerialKeys, last'[key'[q]] = q
      PROVE  /\ op'[q] \in PutOps /\ pc'[q] \in Renamed =>
                  data'[key'[q]] # NoFile /\ body'[data'[key'[q]]] = sum'[q]
             /\ pc'[q] \in {"copyfill", "mirrorfill"} => fd'[q] = data'[key'[q]]
             /\ op'[q] = "delete" /\ pc'[q] \in {"unlinkmeta", "ok"} => data'[key'[q]] = NoFile
  <2>1. CASE q = r
    BY <2>1
  <2>2. CASE q # r
    <3>1. op[q] \in MutatorOps /\ key[q] \in SerialKeys /\ last[key[q]] = q
      BY <1>1, <2>2
    <3>2. sum'[q] = sum[q]
      BY <2>2
    <3>. QED
      BY <1>1, <2>2, <3>1, <3>2 DEF LiveHeld, Standing
  <2>. QED
    BY <2>1, <2>2
<1>. QED
  BY <1>1, SerialKeysFixed DEF LiveHeld, Standing

\* The live data file is that of the last handler.
LEMMA LiveHeldStep == SInv /\ [Next]_vars => LiveHeld'
<1>. SUFFICES ASSUME TypeOK, Control, Territory, OneName, Sole, Apart, UploadHeld, LiveHeld,
                     [Next]_vars
              PROVE  LiveHeld'
  BY DEF SInv, IInv
<1>1. Stutters \/ \E r \in Reqs : Kinds(r)
  BY StepKinds
<1>. USE StemAssumption, NoFileAssumption DEF TypeOK, Control, Territory, OneName, Sole,
         DataOpen, Unborn, UploadHeld, LiveHeld, Standing, Renamed, Mutating, PutOps,
         MutatorOps, Uploading, Final, Inodes
<1>2. ASSUME NEW r \in Reqs, Enters(r) PROVE LiveHeld'
  BY <1>2 DEF Enters, Admit
<1>3. ASSUME NEW r \in Reqs, Reads(r) PROVE LiveHeld'
  BY <1>3 DEF Reads
<1>4. ASSUME NEW r \in Reqs, ReadsOn(r) PROVE LiveHeld'
  BY <1>4 DEF ReadsOn
<1>5. ASSUME NEW r \in Reqs, Puts(r) PROVE LiveHeld'
  <2>1. PICK k \in Keys : Admit(r, k) /\ last' = [last EXCEPT ![k] = r] /\ Opens(r, k)
    BY <1>5 DEF Puts
  <2>2. pc[r] \in Unborn
    BY <2>1 DEF Admit
  <2>3. UNCHANGED <<data, sum>> /\ pc'[r] = "body" /\ op'[r] = "put"
    BY <1>5 DEF Puts, Opens
  <2>4. \A q \in Reqs : q # r => pc'[q] = pc[q] /\ op'[q] = op[q] /\ key'[q] = key[q] /\ fd'[q] = fd[q]
    BY <1>5 DEF Puts, Opens
  <2>5. /\ pc'[r] \notin {"copyfill", "mirrorfill"} /\ pc'[r] \notin Renamed
        /\ op'[r] # "delete"
    BY <2>3
  <2>6. ASSUME NEW k2 \in Keys, data[k2] # NoFile PROVE body'[data[k2]] = body[data[k2]]
    <3>1. data[k2] \in Reqs
      BY <2>6
    <3>. HIDE DEF TypeOK, Territory, OneName, Unborn
    <3>2. data[k2] # fd'[r] /\ \A j \in Reqs : j # fd'[r] => body'[j] = body[j]
      BY <2>1, <2>2, OpensFresh
    <3>. QED
      BY <3>1, <3>2
  <2>7. \A k2 \in Keys : last'[k2] # r => last'[k2] = last[k2]
    BY <2>1
  <2>8. SerialKeys \subseteq Keys
    BY SerialKeysFixed
  <2>. HIDE DEF TypeOK, Control, Territory, OneName, Sole, DataOpen, Unborn, UploadHeld,
            LiveHeld, Mutating, PutOps, MutatorOps, Uploading, Renamed, Standing
  <2>. QED
    BY <2>3, <2>4, <2>5, <2>6, <2>7, <2>8, LiveKept
<1>6. ASSUME NEW r \in Reqs, Copies(r) PROVE LiveHeld'
  <2>1. key[r] \in Keys /\ Opens(r, key[r]) /\ pc[r] \in Unborn
    BY <1>6 DEF Copies
  <2>2. UNCHANGED <<data, sum, op, key, last>> /\ pc'[r] = "blocks"
    BY <1>6 DEF Copies, Opens
  <2>3. \A q \in Reqs : q # r => pc'[q] = pc[q] /\ fd'[q] = fd[q]
    BY <1>6 DEF Copies, Opens
  <2>4. pc'[r] \notin {"copyfill", "mirrorfill", "unlinkmeta", "ok"} /\ pc'[r] \notin Renamed
    BY <2>2
  <2>5. ASSUME NEW k2 \in Keys, data[k2] # NoFile PROVE body'[data[k2]] = body[data[k2]]
    <3>1. data[k2] \in Reqs
      BY <2>5
    <3>. HIDE DEF TypeOK, Territory, OneName, Unborn
    <3>2. data[k2] # fd'[r] /\ \A j \in Reqs : j # fd'[r] => body'[j] = body[j]
      BY <2>1, OpensFresh
    <3>. QED
      BY <3>1, <3>2
  <2>6. SerialKeys \subseteq Keys
    BY SerialKeysFixed
  <2>. HIDE DEF TypeOK, Control, Territory, OneName, Sole, DataOpen, Unborn, UploadHeld,
            LiveHeld, Mutating, PutOps, MutatorOps, Uploading, Renamed, Standing
  <2>. QED
    BY <2>2, <2>3, <2>4, <2>5, <2>6, LiveKept
<1>7. ASSUME NEW r \in Reqs, Writes(r) PROVE LiveHeld'
  <2>1. UNCHANGED <<data, pc, op, key, fd, last>> /\ pc[r] \in {"body", "blocks"}
    BY <1>7 DEF Writes
  <2>2. /\ pc[r] \notin {"copyfill", "mirrorfill", "unlinkmeta", "ok"} /\ pc[r] \notin Renamed
        /\ pc[r] \in Uploading
    BY <2>1
  <2>3. \A q \in Reqs : q # r => sum'[q] = sum[q]
    BY <1>7 DEF Writes
  <2>4. \A j \in Reqs : j # fd[r] => body'[j] = body[j]
    BY <1>7 DEF Writes
  <2>5. \A k \in SerialKeys : data[k] # fd[r]
    BY <2>2 DEF Apart
  <2>6. SerialKeys \subseteq Keys /\ \A k \in Keys : data[k] # NoFile => data[k] \in Reqs
    BY SerialKeysFixed
  <2>. HIDE DEF TypeOK, Control, Territory, OneName, Sole, DataOpen, Unborn, UploadHeld,
            LiveHeld, Mutating, PutOps, MutatorOps, Uploading, Renamed, Standing
  <2>. QED
    BY <2>1, <2>2, <2>3, <2>4, <2>5, <2>6, LiveKept
<1>8. ASSUME NEW r \in Reqs, NEW next, Advances(r, next) PROVE LiveHeld'
  BY <1>8 DEF Advances, Elsewhere
<1>9. ASSUME NEW r \in Reqs, Aborts(r) PROVE LiveHeld'
  BY <1>9 DEF Aborts
<1>10. ASSUME NEW r \in Reqs, Renames(r) PROVE LiveHeld'
  BY <1>10 DEF Renames
<1>11. ASSUME NEW r \in Reqs, OpensVersion(r) PROVE LiveHeld'
  BY <1>11 DEF OpensVersion
<1>12. ASSUME NEW r \in Reqs, FillsVersion(r) PROVE LiveHeld'
  BY <1>12 DEF FillsVersion
<1>13. ASSUME NEW r \in Reqs, OpensMeta(r) PROVE LiveHeld'
  BY <1>13 DEF OpensMeta
<1>14. ASSUME NEW r \in Reqs, FillsMeta(r) PROVE LiveHeld'
  BY <1>14 DEF FillsMeta
<1>15. ASSUME NEW r \in Reqs, Unlinks(r) PROVE LiveHeld'
  BY <1>15 DEF Unlinks
<1>16. ASSUME NEW r \in Reqs, UnlinksMeta(r) PROVE LiveHeld'
  BY <1>16 DEF UnlinksMeta
<1>17. ASSUME NEW r \in Reqs, OpensMirror(r) PROVE LiveHeld'
  BY <1>17 DEF OpensMirror
<1>18. ASSUME NEW r \in Reqs, FillsMirror(r) PROVE LiveHeld'
  <2>1. UNCHANGED <<data, op, key, fd, last>> /\ op[r] = "deleteVersion" /\ Mutating(r)
    BY <1>18 DEF FillsMirror
  <2>2. /\ pc[r] = "mirrorfill" /\ pc'[r] \in {"mirrorfill", "meta", "tidy"}
        /\ \A q \in Reqs : q # r => pc'[q] = pc[q] /\ sum'[q] = sum[q]
    BY <1>18 DEF FillsMirror
  <2>3. \A j \in Reqs : j # fd[r] => body'[j] = body[j]
    BY <1>18 DEF FillsMirror
  <2>4. \A k \in Keys : data[k] = fd[r] => k = key[r]
    BY <2>2
  <2>5. key[r] \in SerialKeys => last[key[r]] = r
    BY <2>1
  <2>6. \A k \in Keys : data[k] # NoFile => data[k] \in Reqs
    OBVIOUS
  <2>7. op[r] \notin PutOps /\ op[r] # "delete" /\ pc'[r] # "copyfill"
    BY <2>1, <2>2
  <2>8. SerialKeys' = SerialKeys /\ SerialKeys \subseteq Keys
    BY SerialKeysFixed
  <2>. HIDE DEF TypeOK, Control, Territory, OneName, Sole, DataOpen, Unborn, UploadHeld,
            LiveHeld, Mutating, PutOps, MutatorOps, Uploading, Renamed, Standing
  <2>9. ASSUME NEW q \in Reqs, op[q] \in MutatorOps, key[q] \in SerialKeys, last[key[q]] = q
        PROVE  /\ op[q] \in PutOps /\ pc'[q] \in Renamed =>
                    data[key[q]] # NoFile /\ body'[data[key[q]]] = sum'[q]
               /\ pc'[q] \in {"copyfill", "mirrorfill"} => fd[q] = data[key[q]]
               /\ op[q] = "delete" /\ pc'[q] \in {"unlinkmeta", "ok"} => data[key[q]] = NoFile
    <3>1. CASE q = r
      BY <2>2, <2>7, <2>9, <3>1 DEF LiveHeld, Standing
    <3>2. CASE q # r
      <4>1. data[key[q]] # NoFile => body'[data[key[q]]] = body[data[key[q]]]
        BY <2>3, <2>4, <2>5, <2>6, <2>8, <2>9, <3>2
      <4>. QED
        BY <2>2, <2>9, <3>2, <4>1 DEF LiveHeld, Standing
    <3>. QED
      BY <3>1, <3>2
  <2>. QED
    BY <2>1, <2>8, <2>9 DEF LiveHeld, Standing
<1>19. CASE Stutters
  BY <1>19 DEF Stutters
<1>. HIDE DEF TypeOK, Control, Territory, OneName, Sole, DataOpen, Unborn, UploadHeld,
          LiveHeld, Standing, Renamed, Mutating, PutOps, MutatorOps, Uploading, Final,
          Inodes
<1>. QED
  BY <1>1, <1>2, <1>3, <1>4, <1>5, <1>6, <1>7, <1>8, <1>9, <1>10, <1>11, <1>12, <1>13,
     <1>14, <1>15, <1>16, <1>17, <1>18, <1>19 DEF Kinds

\* The copy of the live data file is a copy of what was received.
LEMMA VersionHeldStep == SInv /\ [Next]_vars => VersionHeld'
<1>. SUFFICES ASSUME TypeOK, Control, Territory, OneName, Sole, OneOwner, LiveHeld,
                     VersionHeld, [Next]_vars
              PROVE  VersionHeld'
  BY DEF SInv, IInv
<1>1. Stutters \/ \E r \in Reqs : Kinds(r)
  BY StepKinds
<1>. USE StemAssumption, NoFileAssumption DEF TypeOK, Control, Territory, OneName, Sole,
         OneOwner, LiveHeld, Standing, Renamed, VersionHeld, Mutating, PutOps, MutatorOps,
         Uploading, Final, Inodes
<1>2. ASSUME NEW r \in Reqs, Enters(r) PROVE VersionHeld'
  BY <1>2 DEF Enters, Admit
<1>3. ASSUME NEW r \in Reqs, Reads(r) PROVE VersionHeld'
  BY <1>3 DEF Reads
<1>4. ASSUME NEW r \in Reqs, ReadsOn(r) PROVE VersionHeld'
  BY <1>4 DEF ReadsOn
<1>5. ASSUME NEW r \in Reqs, Puts(r) PROVE VersionHeld'
  BY <1>5 DEF Puts, Admit, Opens
<1>6. ASSUME NEW r \in Reqs, Copies(r) PROVE VersionHeld'
  BY <1>6 DEF Copies, Opens
<1>7. ASSUME NEW r \in Reqs, Writes(r) PROVE VersionHeld'
  BY <1>7 DEF Writes
<1>8. ASSUME NEW r \in Reqs, NEW next, Advances(r, next) PROVE VersionHeld'
  BY <1>8 DEF Advances, Elsewhere
<1>9. ASSUME NEW r \in Reqs, Aborts(r) PROVE VersionHeld'
  BY <1>9 DEF Aborts
<1>10. ASSUME NEW r \in Reqs, Renames(r) PROVE VersionHeld'
  BY <1>10 DEF Renames
<1>11. ASSUME NEW r \in Reqs, OpensVersion(r) PROVE VersionHeld'
  <2>1. /\ pc[r] = "copy" /\ op[r] \in PutOps /\ vid[r] \in Vids
        /\ vbody' = [vbody EXCEPT ![vid[r]] = <<>>]
        /\ UNCHANGED <<op, key, vid, sum>>
    BY <1>11 DEF OpensVersion
  <2>2. pc'[r] = "copyfill" /\ \A q \in Reqs : q # r => pc'[q] = pc[q]
    BY <1>11 DEF OpensVersion
  <2>3. vbody'[vid[r]] = <<>> /\ \A v \in Vids : v # vid[r] => vbody'[v] = vbody[v]
    BY <2>1
  <2>4. \A q \in Reqs : op[q] \in PutOps /\ vid[q] # NoVid /\ q # r => vid[q] # vid[r]
            /\ vid[q] \in Vids
    BY <2>1
  <2>5. IsPrefix(<<>>, sum[r])
    <3>1. sum[r] \in Seq(Block)
      OBVIOUS
    <3>. QED
      BY <3>1, PrefixEmpty
  <2>. HIDE DEF TypeOK, Control, Territory, OneName, Sole, OneOwner, LiveHeld, Mutating,
            PutOps, MutatorOps
  <2>. QED
    BY <2>1, <2>2, <2>3, <2>4, <2>5, SerialKeysFixed
<1>12. ASSUME NEW r \in Reqs, FillsVersion(r) PROVE VersionHeld'
  <2>1. /\ pc[r] = "copyfill" /\ op[r] \in PutOps /\ vid[r] \in Vids
        /\ UNCHANGED <<op, key, vid, sum>>
    BY <1>12 DEF FillsVersion
  <2>2. \A q \in Reqs : q # r => pc'[q] = pc[q]
    BY <1>12 DEF FillsVersion
  <2>3. ASSUME key[r] \in SerialKeys PROVE body[fd[r]] = sum[r] /\ IsPrefix(vbody[vid[r]], sum[r])
    <3>1. last[key[r]] = r
      BY <2>1, <2>3
    <3>2. fd[r] = data[key[r]] /\ body[data[key[r]]] = sum[r]
      BY <2>1, <2>3, <3>1
    <3>. QED
      BY <2>1, <2>3, <3>2
  <2>4. \A v \in Vids : v # vid[r] => vbody'[v] = vbody[v]
    BY <1>12, <2>1 DEF FillsVersion
  <2>5. \A q \in Reqs : op[q] \in PutOps /\ vid[q] # NoVid /\ q # r => vid[q] # vid[r]
            /\ vid[q] \in Vids
    BY <2>1
  <2>6. vbody[vid[r]] \in Seq(Block) /\ sum[r] \in Seq(Block) /\ vbody \in [Vids -> Seq(Block)]
    BY <2>1
  <2>7. ASSUME key[r] \in SerialKeys
        PROVE  \/ pc'[r] = "copyfill" /\ IsPrefix(vbody'[vid[r]], sum[r])
               \/ pc'[r] = "vmeta" /\ vbody'[vid[r]] = sum[r]
    <3>1. CASE /\ Len(vbody[vid[r]]) < Len(body[fd[r]])
               /\ pc' = [pc EXCEPT ![r] = "copyfill"]
               /\ vbody' = [vbody EXCEPT ![vid[r]] = Append(@, body[fd[r]][Len(@) + 1])]
      <4>1. /\ pc'[r] = "copyfill"
            /\ vbody'[vid[r]] = Append(vbody[vid[r]], sum[r][Len(vbody[vid[r]]) + 1])
        BY <2>1, <2>3, <2>7, <3>1
      <4>. HIDE DEF TypeOK, Control, Sole, VersionHeld, LiveHeld
      <4>. QED
        BY <2>3, <2>6, <2>7, <3>1, <4>1, PrefixGrows
    <3>2. CASE /\ ~(Len(vbody[vid[r]]) < Len(body[fd[r]]))
               /\ pc' = [pc EXCEPT ![r] = "vmeta"] /\ vbody' = vbody
      <4>1. pc'[r] = "vmeta"
        BY <3>2
      <4>. HIDE DEF TypeOK, Control, Sole, VersionHeld, LiveHeld
      <4>. QED
        BY <2>3, <2>6, <2>7, <3>2, <4>1, PrefixGrows
    <3>. QED
      BY <1>12, <3>1, <3>2 DEF FillsVersion
  <2>. HIDE DEF TypeOK, Control, Territory, OneName, Sole, OneOwner, LiveHeld, Mutating,
            PutOps, MutatorOps
  <2>. QED
    BY <2>1, <2>2, <2>4, <2>5, <2>7, SerialKeysFixed
<1>13. ASSUME NEW r \in Reqs, OpensMeta(r) PROVE VersionHeld'
  BY <1>13 DEF OpensMeta
<1>14. ASSUME NEW r \in Reqs, FillsMeta(r) PROVE VersionHeld'
  BY <1>14 DEF FillsMeta
<1>15. ASSUME NEW r \in Reqs, Unlinks(r) PROVE VersionHeld'
  BY <1>15 DEF Unlinks
<1>16. ASSUME NEW r \in Reqs, UnlinksMeta(r) PROVE VersionHeld'
  BY <1>16 DEF UnlinksMeta
<1>17. ASSUME NEW r \in Reqs, OpensMirror(r) PROVE VersionHeld'
  BY <1>17 DEF OpensMirror
<1>18. ASSUME NEW r \in Reqs, FillsMirror(r) PROVE VersionHeld'
  BY <1>18 DEF FillsMirror
<1>19. CASE Stutters
  BY <1>19 DEF Stutters
<1>. HIDE DEF TypeOK, Control, Territory, OneName, Sole, OneOwner, LiveHeld, Standing,
          Renamed, VersionHeld, Mutating, PutOps, MutatorOps, Uploading, Final, Inodes
<1>. QED
  BY <1>1, <1>2, <1>3, <1>4, <1>5, <1>6, <1>7, <1>8, <1>9, <1>10, <1>11, <1>12, <1>13,
     <1>14, <1>15, <1>16, <1>17, <1>18, <1>19 DEF Kinds

\* The live metadata are those of the last handler.
LEMMA MetaHeldStep == SInv /\ [Next]_vars => MetaHeld'
<1>. SUFFICES ASSUME TypeOK, Control, Territory, OneName, Sole, MetaHeld,
                     [Next]_vars
              PROVE  MetaHeld'
  BY DEF SInv, IInv
<1>1. Stutters \/ \E r \in Reqs : Kinds(r)
  BY StepKinds
<1>. USE StemAssumption, NoFileAssumption DEF TypeOK, Control, Territory, OneName, Sole,
         MetaHeld, Standing, Mutating, PutOps, MutatorOps, Uploading, Final, Inodes
<1>2. ASSUME NEW r \in Reqs, Enters(r) PROVE MetaHeld'
  BY <1>2 DEF Enters, Admit
<1>3. ASSUME NEW r \in Reqs, Reads(r) PROVE MetaHeld'
  BY <1>3 DEF Reads
<1>4. ASSUME NEW r \in Reqs, ReadsOn(r) PROVE MetaHeld'
  BY <1>4 DEF ReadsOn
<1>5. ASSUME NEW r \in Reqs, Puts(r) PROVE MetaHeld'
  BY <1>5 DEF Puts, Admit, Opens
<1>6. ASSUME NEW r \in Reqs, Copies(r) PROVE MetaHeld'
  BY <1>6 DEF Copies, Opens
<1>7. ASSUME NEW r \in Reqs, Writes(r) PROVE MetaHeld'
  BY <1>7 DEF Writes
<1>8. ASSUME NEW r \in Reqs, NEW next, Advances(r, next) PROVE MetaHeld'
  BY <1>8 DEF Advances, Elsewhere
<1>9. ASSUME NEW r \in Reqs, Aborts(r) PROVE MetaHeld'
  BY <1>9 DEF Aborts
<1>10. ASSUME NEW r \in Reqs, Renames(r) PROVE MetaHeld'
  BY <1>10 DEF Renames
<1>11. ASSUME NEW r \in Reqs, OpensVersion(r) PROVE MetaHeld'
  BY <1>11 DEF OpensVersion
<1>12. ASSUME NEW r \in Reqs, FillsVersion(r) PROVE MetaHeld'
  BY <1>12 DEF FillsVersion
<1>13. ASSUME NEW r \in Reqs, OpensMeta(r) PROVE MetaHeld'
  <2>1. UNCHANGED <<op, key, last, vid, sum>> /\ key[r] \in Keys /\ Mutating(r)
    BY <1>13 DEF OpensMeta
  <2>2. PICK i \in Reqs :
          /\ i = meta[key[r]] \/ (meta[key[r]] = NoFile /\ i = r)
          /\ meta' = [meta EXCEPT ![key[r]] = i]
          /\ info' = [info EXCEPT ![i] = Empty]
          /\ fd' = [fd EXCEPT ![r] = i]
    BY <1>13 DEF OpensMeta
  <2>3. pc'[r] = "metafill" /\ fd'[r] = i /\ meta'[key[r]] = i
    BY <1>13, <2>1, <2>2 DEF OpensMeta
  <2>4. \A q \in Reqs : q # r => pc'[q] = pc[q] /\ fd'[q] = fd[q]
    BY <1>13 DEF OpensMeta
  <2>5. ASSUME NEW q \in Reqs, q # r, op[q] \in PutOps, key[q] \in SerialKeys, last[key[q]] = q
        PROVE  /\ key[q] # key[r] /\ meta'[key[q]] = meta[key[q]]
               /\ meta[key[q]] # NoFile => info'[meta[key[q]]] = info[meta[key[q]]]
    <3>1. key[q] \in Keys
      BY <2>5
    <3>2. key[q] # key[r]
      BY <2>1, <2>5
    <3>3. meta[key[q]] # NoFile => meta[key[q]] \in Reqs /\ key[meta[key[q]]] = key[q]
      BY <3>1
    <3>4. key[i] = key[r]
      BY <2>1, <2>2
    <3>. QED
      BY <2>1, <2>2, <3>1, <3>2, <3>3, <3>4
  <2>. HIDE DEF TypeOK, Control, Territory, OneName, Sole, Mutating, PutOps, MutatorOps
  <2>. QED
    BY <2>1, <2>3, <2>4, <2>5, SerialKeysFixed
<1>14. ASSUME NEW r \in Reqs, FillsMeta(r) PROVE MetaHeld'
  BY <1>14 DEF FillsMeta
<1>15. ASSUME NEW r \in Reqs, Unlinks(r) PROVE MetaHeld'
  BY <1>15 DEF Unlinks
<1>16. ASSUME NEW r \in Reqs, UnlinksMeta(r) PROVE MetaHeld'
  <2>1. UNCHANGED <<op, key, last, vid, sum>> /\ key[r] \in Keys /\ Mutating(r)
    BY <1>16 DEF UnlinksMeta
  <2>2. meta' = [meta EXCEPT ![key[r]] = NoFile] /\ UNCHANGED <<fd, info>>
    BY <1>16 DEF UnlinksMeta
  <2>3. op[r] \notin PutOps
    BY <1>16 DEF UnlinksMeta
  <2>4. \A q \in Reqs : q # r => pc'[q] = pc[q] /\ fd'[q] = fd[q]
    BY <1>16, <2>2 DEF UnlinksMeta
  <2>5. ASSUME NEW q \in Reqs, q # r, op[q] \in PutOps, key[q] \in SerialKeys, last[key[q]] = q
        PROVE  /\ key[q] # key[r] /\ meta'[key[q]] = meta[key[q]]
               /\ meta[key[q]] # NoFile => info'[meta[key[q]]] = info[meta[key[q]]]
    <3>1. key[q] \in Keys
      BY <2>5
    <3>2. key[q] # key[r]
      BY <2>1, <2>5
    <3>. QED
      BY <2>1, <2>2, <3>1, <3>2
  <2>. HIDE DEF TypeOK, Control, Territory, OneName, Sole, Mutating, PutOps, MutatorOps
  <2>. QED
    BY <2>1, <2>3, <2>4, <2>5, SerialKeysFixed
<1>17. ASSUME NEW r \in Reqs, OpensMirror(r) PROVE MetaHeld'
  BY <1>17 DEF OpensMirror
<1>18. ASSUME NEW r \in Reqs, FillsMirror(r) PROVE MetaHeld'
  BY <1>18 DEF FillsMirror
<1>19. CASE Stutters
  BY <1>19 DEF Stutters
<1>. HIDE DEF TypeOK, Control, Territory, OneName, Sole, MetaHeld, Standing, Mutating,
          PutOps, MutatorOps, Uploading, Final, Inodes
<1>. QED
  BY <1>1, <1>2, <1>3, <1>4, <1>5, <1>6, <1>7, <1>8, <1>9, <1>10, <1>11, <1>12, <1>13,
     <1>14, <1>15, <1>16, <1>17, <1>18, <1>19 DEF Kinds
\* The invariant behind what holds of serial keys.
LEMMA SInvariance == Spec => []SInv
<1>1. SInv /\ [Next]_vars => SInv'
  BY TypeStep, ControlStep, OneOwnerStep, RecordedStep, TerritoryStep, OneNameStep, SoleStep,
     ApartStep, UploadHeldStep, LiveHeldStep, VersionHeldStep, MetaHeldStep DEF SInv, IInv
<1>. QED
  BY InitSInv, <1>1, PTL DEF Spec

\* The version that an acknowledged PUT or COPY of a serial key reports holds
\* what the handler received, although finish copies it from the live name.
THEOREM AckedAreWhole == Spec => []AckedVersionWhole
<1>1. SInv => AckedVersionWhole
  BY DEF SInv, VersionHeld, AckedVersionWhole, Acked
<1>. QED
  BY SInvariance, <1>1, PTL

\* What the last mutating request on a serial key wrote or removed is what its
\* live names show, whatever the failed requests before it left behind.
THEOREM WritesAreRead == Spec => []ReadYourWrites
<1>1. SInv => ReadYourWrites
  <2>. SUFFICES ASSUME SInv, NEW k \in SerialKeys, last[k] # NoFile
                PROVE  LET r == last[k] IN
                       /\ op[r] \in PutOps /\ pc[r] = "ok" =>
                           /\ data[k] # NoFile /\ body[data[k]] = sum[r]
                           /\ meta[k] # NoFile /\ info[meta[k]] = [etag |-> sum[r], vid |-> vid[r]]
                       /\ op[r] = "delete" /\ pc[r] = "ok" => data[k] = NoFile
    BY DEF ReadYourWrites
  <2>. DEFINE r == last[k]
  <2>1. r \in Reqs /\ key[r] = k /\ op[r] \in MutatorOps
    BY SerialKeysFixed DEF SInv, IInv, TypeOK, Inodes, Sole
  <2>. QED
    BY <2>1 DEF SInv, LiveHeld, MetaHeld, Standing, Renamed, MutatorOps, PutOps
<1>. QED
  BY SInvariance, <1>1, PTL

----------------------------------------------------------------------------
(* The newest version of a serial key and its live file.                   *)

\* The requests that make versions.
Versioning == PutOps \cup {"delete"}

\* Every file of a version is of a request on that key; no version that is
\* asked to be deleted is one still to be made, or the last handler's own.
Owned ==
    /\ \A k \in Keys, v \in Vids :
        /\ v \in vdata[k] => \E q \in Reqs : op[q] \in PutOps /\ key[q] = k /\ vid[q] = v
        /\ v \in vmark[k] => \E q \in Reqs : op[q] = "delete" /\ key[q] = k /\ vid[q] = v
        /\ v \in vmeta[k] => \E q \in Reqs : op[q] \in Versioning /\ key[q] = k /\ vid[q] = v
    /\ \A r \in Reqs : op[r] = "deleteVersion" /\ vid[r] # NoVid =>
        \E q \in Reqs : op[q] \in Versioning /\ vid[q] = vid[r]
    /\ \A k \in Keys : last[k] # NoFile /\ op[last[k]] \in Versioning /\ vid[last[k]] # NoVid =>
        ~Purged(vid[last[k]])

\* A directory is there as long as it has an entry.
Housed == \A k \in Keys : ~vdir[k] => Entries(k) = {}

\* The last handler's version is the newest of its key.
Ascending ==
    \A k \in SerialKeys, q \in Reqs :
        /\ last[k] # NoFile /\ op[last[k]] \in Versioning /\ vid[last[k]] # NoVid
        /\ op[q] \in Versioning /\ key[q] = k
        => vid[q] <= vid[last[k]]

\* What repromote_latest finds, and what it leaves.
NewestIsMarker(k) == \A v \in Entries(k) : IsNewest(k, v) => v \in vmark[k]
Reflects(k) ==
    \A v \in Entries(k) : IsNewest(k, v) =>
        IF v \in vmark[k]
        THEN data[k] = NoFile
        ELSE data[k] # NoFile /\ body[data[k]] = vbody[v]

\* What the last handler knows: its version, if it found versioning, and of
\* repromote_latest the entries of its key and the one it picked.
Knows(r) ==
    /\ op[r] \in PutOps /\ pc[r] \in {"meta", "metafill", "ok"} /\ Records(mode[r]) =>
        vid[r] # NoVid
    /\ op[r] = "delete" /\ pc[r] \in {"unlink", "unlinkmeta", "ok"} /\ Records(mode[r]) =>
        vid[r] # NoVid
    /\ op[r] = "deleteVersion" =>
        /\ pc[r] \in {"mirror", "mirrorfill", "meta", "metafill"} =>
            IsNewest(key[r], src[r]) /\ src[r] \notin vmark[key[r]]
        /\ pc[r] = "mirrorfill" =>
            /\ data[key[r]] # NoFile /\ body[data[key[r]]] = sum[r]
            /\ IsPrefix(sum[r], vbody[src[r]])
        /\ pc[r] \in {"meta", "metafill"} =>
            data[key[r]] # NoFile /\ body[data[key[r]]] = vbody[src[r]]
        /\ pc[r] \in {"unlink", "unlinkmeta"} => NewestIsMarker(key[r])
        /\ pc[r] = "unlinkmeta" => data[key[r]] = NoFile
        /\ pc[r] \in {"tidy", "ok"} => Reflects(key[r])

Mirrored ==
    \A r \in Reqs : op[r] \in MutatorOps /\ key[r] \in SerialKeys /\ Standing(r) => Knows(r)

MInv == Owned /\ Housed /\ Ascending /\ Mirrored

----------------------------------------------------------------------------
(* The steps of the specification, by what they do to the versions.        *)

\* A request that makes versions begins.
Asks(r) ==
    /\ \E k \in Keys, o \in Versioning, next \in {"failed", "writer", "body", "marker", "unlink"} :
        /\ Admit(r, k)
        /\ pc' = [pc EXCEPT ![r] = next]
        /\ op' = [op EXCEPT ![r] = o]
        /\ key' = [key EXCEPT ![r] = k]
        /\ last' = [last EXCEPT ![k] = r]
        /\ next \in {"marker", "unlink"} => o = "delete"
        /\ next = "marker" <=> (o = "delete" /\ Records(status))
        /\ mode' = mode \/ mode' = [mode EXCEPT ![r] = status]
        /\ next \notin {"failed", "writer"} => mode' = [mode EXCEPT ![r] = status]
    /\ UNCHANGED <<vid, src, status, vdir, vdata, vmeta, vmark>>

\* A request that changes no object begins.
Looks(r) ==
    /\ pc[r] = "idle"
    /\ \E o \in {"get", "getVersion"}, next \in {"failed", "stream"} :
        op' = [op EXCEPT ![r] = o] /\ pc' = [pc EXCEPT ![r] = next]
    /\ \E k : key' = [key EXCEPT ![r] = k]
    /\ vid' = vid \/ \E v : vid' = [vid EXCEPT ![r] = v]
    /\ src' = src \/ \E v : src' = [src EXCEPT ![r] = v]
    /\ UNCHANGED <<last, mode, status, vdir, vdata, vmeta, vmark>>

Configures(r) == \E m \in {"Enabled", "Suspended"} : PutVersioning(r, m)

\* A new identifier.
Numbers(r) ==
    /\ pc[r] \in {"version", "marker"} /\ op[r] \in Versioning /\ vid[r] = NoVid /\ key[r] \in Keys
    /\ \E v \in Vids : NewVid(v) /\ vid' = [vid EXCEPT ![r] = v]
    /\ vdir' = [vdir EXCEPT ![key[r]] = TRUE]
    /\ \E next \in {"copy", "markfile"} : pc' = [pc EXCEPT ![r] = next]
    /\ UNCHANGED <<op, key, last, mode, src, status, vdata, vmeta, vmark>>

\* A file more in the directory.
AddsData(r) ==
    /\ pc[r] = "copy" /\ op[r] \in PutOps /\ key[r] \in Keys /\ vid[r] \in Vids /\ vdir[key[r]]
    /\ vdata' = [vdata EXCEPT ![key[r]] = @ \cup {vid[r]}]
    /\ pc' = [pc EXCEPT ![r] = "copyfill"]
    /\ UNCHANGED <<op, key, last, vid, mode, src, status, vdir, vmeta, vmark>>

AddsMeta(r) ==
    /\ pc[r] = "vmeta" /\ op[r] \in PutOps /\ key[r] \in Keys /\ vid[r] \in Vids /\ vdir[key[r]]
    /\ vmeta' = [vmeta EXCEPT ![key[r]] = @ \cup {vid[r]}]
    /\ pc' = [pc EXCEPT ![r] = "vmetafill"]
    /\ UNCHANGED <<op, key, last, vid, mode, src, status, vdir, vdata, vmark>>

AddsMarker(r) ==
    /\ pc[r] = "markfile" /\ op[r] = "delete" /\ key[r] \in Keys /\ vid[r] \in Vids /\ vdir[key[r]]
    /\ vmark' = [vmark EXCEPT ![key[r]] = @ \cup {vid[r]}]
    /\ vmeta' = [vmeta EXCEPT ![key[r]] = @ \cup {vid[r]}]
    /\ pc' = [pc EXCEPT ![r] = "unlink"]
    /\ UNCHANGED <<op, key, last, vid, mode, src, status, vdir, vdata>>

\* What a handler does elsewhere, from where to where.
QuietSteps ==
    {<<"body", "body">>, <<"body", "version">>, <<"body", "meta">>, <<"blocks", "blocks">>,
     <<"blocks", "rename">>, <<"rename", "version">>, <<"rename", "meta">>, <<"copyfill", "copyfill">>,
     <<"copyfill", "vmeta">>, <<"vmetafill", "meta">>, <<"meta", "metafill">>, <<"metafill", "ok">>, <<"metafill", "tidy">>,
     <<"unlink", "ok">>, <<"unlink", "unlinkmeta">>, <<"unlinkmeta", "ok">>, <<"unlinkmeta", "tidy">>,
     <<"mirror", "mirrorfill">>, <<"mirrorfill", "mirrorfill">>, <<"mirrorfill", "meta">>,
     <<"mirrorfill", "tidy">>, <<"stream", "ok">>}

Quietly(r, next) ==
    /\ op[r] # "none" /\ pc[r] \notin Final \cup {"idle"}
    /\ pc' = [pc EXCEPT ![r] = next]
    /\ next = "failed" \/ <<pc[r], next>> \in QuietSteps
    /\ next = "version" => Records(mode[r])
    /\ next = "meta" /\ pc[r] \in {"body", "rename"} => ~Records(mode[r])
    /\ UNCHANGED <<op, key, last, vid, mode, src, status, vdir, vdata, vmeta, vmark>>

Rests == UNCHANGED <<pc, op, key, last, vid, mode, src, status, vdir, vdata, vmeta, vmark>>

VersionKinds(r) ==
    \/ Asks(r) \/ (\E k \in Keys : DeleteVersion(r, k)) \/ Looks(r) \/ Configures(r) \/ Numbers(r)
    \/ AddsData(r) \/ AddsMeta(r) \/ AddsMarker(r) \/ PurgeRest(r) \/ Scan(r) \/ Tidy(r) \/ CopyWriter(r)
    \/ PutVersioningFill(r) \/ (\E next : Quietly(r, next))

\* Every step is of one of these kinds.
LEMMA VersionStepKinds ==
    ASSUME TypeOK, Control, [Next]_vars
    PROVE  Rests \/ \E r \in Reqs : VersionKinds(r)
<1>. USE DEF Goto, reqVars, mirrorVars, versionVars, fileVars, Versioning
<1>1. ASSUME NEW r \in Reqs, NEW k \in Keys, PutObjectWriter(r, k) PROVE Asks(r)
  BY <1>1 DEF PutObjectWriter, OpenUpload, Begin, Asks, PutOps
<1>2. ASSUME NEW r \in Reqs, NEW k \in Keys, DeleteObject(r, k) PROVE Asks(r)
  BY <1>2 DEF DeleteObject, Begin, Asks
<1>4. ASSUME NEW r \in Reqs, NEW k \in Keys, GetObject(r, k) PROVE Looks(r)
  BY <1>4 DEF GetObject, Begin, Looks
<1>6. ASSUME NEW r \in Reqs, WriteBlock(r) PROVE Quietly(r, "body")
  <2>1. pc[r] = "body" /\ op[r] = "put" /\ pc' = pc /\ DOMAIN pc = Reqs
    BY <1>6 DEF WriteBlock, Control, TypeOK
  <2>2. pc' = [pc EXCEPT ![r] = "body"]
    BY <2>1 DEF TypeOK
  <2>. QED
    BY <1>6, <2>1, <2>2 DEF WriteBlock, Quietly, QuietSteps, Final
<1>7. ASSUME NEW r \in Reqs, Abort(r) PROVE Quietly(r, "failed")
  BY <1>7 DEF Abort, Quietly, Control, PutOps, MutatorOps, Final
<1>8. ASSUME NEW r \in Reqs, Rename(r) PROVE \E next : Quietly(r, next)
  <2>1. pc[r] \in {"body", "rename"} /\ op[r] \in PutOps /\ op[r] \in MutatorOps /\ op[r] # "none"
    BY <1>8 DEF Rename, Control, PutOps, MutatorOps
  <2>2. CASE tmp[Stem[key[r]]] = NoFile
    <3>1. Quietly(r, "failed")
      BY <1>8, <2>1, <2>2 DEF Rename, Quietly, Final
    <3>. QED
      BY <3>1
  <2>3. CASE tmp[Stem[key[r]]] # NoFile
    <3>. DEFINE next == IF Records(mode[r]) THEN "version" ELSE "meta"
    <3>1. pc' = [pc EXCEPT ![r] = next]
      BY <1>8, <2>3 DEF Rename
    <3>2. Quietly(r, next)
      BY <1>8, <2>1, <2>3, <3>1 DEF Rename, Quietly, QuietSteps, Final
    <3>. QED
      BY <3>2
  <2>. QED
    BY <2>2, <2>3
<1>9. ASSUME NEW r \in Reqs, EndGet(r) PROVE Quietly(r, "ok")
  BY <1>9 DEF EndGet, Quietly, QuietSteps, Control, Final
<1>10. ASSUME NEW r \in Reqs, Abandon(r) PROVE Quietly(r, "failed")
  BY <1>10 DEF Abandon, Active, Quietly, MutatorOps, PutOps, Final
<1>11. ASSUME NEW r \in Reqs, PutVersion(r) PROVE Numbers(r)
  <2>1. pc[r] = "version" /\ op[r] \in Versioning /\ vid[r] = NoVid /\ key[r] \in Keys
    BY <1>11 DEF PutVersion, Control, MutatorOps, PutOps
  <2>. QED
    BY <1>11, <2>1 DEF PutVersion, NewVersion, Numbers, NewVid
<1>12. ASSUME NEW r \in Reqs, CopyOpen(r) PROVE Quietly(r, "failed") \/ AddsData(r)
  <2>1. pc[r] = "copy" /\ op[r] \in PutOps /\ op[r] \in MutatorOps /\ op[r] # "none"
            /\ key[r] \in Keys /\ vid[r] \in Vids
    BY <1>12 DEF CopyOpen, Control, MutatorOps, PutOps, TypeOK
  <2>2. CASE data[key[r]] = NoFile \/ ~vdir[key[r]]
    BY <1>12, <2>1, <2>2 DEF CopyOpen, Quietly, Final
  <2>3. CASE ~(data[key[r]] = NoFile \/ ~vdir[key[r]])
    BY <1>12, <2>1, <2>3 DEF CopyOpen, AddsData
  <2>. QED
    BY <2>2, <2>3
<1>13. ASSUME NEW r \in Reqs, CopyFill(r) PROVE Quietly(r, "copyfill") \/ Quietly(r, "vmeta")
  <2>1. pc[r] = "copyfill" /\ op[r] # "none"
    BY <1>13 DEF CopyFill, Control, PutOps
  <2>2. CASE Len(vbody[vid[r]]) < Len(body[fd[r]])
    <3>1. pc' = [pc EXCEPT ![r] = "copyfill"]
      BY <1>13, <2>1, <2>2 DEF CopyFill, TypeOK
    <3>. QED
      BY <1>13, <2>1, <3>1 DEF CopyFill, Quietly, QuietSteps, Final
  <2>3. CASE ~(Len(vbody[vid[r]]) < Len(body[fd[r]]))
    BY <1>13, <2>1, <2>3 DEF CopyFill, Quietly, QuietSteps, Final
  <2>. QED
    BY <2>2, <2>3
<1>14. ASSUME NEW r \in Reqs, VersionMeta(r) PROVE Quietly(r, "failed") \/ AddsMeta(r)
  <2>1. pc[r] = "vmeta" /\ op[r] \in PutOps /\ op[r] \in MutatorOps /\ op[r] # "none"
            /\ key[r] \in Keys /\ vid[r] \in Vids
    BY <1>14 DEF VersionMeta, Control, MutatorOps, PutOps, TypeOK
  <2>2. CASE ~vdir[key[r]]
    BY <1>14, <2>1, <2>2 DEF VersionMeta, Quietly, Final
  <2>3. CASE vdir[key[r]]
    BY <1>14, <2>1, <2>3 DEF VersionMeta, AddsMeta
  <2>. QED
    BY <2>2, <2>3
<1>15. ASSUME NEW r \in Reqs, VersionMetaFill(r) PROVE Quietly(r, "meta")
  BY <1>15 DEF VersionMetaFill, Quietly, QuietSteps, Control, PutOps, Final
<1>16. ASSUME NEW r \in Reqs, MetaCreate(r) PROVE Quietly(r, "failed") \/ Quietly(r, "metafill")
  <2>1. pc[r] = "meta" /\ op[r] \in MutatorOps /\ op[r] # "none"
    BY <1>16 DEF MetaCreate, Control, MutatorOps, PutOps
  <2>2. CASE op[r] = "deleteVersion" /\ src[r] \notin vmeta[key[r]]
    BY <1>16, <2>1, <2>2 DEF MetaCreate, Quietly, Final
  <2>3. CASE ~(op[r] = "deleteVersion" /\ src[r] \notin vmeta[key[r]])
    BY <1>16, <2>1, <2>3 DEF MetaCreate, Quietly, QuietSteps, Final
  <2>. QED
    BY <2>2, <2>3
<1>17. ASSUME NEW r \in Reqs, MetaFill(r) PROVE Quietly(r, "ok") \/ Quietly(r, "tidy")
  BY <1>17 DEF MetaFill, Quietly, QuietSteps, PutOps, Final
<1>18. ASSUME NEW r \in Reqs, MarkerVersion(r) PROVE Numbers(r)
  <2>1. pc[r] = "marker" /\ op[r] \in Versioning /\ vid[r] = NoVid /\ key[r] \in Keys
    BY <1>18 DEF MarkerVersion, Control, MutatorOps, PutOps
  <2>. QED
    BY <1>18, <2>1 DEF MarkerVersion, NewVersion, Numbers, NewVid
<1>19. ASSUME NEW r \in Reqs, CreateMarker(r) PROVE Quietly(r, "failed") \/ AddsMarker(r)
  <2>1. pc[r] = "markfile" /\ op[r] = "delete" /\ op[r] \in MutatorOps /\ key[r] \in Keys
            /\ vid[r] \in Vids
    BY <1>19 DEF CreateMarker, Control, MutatorOps, TypeOK
  <2>2. CASE ~vdir[key[r]]
    BY <1>19, <2>1, <2>2 DEF CreateMarker, Quietly, Final
  <2>3. CASE vdir[key[r]]
    BY <1>19, <2>1, <2>3 DEF CreateMarker, AddsMarker
  <2>. QED
    BY <2>2, <2>3
<1>20. ASSUME NEW r \in Reqs, UnlinkData(r) PROVE Quietly(r, "ok") \/ Quietly(r, "unlinkmeta")
  <2>1. pc[r] = "unlink" /\ op[r] # "none"
    BY <1>20 DEF UnlinkData, Control
  <2>2. CASE op[r] = "delete" /\ ~Records(mode[r]) /\ data[key[r]] = NoFile
    BY <1>20, <2>1, <2>2 DEF UnlinkData, Quietly, QuietSteps, Final
  <2>3. CASE ~(op[r] = "delete" /\ ~Records(mode[r]) /\ data[key[r]] = NoFile)
    BY <1>20, <2>1, <2>3 DEF UnlinkData, Quietly, QuietSteps, Final
  <2>. QED
    BY <2>2, <2>3
<1>21. ASSUME NEW r \in Reqs, UnlinkMeta(r) PROVE Quietly(r, "ok") \/ Quietly(r, "tidy")
  <2>1. pc[r] = "unlinkmeta" /\ op[r] # "none"
    BY <1>21 DEF UnlinkMeta, Control
  <2>. QED
    BY <1>21, <2>1 DEF UnlinkMeta, Quietly, QuietSteps, Final
<1>24. ASSUME NEW r \in Reqs, MirrorOpen(r) PROVE Quietly(r, "failed") \/ Quietly(r, "mirrorfill")
  <2>1. pc[r] = "mirror" /\ op[r] \in MutatorOps /\ op[r] # "none"
    BY <1>24 DEF MirrorOpen, Control, MutatorOps
  <2>2. CASE src[r] \notin vdata[key[r]]
    BY <1>24, <2>1, <2>2 DEF MirrorOpen, Quietly, Final
  <2>3. CASE src[r] \in vdata[key[r]]
    BY <1>24, <2>1, <2>3 DEF MirrorOpen, Quietly, QuietSteps, Final
  <2>. QED
    BY <2>2, <2>3
<1>25. ASSUME NEW r \in Reqs, MirrorFill(r) PROVE \E next : Quietly(r, next)
  <2>1. pc[r] = "mirrorfill" /\ op[r] # "none"
    BY <1>25 DEF MirrorFill, Control
  <2>2. \E next \in {"mirrorfill", "meta", "tidy"} : pc' = [pc EXCEPT ![r] = next]
    BY <1>25, <2>1 DEF MirrorFill, TypeOK
  <2>. QED
    BY <1>25, <2>1, <2>2 DEF MirrorFill, Quietly, QuietSteps, Final
<1>28. ASSUME NEW r \in Reqs, NEW k0 \in Keys, NEW k \in Keys, CopyObject(r, k0, k) PROVE Asks(r)
  <2>. DEFINE next == IF data[k0] = NoFile THEN "failed" ELSE "writer"
  <2>1. pc' = [pc EXCEPT ![r] = next] /\ next \in {"failed", "writer"}
    BY <1>28 DEF CopyObject, Begin
  <2>2. /\ Admit(r, k) /\ op' = [op EXCEPT ![r] = "copy"] /\ key' = [key EXCEPT ![r] = k]
        /\ last' = [last EXCEPT ![k] = r]
               /\ UNCHANGED <<mode, vid, src, status, vdir, vdata, vmeta, vmark>>
    BY <1>28 DEF CopyObject, Begin
  <2>3. "copy" \in Versioning
    BY DEF PutOps
  <2>. HIDE DEF next, Versioning
  <2>. QED
    BY <2>1, <2>2, <2>3 DEF Asks
<1>30. ASSUME NEW r \in Reqs, CopyBlock(r) PROVE Quietly(r, "blocks") \/ Quietly(r, "rename")
  <2>1. pc[r] = "blocks" /\ op[r] # "none"
    BY <1>30 DEF CopyBlock, Control
  <2>2. CASE Len(sum[r]) < Len(body[from[r]])
    <3>1. pc' = [pc EXCEPT ![r] = "blocks"]
      BY <1>30, <2>1, <2>2 DEF CopyBlock, TypeOK
    <3>. QED
      BY <1>30, <2>1, <2>2, <3>1 DEF CopyBlock, Quietly, QuietSteps, Final
  <2>3. CASE ~(Len(sum[r]) < Len(body[from[r]]))
    BY <1>30, <2>1, <2>3 DEF CopyBlock, Quietly, QuietSteps, Final
  <2>. QED
    BY <2>2, <2>3
<1>31. ASSUME NEW r \in Reqs, NEW k \in Keys, GetObjectVersion(r, k) PROVE Looks(r)
  BY <1>31 DEF GetObjectVersion, Begin, Looks
<1>32. CASE Served \/ UNCHANGED vars
  BY <1>32 DEF Served, vars, Rests
<1>. QED
  BY <1>1, <1>2, <1>4, <1>6, <1>7, <1>8, <1>9, <1>10, <1>11, <1>12, <1>13, <1>14,
     <1>15, <1>16, <1>17, <1>18, <1>19, <1>20, <1>21, <1>24, <1>25,
     <1>28, <1>30, <1>31, <1>32
     DEF Next, Receive, Handle, FinishCopy, VersionKinds, Configures

----------------------------------------------------------------------------
(* Who the files of a version are of.                                      *)

\* The files that are there after a step are of requests that are as they were.
LEMMA OwnedKept ==
    ASSUME TypeOK, Owned,
           \A q \in Reqs : op[q] \in Versioning => op'[q] = op[q] /\ key'[q] = key[q]
               /\ (vid[q] # NoVid => vid'[q] = vid[q]),
           \A k \in Keys : /\ vdata'[k] \subseteq vdata[k]
                           /\ vmark'[k] \subseteq vmark[k]
                           /\ vmeta'[k] \subseteq vmeta[k]
    PROVE  \A k \in Keys, v \in Vids :
        /\ v \in vdata'[k] => \E q \in Reqs : op'[q] \in PutOps /\ key'[q] = k /\ vid'[q] = v
        /\ v \in vmark'[k] => \E q \in Reqs : op'[q] = "delete" /\ key'[q] = k /\ vid'[q] = v
        /\ v \in vmeta'[k] => \E q \in Reqs : op'[q] \in Versioning /\ key'[q] = k /\ vid'[q] = v
<1>1. \A v \in Vids : v # NoVid
  BY BoundAssumption DEF Vids, NoVid
<1>. QED
  BY <1>1 DEF Owned, Versioning

LEMMA OwnedStep == IInv /\ Sole /\ Owned /\ [Next]_vars => Owned'
<1>. SUFFICES ASSUME TypeOK, Control, OneOwner, Sole, Owned, [Next]_vars PROVE Owned'
  BY DEF IInv
<1>1. Rests \/ \E r \in Reqs : VersionKinds(r)
  BY VersionStepKinds
<1>0. \A v \in Vids : v # NoVid
  BY BoundAssumption DEF Vids, NoVid
<1>. USE <1>0, NoFileAssumption DEF TypeOK, Control, OneOwner, Owned, Purged, Versioning, PutOps,
         MutatorOps, Final, Inodes
<1>2. ASSUME NEW r \in Reqs, Asks(r) PROVE Owned'
  <2>1. PICK k \in Keys : last' = [last EXCEPT ![k] = r] /\ key' = [key EXCEPT ![r] = k]
    BY <1>2 DEF Asks
  <2>2. pc[r] = "idle" /\ op[r] = "none" /\ vid[r] = NoVid
    BY <1>2 DEF Asks, Admit
  <2>3. op'[r] \in Versioning /\ \A q \in Reqs : q # r => op'[q] = op[q] /\ key'[q] = key[q]
    BY <1>2, <2>1 DEF Asks
  <2>4. UNCHANGED <<vid, vdata, vmeta, vmark>>
    BY <1>2 DEF Asks
  <2>5. /\ last'[k] = r
        /\ \A k2 \in Keys : k2 # k => last'[k2] = last[k2]
    BY <2>1
  <2>6. op[r] \notin Versioning /\ op'[r] # "deleteVersion" /\ op[r] # "deleteVersion"
    BY <2>2, <2>3
  <2>. HIDE DEF TypeOK, Control, OneOwner, Owned, Purged, Versioning, PutOps
  <2>7. \A k2 \in Keys, v \in Vids :
           /\ v \in vdata'[k2] => \E q \in Reqs : op'[q] \in PutOps /\ key'[q] = k2 /\ vid'[q] = v
           /\ v \in vmark'[k2] => \E q \in Reqs : op'[q] = "delete" /\ key'[q] = k2 /\ vid'[q] = v
           /\ v \in vmeta'[k2] => \E q \in Reqs : op'[q] \in Versioning /\ key'[q] = k2 /\ vid'[q] = v
    BY <2>3, <2>4, <2>6, OwnedKept
  <2>8. \A x \in Reqs : op'[x] = "deleteVersion" <=> op[x] = "deleteVersion"
    BY <2>3, <2>6
  <2>10. \A x \in Reqs : op'[x] = "deleteVersion" /\ vid'[x] # NoVid
             => \E q \in Reqs : op'[q] \in Versioning /\ vid'[q] = vid'[x]
    BY <2>3, <2>4, <2>6, <2>8 DEF Owned
  <2>11. ASSUME NEW k2 \in Keys, last'[k2] # NoFile, op'[last'[k2]] \in Versioning,
             vid'[last'[k2]] # NoVid
         PROVE  \A x \in Reqs : ~(op'[x] = "deleteVersion" /\ vid'[x] = vid'[last'[k2]])
    <3>1. k2 # k
      BY <2>2, <2>4, <2>5, <2>11
    <3>2. last'[k2] = last[k2] /\ last[k2] \in Reqs
      BY <2>5, <2>11, <3>1 DEF TypeOK
    <3>3. last[k2] # r
      BY <2>2, <2>4, <2>11, <3>2
    <3>4. op[last[k2]] \in Versioning /\ vid[last[k2]] # NoVid
      BY <2>3, <2>4, <2>11, <3>2, <3>3
    <3>5. ~Purged(vid[last[k2]])
      BY <2>11, <3>2, <3>4 DEF Owned
    <3>. QED
      BY <2>4, <2>8, <3>2, <3>5 DEF Purged
  <2>. QED
    BY <2>7, <2>10, <2>11 DEF Owned, Purged
<1>3. ASSUME NEW r \in Reqs, NEW k \in Keys, DeleteVersion(r, k) PROVE Owned'
  <2>1. PICK v0 \in Entries(k) \cup vmeta[k] \cup {NoVid} : vid' = [vid EXCEPT ![r] = v0]
            /\ vdata' = [vdata EXCEPT ![k] = @ \ {v0}]
    BY <1>3 DEF DeleteVersion
  <2>2. pc[r] = "idle" /\ op[r] = "none"
    BY <1>3 DEF DeleteVersion, Admit
  <2>3. /\ op'[r] = "deleteVersion" /\ vid'[r] = v0
        /\ \A q \in Reqs : q # r => op'[q] = op[q] /\ key'[q] = key[q] /\ vid'[q] = vid[q]
    BY <1>3, <2>1 DEF DeleteVersion, Begin
  <2>4. UNCHANGED <<vmeta, vmark>> /\ \A k2 \in Keys : vdata'[k2] \subseteq vdata[k2]
    BY <1>3, <2>1 DEF DeleteVersion
  <2>5. /\ last'[k] = r
        /\ \A k2 \in Keys : k2 # k => last'[k2] = last[k2]
    BY <1>3 DEF DeleteVersion
  <2>6. op[r] \notin Versioning /\ op'[r] \notin Versioning /\ op[r] # "deleteVersion"
    BY <2>2, <2>3
  <2>0. v0 # NoVid => v0 \in Vids /\ (v0 \in vdata[k] \/ v0 \in vmark[k] \/ v0 \in vmeta[k])
    BY <2>1 DEF Entries
  <2>00. v0 # NoVid => \E q \in Reqs : op[q] \in Versioning /\ key[q] = k /\ vid[q] = v0
    BY <2>0
  <2>. HIDE DEF TypeOK, Control, Owned, Purged, Versioning, PutOps
  <2>7. \A k2 \in Keys, v \in Vids :
           /\ v \in vdata'[k2] => \E q \in Reqs : op'[q] \in PutOps /\ key'[q] = k2 /\ vid'[q] = v
           /\ v \in vmark'[k2] => \E q \in Reqs : op'[q] = "delete" /\ key'[q] = k2 /\ vid'[q] = v
           /\ v \in vmeta'[k2] => \E q \in Reqs : op'[q] \in Versioning /\ key'[q] = k2 /\ vid'[q] = v
    BY <2>3, <2>4, <2>6, OwnedKept
  <2>10. ASSUME NEW x \in Reqs, op'[x] = "deleteVersion", vid'[x] # NoVid
         PROVE  \E q \in Reqs : op'[q] \in Versioning /\ vid'[q] = vid'[x]
    <3>1. PICK q \in Reqs : op[q] \in Versioning /\ vid[q] = vid'[x]
      BY <2>3, <2>00, <2>10 DEF Owned
    <3>. QED
      BY <2>3, <2>6, <3>1
  <2>11. ASSUME NEW k2 \in Keys, last'[k2] # NoFile, op'[last'[k2]] \in Versioning,
             vid'[last'[k2]] # NoVid
         PROVE  \A x \in Reqs : ~(op'[x] = "deleteVersion" /\ vid'[x] = vid'[last'[k2]])
    <3>1. k2 # k
      BY <2>5, <2>6, <2>11
    <3>2. last'[k2] = last[k2] /\ last[k2] \in Reqs
      BY <2>5, <2>11, <3>1 DEF TypeOK
    <3>3. last[k2] # r
      BY <2>6, <2>11, <3>2
    <3>4. op[last[k2]] \in Versioning /\ vid[last[k2]] # NoVid /\ vid'[last'[k2]] = vid[last[k2]]
      BY <2>3, <2>11, <3>2, <3>3
    <3>5. ~Purged(vid[last[k2]]) /\ key[last[k2]] = k2
      BY <2>11, <3>2, <3>4 DEF Owned, Sole
    <3>6. vid[last[k2]] # v0
      <4>1. SUFFICES ASSUME vid[last[k2]] = v0 PROVE FALSE
        OBVIOUS
      <4>2. PICK q \in Reqs : op[q] \in Versioning /\ key[q] = k /\ vid[q] = v0
        BY <2>00, <3>4, <4>1
      <4>3. q = last[k2]
        BY <3>2, <3>4, <4>1, <4>2 DEF OneOwner, Versioning
      <4>. QED
        BY <3>1, <3>5, <4>2, <4>3
    <3>. QED
      BY <2>3, <3>4, <3>5, <3>6 DEF Purged
  <2>. QED
    BY <2>7, <2>10, <2>11 DEF Owned, Purged
<1>4. ASSUME NEW r \in Reqs, Looks(r) PROVE Owned'
  <2>1. op[r] = "none" /\ op'[r] \notin Versioning \cup {"deleteVersion"}
    BY <1>4 DEF Looks
  <2>2. \A q \in Reqs : q # r => op'[q] = op[q] /\ key'[q] = key[q] /\ vid'[q] = vid[q]
    BY <1>4 DEF Looks
  <2>3. UNCHANGED <<last, vdata, vmeta, vmark>>
    BY <1>4 DEF Looks
  <2>4. op[r] \notin Versioning \cup {"deleteVersion"}
    BY <2>1
  <2>5. \A k2 \in Keys : last[k2] # NoFile => last[k2] \in Reqs
    OBVIOUS
  <2>. HIDE DEF TypeOK, Control, OneOwner, Owned, Purged, Versioning, PutOps
  <2>7. \A k2 \in Keys, v \in Vids :
           /\ v \in vdata'[k2] => \E q \in Reqs : op'[q] \in PutOps /\ key'[q] = k2 /\ vid'[q] = v
           /\ v \in vmark'[k2] => \E q \in Reqs : op'[q] = "delete" /\ key'[q] = k2 /\ vid'[q] = v
           /\ v \in vmeta'[k2] => \E q \in Reqs : op'[q] \in Versioning /\ key'[q] = k2 /\ vid'[q] = v
    BY <2>2, <2>3, <2>4, OwnedKept
  <2>8. \A x \in Reqs : op'[x] = "deleteVersion" /\ vid'[x] # NoVid
            => \E q \in Reqs : op'[q] \in Versioning /\ vid'[q] = vid'[x]
    <3>1. SUFFICES ASSUME NEW x \in Reqs, op'[x] = "deleteVersion", vid'[x] # NoVid
                   PROVE  \E q \in Reqs : op'[q] \in Versioning /\ vid'[q] = vid'[x]
      OBVIOUS
    <3>2. x # r /\ op[x] = "deleteVersion" /\ vid[x] = vid'[x] /\ vid[x] # NoVid
      BY <2>1, <2>2, <3>1
    <3>3. PICK q \in Reqs : op[q] \in Versioning /\ vid[q] = vid[x]
      BY <3>2 DEF Owned
    <3>4. q # r
      BY <2>4, <3>3
    <3>. QED
      BY <2>2, <3>2, <3>3, <3>4
  <2>9. ASSUME NEW k2 \in Keys, last'[k2] # NoFile, op'[last'[k2]] \in Versioning,
            vid'[last'[k2]] # NoVid
        PROVE  \A x \in Reqs : ~(op'[x] = "deleteVersion" /\ vid'[x] = vid'[last'[k2]])
    <3>1. last'[k2] = last[k2] /\ last[k2] \in Reqs /\ last[k2] # r
      BY <2>1, <2>3, <2>5, <2>9
    <3>2. op[last[k2]] \in Versioning /\ vid'[last'[k2]] = vid[last[k2]]
      BY <2>2, <2>9, <3>1
    <3>3. ~Purged(vid[last[k2]])
      BY <2>9, <3>1, <3>2 DEF Owned
    <3>. QED
      BY <2>1, <2>2, <3>2, <3>3 DEF Purged
  <2>. QED
    BY <2>7, <2>8, <2>9 DEF Owned, Purged
<1>5. ASSUME NEW r \in Reqs, Configures(r) PROVE Owned'
  BY <1>5 DEF Configures, PutVersioning, Begin, versionVars
<1>6. ASSUME NEW r \in Reqs, Numbers(r) PROVE Owned'
  BY <1>6 DEF Numbers, NewVid, Issued
<1>7. ASSUME NEW r \in Reqs, AddsData(r) PROVE Owned'
  BY <1>7 DEF AddsData
<1>8. ASSUME NEW r \in Reqs, AddsMeta(r) PROVE Owned'
  BY <1>8 DEF AddsMeta
<1>9. ASSUME NEW r \in Reqs, AddsMarker(r) PROVE Owned'
  BY <1>9 DEF AddsMarker
<1>10. ASSUME NEW r \in Reqs, PurgeRest(r) PROVE Owned'
  BY <1>10 DEF PurgeRest, reqVars
<1>11. ASSUME NEW r \in Reqs, Scan(r) PROVE Owned'
  BY <1>11 DEF Scan, fileVars, versionVars
<1>12. ASSUME NEW r \in Reqs, Tidy(r) PROVE Owned'
  BY <1>12 DEF Tidy, reqVars
<1>13. ASSUME NEW r \in Reqs, CopyWriter(r) PROVE Owned'
  BY <1>13 DEF CopyWriter, versionVars
<1>14. ASSUME NEW r \in Reqs, PutVersioningFill(r) PROVE Owned'
  BY <1>14 DEF PutVersioningFill, reqVars, versionVars
<1>15. ASSUME NEW r \in Reqs, NEW next, Quietly(r, next) PROVE Owned'
  BY <1>15 DEF Quietly
<1>16. CASE Rests
  BY <1>16 DEF Rests
<1>. HIDE DEF TypeOK, Control, OneOwner, Owned, Purged, Versioning, PutOps, MutatorOps, Final, Inodes
<1>. QED
  BY <1>1, <1>2, <1>3, <1>4, <1>5, <1>6, <1>7, <1>8, <1>9, <1>10, <1>11, <1>12, <1>13,
     <1>14, <1>15, <1>16 DEF VersionKinds

\* A version's directory goes when it is empty.
LEMMA HousedStep == IInv /\ Housed /\ [Next]_vars => Housed'
<1>. SUFFICES ASSUME TypeOK, Control, Housed, [Next]_vars PROVE Housed'
  BY DEF IInv
<1>1. Rests \/ \E r \in Reqs : VersionKinds(r)
  BY VersionStepKinds
<1>. USE DEF TypeOK, Housed, Entries
<1>2. ASSUME NEW r \in Reqs, Asks(r) PROVE Housed'
  BY <1>2 DEF Asks
<1>3. ASSUME NEW r \in Reqs, NEW k \in Keys, DeleteVersion(r, k) PROVE Housed'
  BY <1>3 DEF DeleteVersion
<1>4. ASSUME NEW r \in Reqs, Looks(r) PROVE Housed'
  BY <1>4 DEF Looks
<1>5. ASSUME NEW r \in Reqs, Configures(r) PROVE Housed'
  BY <1>5 DEF Configures, PutVersioning, versionVars
<1>6. ASSUME NEW r \in Reqs, Numbers(r) PROVE Housed'
  BY <1>6 DEF Numbers
<1>7. ASSUME NEW r \in Reqs, AddsData(r) PROVE Housed'
  BY <1>7 DEF AddsData
<1>8. ASSUME NEW r \in Reqs, AddsMeta(r) PROVE Housed'
  BY <1>8 DEF AddsMeta
<1>9. ASSUME NEW r \in Reqs, AddsMarker(r) PROVE Housed'
  BY <1>9 DEF AddsMarker
<1>10. ASSUME NEW r \in Reqs, PurgeRest(r) PROVE Housed'
  BY <1>10 DEF PurgeRest
<1>11. ASSUME NEW r \in Reqs, Scan(r) PROVE Housed'
  BY <1>11 DEF Scan, fileVars, versionVars
<1>12. ASSUME NEW r \in Reqs, Tidy(r) PROVE Housed'
  BY <1>12 DEF Tidy
<1>13. ASSUME NEW r \in Reqs, CopyWriter(r) PROVE Housed'
  BY <1>13 DEF CopyWriter, versionVars
<1>14. ASSUME NEW r \in Reqs, PutVersioningFill(r) PROVE Housed'
  BY <1>14 DEF PutVersioningFill, versionVars
<1>15. ASSUME NEW r \in Reqs, NEW next, Quietly(r, next) PROVE Housed'
  BY <1>15 DEF Quietly
<1>16. CASE Rests
  BY <1>16 DEF Rests
<1>. HIDE DEF TypeOK, Housed, Entries
<1>. QED
  BY <1>1, <1>2, <1>3, <1>4, <1>5, <1>6, <1>7, <1>8, <1>9, <1>10, <1>11, <1>12, <1>13,
     <1>14, <1>15, <1>16 DEF VersionKinds

\* A new identifier is greater than those before.
LEMMA AscendingStep == ClockMonotone /\ IInv /\ Sole /\ Ascending /\ [Next]_vars => Ascending'
<1>. SUFFICES ASSUME ClockMonotone, TypeOK, Control, Sole, Ascending, [Next]_vars PROVE Ascending'
  BY DEF IInv
<1>1. Rests \/ \E r \in Reqs : VersionKinds(r)
  BY VersionStepKinds
<1>0. /\ Vids \subseteq Nat /\ NoVid = 0 /\ SerialKeys' = SerialKeys /\ SerialKeys \subseteq Keys
      /\ \A q \in Reqs : vid[q] \in Nat
  BY BoundAssumption, SerialKeysFixed DEF Vids, NoVid, TypeOK
\* A request begins: what it may change it has not made yet.
<1>2. ASSUME NEW r \in Reqs,
          Asks(r) \/ (\E k \in Keys : DeleteVersion(r, k)) \/ Looks(r) \/ Configures(r) PROVE Ascending'
  <2>1. op[r] = "none" /\ vid[r] = NoVid
    BY <1>2 DEF Asks, Admit, DeleteVersion, Looks, Configures, PutVersioning, Control
  <2>2. \A q \in Reqs : q # r => op'[q] = op[q] /\ key'[q] = key[q] /\ vid'[q] = vid[q]
    BY <1>2 DEF Asks, DeleteVersion, Begin, Looks, Configures, PutVersioning, TypeOK
  <2>3. op'[r] \in Versioning => vid'[r] = NoVid
    <3>1. CASE Asks(r)
      BY <2>1, <3>1 DEF Asks
    <3>2. CASE ~Asks(r)
      BY <1>2, <3>2 DEF DeleteVersion, Begin, Looks, Configures, PutVersioning, TypeOK, Versioning,
          PutOps
    <3>. QED
      BY <3>1, <3>2
  <2>4. \A k \in Keys : last'[k] \in {last[k], r}
    BY <1>2 DEF Asks, DeleteVersion, Looks, Configures, PutVersioning, TypeOK
  <2>5. op[r] \notin Versioning
    BY <2>1 DEF Versioning, PutOps
  <2>6. \A k \in Keys : last[k] \in Reqs \cup {NoFile}
    BY DEF TypeOK, Inodes
  <2>7. ASSUME NEW k \in SerialKeys, NEW q \in Reqs, last'[k] # NoFile, op'[last'[k]] \in Versioning,
               vid'[last'[k]] # NoVid, op'[q] \in Versioning, key'[q] = k
        PROVE  vid'[q] <= vid'[last'[k]]
    <3>1. last'[k] # r /\ last'[k] = last[k] /\ last[k] \in Reqs
      BY <1>0, <2>3, <2>4, <2>6, <2>7
    <3>2. op[last[k]] \in Versioning /\ vid[last[k]] # NoVid /\ vid'[last'[k]] = vid[last[k]]
      BY <2>2, <2>7, <3>1
    <3>3. CASE q = r
      BY <1>0, <2>3, <2>7, <3>1, <3>2, <3>3
    <3>4. CASE q # r
      BY <2>2, <2>7, <3>1, <3>2, <3>4 DEF Ascending
    <3>. QED
      BY <3>3, <3>4
  <2>. QED
    BY <1>0, <2>7 DEF Ascending
<1>3. ASSUME NEW r \in Reqs, Numbers(r) PROVE Ascending'
  <2>1. PICK v \in Vids : NewVid(v) /\ vid' = [vid EXCEPT ![r] = v]
    BY <1>3 DEF Numbers
  <2>2. UNCHANGED <<op, key, last>> /\ op[r] \in Versioning /\ Mutating(r)
    BY <1>3 DEF Numbers, Mutating, Versioning, MutatorOps, PutOps, Final
  <2>3. vid'[r] = v /\ \A q \in Reqs : q # r => vid'[q] = vid[q]
    BY <2>1 DEF TypeOK
  <2>4. ASSUME NEW q \in Reqs, op[q] \in Versioning, q # r PROVE vid[q] < v
    <3>1. CASE vid[q] = NoVid
      BY <1>0, <3>1 DEF Vids
    <3>2. CASE vid[q] # NoVid
      <4>1. vid[q] \in Issued /\ vid[q] \in Vids
        BY <2>4, <3>2 DEF Issued, Versioning, TypeOK
      <4>. QED
        BY <2>1, <4>1 DEF NewVid
    <3>. QED
      BY <3>1, <3>2
  <2>5. ASSUME NEW k \in SerialKeys, NEW q \in Reqs, last[k] # NoFile, op[last[k]] \in Versioning,
               vid'[last[k]] # NoVid, op[q] \in Versioning, key[q] = k
        PROVE  vid'[q] <= vid'[last[k]]
    <3>0. last[k] \in Reqs /\ key[last[k]] = k
      BY <1>0, <2>5 DEF TypeOK, Inodes, Sole
    <3>1. CASE last[k] = r
      BY <1>0, <2>3, <2>4, <2>5, <3>1
    <3>2. CASE last[k] # r
      <4>1. key[r] # k
        BY <2>2, <2>5, <3>2 DEF Sole
      <4>. QED
        BY <2>3, <2>5, <3>0, <3>2, <4>1 DEF Ascending
    <3>. QED
      BY <3>1, <3>2
  <2>. QED
    BY <1>0, <2>2, <2>5 DEF Ascending
<1>4. ASSUME NEW r \in Reqs,
             (\E next : Quietly(r, next)) \/ AddsData(r) \/ AddsMeta(r) \/ AddsMarker(r) \/ PurgeRest(r)
               \/ Scan(r) \/ Tidy(r) \/ CopyWriter(r) \/ PutVersioningFill(r)
      PROVE  Ascending'
  <2>1. UNCHANGED <<op, key, last, vid>>
    BY <1>4 DEF Quietly, AddsData, AddsMeta, AddsMarker, PurgeRest, Scan, Tidy, CopyWriter,
        PutVersioningFill, reqVars
  <2>. QED
    BY <1>0, <2>1 DEF Ascending
<1>5. CASE Rests
  BY <1>0, <1>5 DEF Rests, Ascending
<1>. QED
  BY <1>1, <1>2, <1>3, <1>4, <1>5 DEF VersionKinds

----------------------------------------------------------------------------
(* What the last handler of a serial key knows stays so.                   *)

\* The live file and the entries of key k are as they were.
Undisturbed(k) ==
    /\ data'[k] = data[k] /\ vdata'[k] = vdata[k] /\ vmark'[k] = vmark[k]
    /\ data[k] # NoFile => body'[data[k]] = body[data[k]]
    /\ \A v \in vdata[k] : vbody'[v] = vbody[v]

\* The last handler of key k is where it was, and not one that is writing to
\* its upload or its version.
Paused(k) ==
    /\ last[k] # NoFile /\ last'[k] = last[k] /\ pc'[last[k]] = pc[last[k]]
    /\ pc[last[k]] \notin {"idle", "body", "blocks", "copyfill"}

\* What the step of another handler leaves alone: the live file and the bytes
\* of the versions, and the entries.
LEMMA LiveUndisturbed ==
    ASSUME SInv, Owned, [Next]_vars, NEW k \in SerialKeys, Paused(k),
           pc[last[k]] = "mirrorfill" => sum'[last[k]] = sum[last[k]]
    PROVE  /\ data'[k] = data[k]
           /\ data[k] # NoFile => body'[data[k]] = body[data[k]]
           /\ \A v \in vdata[k] : vbody'[v] = vbody[v]
<1>. DEFINE Same == /\ data'[k] = data[k]
                    /\ data[k] # NoFile => body'[data[k]] = body[data[k]]
                    /\ \A v \in vdata[k] : vbody'[v] = vbody[v]
<1>1. Stutters \/ \E r \in Reqs : Kinds(r)
  BY StepKinds DEF SInv, IInv
<1>2. k \in Keys /\ last[k] \in Reqs /\ op[last[k]] \in MutatorOps /\ key[last[k]] = k
  BY SerialKeysFixed DEF SInv, IInv, TypeOK, Sole, Paused, Inodes
<1>3. ASSUME NEW r \in Reqs, Mutating(r), key[r] = k PROVE r = last[k]
  BY <1>3 DEF SInv, Sole
<1>. DEFINE q == last[k]
<1>4. q \in Reqs /\ pc'[q] = pc[q] /\ pc[q] \notin {"idle", "body", "blocks", "copyfill"} /\ last'[k] = q
      /\ op[q] \in MutatorOps /\ (pc[q] = "mirrorfill" => sum'[q] = sum[q])
  BY <1>2 DEF Paused
<1>5. /\ TypeOK /\ Control /\ Territory /\ OneName /\ Apart /\ OneOwner
      /\ \A v \in vdata[k] : v \in Vids /\ \E x \in Reqs : op[x] \in PutOps /\ key[x] = k /\ vid[x] = v
  BY <1>2 DEF SInv, IInv, Owned, TypeOK
<1>6. data[k] # NoFile => data[k] \in Reqs
  BY <1>2, <1>5 DEF TypeOK, Inodes
<1>. HIDE DEF q
<1>7. ASSUME UNCHANGED <<data, body, vbody>> PROVE Same
  BY <1>7
<1>8. ASSUME NEW r \in Reqs, Puts(r) PROVE Same
  <2>1. PICK k2 \in Keys : pc[r] \in Unborn /\ Opens(r, k2)
    BY <1>8 DEF Puts, Admit, Unborn
  <2>2. UNCHANGED <<data, vbody>>
    BY <1>8 DEF Puts, Opens
  <2>. QED
    BY <1>2, <1>5, <1>6, <2>1, <2>2, OpensFresh
<1>9. ASSUME NEW r \in Reqs, Copies(r) PROVE Same
  <2>1. pc[r] \in Unborn /\ key[r] \in Keys /\ Opens(r, key[r])
    BY <1>9 DEF Copies, Unborn, Opens
  <2>2. UNCHANGED <<data, vbody>>
    BY <1>9 DEF Copies, Opens
  <2>3. data[k] # fd'[r] /\ \A j \in Reqs : j # fd'[r] => body'[j] = body[j]
    BY <1>2, <1>5, <2>1, OpensFresh
  <2>. QED
    BY <1>6, <2>2, <2>3
<1>10. ASSUME NEW r \in Reqs, Writes(r) PROVE Same
  <2>1. fd[r] # data[k]
    BY <1>5, <1>10 DEF Writes, Apart, Uploading
  <2>. QED
    BY <1>6, <1>10, <2>1 DEF Writes
<1>11. ASSUME NEW r \in Reqs, Renames(r) \/ Unlinks(r) PROVE Same
  <2>1. Mutating(r) /\ pc'[r] # pc[r]
    BY <1>5, <1>11 DEF Renames, Unlinks, Mutating, MutatorOps, PutOps, Uploading, Final, TypeOK
  <2>2. key[r] # k
    BY <1>3, <1>4, <2>1 DEF q
  <2>. QED
    BY <1>2, <1>5, <1>11, <2>2 DEF Renames, Unlinks, TypeOK
<1>12. ASSUME NEW r \in Reqs, OpensVersion(r) \/ FillsVersion(r) PROVE Same
  <2>1. Mutating(r) /\ (pc'[r] # pc[r] \/ pc[r] = "copyfill") /\ op[r] \in PutOps /\ vid[r] \in Vids
    BY <1>5, <1>12 DEF OpensVersion, FillsVersion, Mutating, MutatorOps, PutOps, Final, TypeOK
  <2>2. key[r] # k
    BY <1>3, <1>4, <2>1 DEF q
  <2>3. \A v \in vdata[k] : v # vid[r]
    <3>1. vid[r] # NoVid
      BY <2>1, BoundAssumption DEF Vids, NoVid
    <3>. QED
      BY <1>5, <2>1, <2>2, <3>1 DEF OneOwner
  <2>. QED
    BY <1>5, <1>12, <2>3 DEF OpensVersion, FillsVersion, TypeOK
<1>13. ASSUME NEW r \in Reqs, OpensMirror(r) PROVE Same
  <2>1. Mutating(r) /\ pc'[r] # pc[r] /\ pc[r] \in Unborn /\ key[r] \in Keys
    BY <1>5, <1>13 DEF OpensMirror, Mutating, MutatorOps, Final, TypeOK, Unborn
  <2>2. key[r] # k
    BY <1>3, <1>4, <2>1 DEF q
  <2>3. PICK i \in Reqs :
        /\ i = data[key[r]] \/ (data[key[r]] = NoFile /\ i = r)
        /\ data' = [data EXCEPT ![key[r]] = i]
        /\ body' = [body EXCEPT ![i] = <<>>]
    BY <1>13 DEF OpensMirror
  <2>4. data[k] # NoFile => data[k] # i
    BY <1>2, <1>5, <2>1, <2>2, <2>3 DEF OneName
  <2>5. vbody' = vbody
    BY <1>13 DEF OpensMirror
  <2>. QED
    BY <1>2, <1>6, <2>2, <2>3, <2>4, <2>5
<1>14. ASSUME NEW r \in Reqs, FillsMirror(r) PROVE Same
  <2>1. Mutating(r) /\ pc[r] = "mirrorfill" /\ key[r] \in Keys
        /\ (pc'[r] # pc[r] \/ sum'[r] # sum[r])
    <3>1. Mutating(r) /\ pc[r] = "mirrorfill" /\ key[r] \in Keys /\ sum[r] \in Seq(Block)
      BY <1>5, <1>14 DEF FillsMirror, Mutating, MutatorOps, Final, TypeOK
    <3>2. CASE pc'[r] = pc[r]
      <4>1. \E b : sum'[r] = Append(sum[r], b)
        BY <1>5, <1>14, <3>1, <3>2 DEF FillsMirror, TypeOK
      <4>2. \A b : Len(Append(sum[r], b)) = Len(sum[r]) + 1 /\ Len(sum[r]) \in Nat
        BY <3>1
      <4>. QED
        BY <3>1, <4>1, <4>2
    <3>. QED
      BY <3>1, <3>2
  <2>2. key[r] # k
    BY <1>3, <1>4, <2>1 DEF q
  <2>3. data[k] # fd[r]
    BY <1>2, <1>5, <2>1, <2>2 DEF OneName
  <2>4. data' = data /\ vbody' = vbody /\ \A j \in Reqs : j # fd[r] => body'[j] = body[j]
    BY <1>5, <1>14 DEF FillsMirror, TypeOK
  <2>. QED
    BY <1>6, <2>3, <2>4
<1>15. ASSUME NEW r \in Reqs,
              Enters(r) \/ Reads(r) \/ ReadsOn(r) \/ (\E next : Advances(r, next)) \/ Aborts(r)
              \/ OpensMeta(r) \/ FillsMeta(r) \/ UnlinksMeta(r)
       PROVE  UNCHANGED <<data, body, vbody>>
  BY <1>15 DEF Enters, Reads, ReadsOn, Advances, Aborts, OpensMeta, FillsMeta, UnlinksMeta
<1>16. Stutters => UNCHANGED <<data, body, vbody>>
  BY DEF Stutters
<1>. HIDE DEF Same
<1>17. Same
  BY <1>1, <1>7, <1>8, <1>9, <1>10, <1>11, <1>12, <1>13, <1>14, <1>15, <1>16 DEF Kinds
<1>. QED
  BY <1>17 DEF Same

LEMMA EntriesUndisturbed ==
    ASSUME SInv, [Next]_vars, NEW k \in SerialKeys, Paused(k)
    PROVE  vdata'[k] = vdata[k] /\ vmark'[k] = vmark[k]
<1>. DEFINE Same == vdata'[k] = vdata[k] /\ vmark'[k] = vmark[k]
<1>1. Rests \/ \E r \in Reqs : VersionKinds(r)
  BY VersionStepKinds DEF SInv, IInv
<1>2. k \in Keys /\ last[k] \in Reqs /\ op[last[k]] \in MutatorOps /\ key[last[k]] = k
  BY SerialKeysFixed DEF SInv, IInv, TypeOK, Sole, Paused, Inodes
<1>3. ASSUME NEW r \in Reqs, Mutating(r), key[r] = k PROVE r = last[k]
  BY <1>3 DEF SInv, Sole
<1>. DEFINE q == last[k]
<1>4. q \in Reqs /\ pc'[q] = pc[q] /\ pc[q] \notin {"idle", "body", "blocks", "copyfill"} /\ last'[k] = q
  BY <1>2 DEF Paused
<1>5. TypeOK /\ Control
  BY DEF SInv, IInv
<1>. HIDE DEF q
<1>6. ASSUME NEW r \in Reqs, AddsData(r) \/ AddsMarker(r) \/ PurgeRest(r) PROVE Same
  <2>1. Mutating(r) /\ pc'[r] # pc[r]
    BY <1>5, <1>6 DEF AddsData, AddsMarker, PurgeRest, Goto, Mutating, MutatorOps, PutOps, Final,
        TypeOK, Control
  <2>2. key[r] # k
    BY <1>3, <1>4, <2>1 DEF q
  <2>. QED
    BY <1>2, <1>5, <1>6, <2>2 DEF AddsData, AddsMarker, PurgeRest, TypeOK
<1>7. ASSUME NEW r \in Reqs, NEW k2 \in Keys, DeleteVersion(r, k2) PROVE Same
  <2>1. last' = [last EXCEPT ![k2] = r] /\ pc[r] = "idle" /\ vmark' = vmark
        /\ \E v : vdata' = [vdata EXCEPT ![k2] = @ \ {v}]
    BY <1>7 DEF DeleteVersion, Admit
  <2>2. k2 # k
    BY <1>2, <1>4, <1>5, <2>1 DEF TypeOK
  <2>. QED
    BY <1>2, <2>1, <2>2
<1>8. ASSUME NEW r \in Reqs,
              Asks(r) \/ Looks(r) \/ Configures(r) \/ Numbers(r) \/ AddsMeta(r) \/ Scan(r) \/ Tidy(r)
              \/ CopyWriter(r) \/ PutVersioningFill(r) \/ (\E next : Quietly(r, next))
       PROVE  Same
  BY <1>8 DEF Asks, Looks, Configures, PutVersioning, Numbers, AddsMeta, Scan, Tidy, CopyWriter,
              PutVersioningFill, Quietly, fileVars, versionVars
<1>9. Rests => Same
  BY DEF Rests
<1>. HIDE DEF Same
<1>10. Same
  BY <1>1, <1>6, <1>7, <1>8, <1>9 DEF VersionKinds
<1>. QED
  BY <1>10 DEF Same

\* There is one newest entry at most.
LEMMA NewestUnique ==
    ASSUME TypeOK, NEW k \in Keys, NEW v, NEW w, IsNewest(k, v), IsNewest(k, w)
    PROVE  v = w
<1>1. Entries(k) \subseteq Nat
  BY BoundAssumption DEF Entries, TypeOK, Vids
<1>. QED
  BY <1>1 DEF IsNewest

\* A step of another handler does not make what this one knows wrong.
LEMMA KnowsKept ==
    ASSUME SInv, Owned, Mirrored, [Next]_vars,
           NEW r \in Reqs, op[r] \in MutatorOps, key[r] \in SerialKeys, last[key[r]] = r,
               last'[key[r]] = r,
           pc'[r] = pc[r], op'[r] = op[r], key'[r] = key[r], vid'[r] = vid[r], src'[r] = src[r],
           mode'[r] = mode[r], pc[r] = "mirrorfill" => sum'[r] = sum[r]
    PROVE  Knows(r)'
<1>. DEFINE k == key[r]
<1>1. Knows(r)
  BY DEF Mirrored, Standing
<1>2. CASE pc[r] \in {"body", "blocks", "copyfill"}
  BY <1>2 DEF Knows
<1>3. CASE pc[r] \notin {"body", "blocks", "copyfill"}
  <2>1. pc[r] # "idle" /\ last[k] # NoFile
    BY NoFileAssumption DEF SInv, IInv, Control, MutatorOps, PutOps
  <2>2. Paused(k)
    BY <1>3, <2>1 DEF Paused
  <2>3. /\ data'[k] = data[k]
        /\ data[k] # NoFile => body'[data[k]] = body[data[k]]
        /\ \A v \in vdata[k] : vbody'[v] = vbody[v]
    BY <2>2, LiveUndisturbed
  <2>4. vdata'[k] = vdata[k] /\ vmark'[k] = vmark[k]
    BY <2>2, EntriesUndisturbed
  <2>5. Entries(k)' = Entries(k) /\ (\A v : IsNewest(k, v) => v \in vdata[k] \/ v \in vmark[k])
    BY <2>4 DEF Entries, IsNewest
  <2>6. \A v : (v \in Entries(k)' /\ \A w \in Entries(k)' : w <= v) <=> IsNewest(k, v)
    BY <2>5 DEF IsNewest
  <2>7. ASSUME op[r] = "deleteVersion", pc[r] \in {"tidy", "ok"}
        PROVE  \A v \in Entries(k) : IsNewest(k, v) =>
                  IF v \in vmark'[k] THEN data'[k] = NoFile ELSE data'[k] # NoFile
                      /\ body'[data'[k]] = vbody'[v]
    <3>1. Reflects(k)
      BY <1>1, <2>7 DEF Knows
    <3>. QED
      BY <2>3, <2>4, <2>5, <3>1 DEF Reflects
  <2>8. ASSUME op[r] = "deleteVersion", pc[r] \in {"meta", "metafill"}
        PROVE  data'[k] # NoFile /\ body'[data'[k]] = vbody'[src[r]]
    <3>1. src[r] \in vdata[k] /\ data[k] # NoFile /\ body[data[k]] = vbody[src[r]]
      BY <1>1, <2>5, <2>8 DEF Knows
    <3>. QED
      BY <2>3, <3>1
  <2>9. Entries(k)' = Entries(k) /\ vmark'[k] = vmark[k] /\ data'[k] = data[k]
    BY <2>3, <2>4, <2>5
  <2>10. /\ op[r] \in PutOps /\ pc[r] \in {"meta", "metafill", "ok"} /\ Records(mode'[r]) =>
             vid'[r] # NoVid
         /\ op[r] = "delete" /\ pc[r] \in {"unlink", "unlinkmeta", "ok"} /\ Records(mode'[r]) =>
             vid'[r] # NoVid
    BY <1>1 DEF Knows
  <2>11. /\ op[r] = "deleteVersion" /\ pc[r] \in {"mirror", "mirrorfill", "meta", "metafill"} =>
             IsNewest(k, src[r]) /\ src[r] \notin vmark'[k]
         /\ op[r] = "deleteVersion" /\ pc[r] = "unlinkmeta" => data'[k] = NoFile
    BY <1>1, <2>9 DEF Knows
  <2>12. op[r] = "deleteVersion" /\ pc[r] \in {"unlink", "unlinkmeta"} =>
           \A v \in Entries(k)' : IsNewest(k, v) => v \in vmark'[k]
    BY <1>1, <2>9 DEF Knows, NewestIsMarker
  <2>13. ASSUME op[r] = "deleteVersion", pc[r] = "mirrorfill"
         PROVE  data'[k] # NoFile /\ body'[data'[k]] = sum'[r] /\ IsPrefix(sum'[r], vbody'[src[r]])
    <3>1. src[r] \in vdata[k] /\ data[k] # NoFile /\ body[data[k]] = sum[r]
          /\ IsPrefix(sum[r], vbody[src[r]])
      BY <1>1, <2>5, <2>13 DEF Knows
    <3>. QED
      BY <2>3, <2>13, <3>1
  <2>. QED
    BY <2>6, <2>7, <2>8, <2>9, <2>10, <2>11, <2>12, <2>13 DEF Knows, NewestIsMarker, Reflects, IsNewest
<1>. QED
  BY <1>2, <1>3

\* A repromotion that copies a block knows that the live file is a beginning of
\* the version it picked.
LEMMA BlockKnows ==
    ASSUME SInv, Owned, Mirrored, [Next]_vars,
           NEW r \in Reqs, op[r] = "deleteVersion", key[r] \in SerialKeys, last[key[r]] = r,
               last'[key[r]] = r,
           pc[r] = "mirrorfill", pc'[r] = "mirrorfill", op'[r] = op[r], key'[r] = key[r],
               src'[r] = src[r], sum'[r] # sum[r]
    PROVE  Knows(r)'
<1>. DEFINE k == key[r]
<1>1. Knows(r) /\ k \in Keys
  BY SerialKeysFixed DEF Mirrored, Standing, MutatorOps
<1>2. TypeOK /\ Control /\ LiveHeld
  BY DEF SInv, IInv
<1>3. FillsMirror(r)
  <2>1. PICK x \in Reqs : Kinds(x)
    BY <1>2, StepKinds DEF Stutters
  <2>2. (\E c : sum' = [sum EXCEPT ![x] = c]) \/ sum' = sum
    <3>1. ASSUME FillsMirror(x) PROVE (\E c : sum' = [sum EXCEPT ![x] = c]) \/ sum' = sum
      BY <3>1 DEF FillsMirror
    <3>2. ASSUME FillsVersion(x) PROVE sum' = sum
      BY <3>2 DEF FillsVersion
    <3>. QED
      BY <2>1, <3>1, <3>2 DEF Kinds, Enters, Reads, ReadsOn, Puts, Opens, Copies, Writes, Advances,
         Aborts, Renames, OpensVersion, OpensMeta, FillsMeta, Unlinks, UnlinksMeta, OpensMirror
  <2>3. x = r
    BY <1>2, <2>2 DEF TypeOK
  <2>. QED
    BY <2>1, <2>3 DEF Kinds, Enters, Reads, ReadsOn, Puts, Opens, Copies, Writes, Advances, Aborts,
       Renames, OpensVersion, FillsVersion, OpensMeta, FillsMeta, Unlinks, UnlinksMeta, OpensMirror
<1>. DEFINE n == Len(sum[r])
            c == vbody[src[r]]
<1>4. /\ n < Len(c) /\ src[r] \in Vids /\ fd[r] \in Reqs
      /\ body' = [body EXCEPT ![fd[r]] = WriteAt(@, n + 1, c[n + 1])]
      /\ sum' = [sum EXCEPT ![r] = Append(@, c[n + 1])]
      /\ UNCHANGED <<data, vbody>>
  BY <1>2, <1>3 DEF FillsMirror, TypeOK
<1>5. /\ IsNewest(k, src[r]) /\ src[r] \notin vmark[k]
      /\ data[k] # NoFile /\ body[data[k]] = sum[r] /\ IsPrefix(sum[r], c)
  BY <1>1 DEF Knows
<1>6. fd[r] = data[k]
  BY <1>2 DEF LiveHeld, Standing, MutatorOps
<1>7. sum[r] \in Seq(Block) /\ c \in Seq(Block) /\ n \in Nat /\ c[n + 1] \in Block
  <2>1. sum[r] \in Seq(Block) /\ c \in Seq(Block)
    BY <1>2, <1>4 DEF TypeOK
  <2>. QED
    BY <1>4, <2>1
<1>8. body'[fd[r]] = WriteAt(sum[r], n + 1, c[n + 1]) /\ sum'[r] = Append(sum[r], c[n + 1])
  BY <1>2, <1>4, <1>5, <1>6 DEF TypeOK
<1>9. body'[data'[k]] = sum'[r]
  BY <1>4, <1>6, <1>7, <1>8, WriteAtEnd
<1>10. IsPrefix(sum'[r], vbody'[src[r]])
  BY <1>4, <1>5, <1>7, <1>8, PrefixGrows
<1>11. vdata'[k] = vdata[k] /\ vmark'[k] = vmark[k]
  <2>1. Paused(k)
    BY NoFileAssumption DEF Paused
  <2>. QED
    BY <2>1, EntriesUndisturbed
<1>12. IsNewest(k, src[r])' /\ src[r] \notin vmark'[k] /\ data'[k] # NoFile
  BY <1>4, <1>5, <1>11 DEF IsNewest, Entries
<1>. QED
  BY <1>9, <1>10, <1>12 DEF Knows, PutOps, IsNewest

\* Which kind of step takes a repromotion on from where it is.
LEMMA KindAt ==
    ASSUME TypeOK, NEW r \in Reqs, Kinds(r), op[r] = "deleteVersion", pc'[r] # pc[r], pc'[r] # "failed",
           pc[r] \in {"meta", "metafill", "unlink", "unlinkmeta", "mirror", "mirrorfill"}
    PROVE  /\ pc[r] = "meta" => OpensMeta(r)
           /\ pc[r] = "metafill" => FillsMeta(r)
           /\ pc[r] = "unlink" => Unlinks(r)
           /\ pc[r] = "unlinkmeta" => UnlinksMeta(r)
           /\ pc[r] = "mirror" => OpensMirror(r)
           /\ pc[r] = "mirrorfill" => FillsMirror(r)
<1>1. ~Enters(r) /\ ~Reads(r) /\ ~Puts(r)
  BY DEF Enters, Reads, Puts, Admit
<1>2. ~ReadsOn(r) /\ ~Copies(r) /\ ~Writes(r)
  BY DEF ReadsOn, Copies, Writes
<1>3. ASSUME NEW next, Advances(r, next) PROVE FALSE
  <2>1. next # "failed" /\ <<pc[r], next>> \in Elsewhere
    BY <1>3 DEF Advances, TypeOK
  <2>. QED
    BY <2>1 DEF Elsewhere
<1>4. ~Aborts(r) /\ ~Renames(r) /\ ~OpensVersion(r) /\ ~FillsVersion(r)
  BY DEF Aborts, Renames, OpensVersion, FillsVersion, Uploading
<1>. QED
  BY <1>1, <1>2, <1>3, <1>4 DEF Kinds, OpensMeta, FillsMeta, Unlinks, UnlinksMeta, FillsMirror,
      OpensMirror

\* A handler on its way knows what it knew, and what its step tells it.
LEMMA QuietlyKnows ==
    ASSUME SInv, Owned, Mirrored, [Next]_vars,
           NEW r \in Reqs, NEW next, Quietly(r, next),
           op[r] \in MutatorOps, key[r] \in SerialKeys, last[key[r]] = r
    PROVE  Knows(r)'
<1>0. PICK k \in Keys : k = key[r]
  BY SerialKeysFixed
<1>1. Knows(r) /\ k \in Keys /\ k = key[r]
  BY <1>0 DEF Mirrored, Standing
<1>2. TypeOK /\ Control /\ LiveHeld
  BY DEF SInv, IInv
<1>3. /\ pc'[r] = next /\ \A q \in Reqs : q # r => pc'[q] = pc[q]
      /\ op'[r] = op[r] /\ key'[r] = k /\ vid'[r] = vid[r] /\ src'[r] = src[r]
      /\ mode'[r] = mode[r] /\ last' = last /\ vdata' = vdata /\ vmark' = vmark
  BY <1>1, <1>2 DEF Quietly, TypeOK
<1>4. Entries(k)' = Entries(k)
          /\ \A v : (v \in Entries(k)' /\ \A w \in Entries(k)' : w <= v) <=> IsNewest(k, v)
  BY <1>3 DEF Entries, IsNewest
<1>5. CASE next \notin {"meta", "metafill", "ok", "unlink", "unlinkmeta", "mirror", "mirrorfill", "tidy"}
  BY <1>3, <1>5 DEF Knows
<1>12. CASE pc[r] = "mirrorfill" /\ next = "mirrorfill"
  <2>1. op[r] = "deleteVersion"
    BY <1>2, <1>12 DEF Control
  <2>2. CASE sum'[r] = sum[r]
    BY <1>1, <1>3, <1>12, <2>2, KnowsKept
  <2>3. CASE sum'[r] # sum[r]
    BY <1>1, <1>3, <1>12, <2>1, <2>3, BlockKnows
  <2>. QED
    BY <2>2, <2>3
<1>6. ASSUME next \in {"meta", "metafill", "ok", "unlink", "unlinkmeta", "mirror", "mirrorfill", "tidy"},
             ~(pc[r] = "mirrorfill" /\ next = "mirrorfill")
      PROVE  <<pc[r], next>> \in QuietSteps /\ pc[r] # next /\ Kinds(r)
  <2>1. <<pc[r], next>> \in QuietSteps /\ pc[r] # next
    BY <1>6 DEF Quietly, QuietSteps
  <2>2. ASSUME NEW q \in Reqs, Kinds(q), q # r PROVE FALSE
    <3>1. pc'[r] = pc[r]
      BY <1>2, <2>2 DEF Kinds, Enters, Reads, ReadsOn, Puts, Copies, Writes, Advances, Aborts, Renames,
         OpensVersion, FillsVersion, OpensMeta, FillsMeta, Unlinks, UnlinksMeta, OpensMirror,
             FillsMirror, TypeOK
    <3>. QED
      BY <1>3, <2>1, <3>1
  <2>3. ~Stutters
    BY <1>3, <2>1 DEF Stutters
  <2>. QED
    BY <1>2, <2>1, <2>2, <2>3, StepKinds
<1>7. CASE op[r] \in PutOps /\ next \in {"meta", "metafill", "ok"}
  <2>1. pc[r] \in {"body", "rename"} /\ next = "meta" => ~Records(mode[r])
    BY DEF Quietly
  <2>2. pc[r] \in {"meta", "metafill"} /\ Records(mode[r]) => vid[r] # NoVid
    BY <1>1, <1>7 DEF Knows
  <2>3. pc[r] \in {"body", "rename", "vmetafill", "meta", "metafill"}
    BY <1>6, <1>7, <1>2 DEF QuietSteps, Control, PutOps
  <2>4. Records(mode[r]) => vid[r] # NoVid
    BY <1>2, <1>6, <1>7, <2>1, <2>2, <2>3 DEF QuietSteps, Control
  <2>. QED
    BY <1>3, <1>4, <1>7, <2>4 DEF Knows, PutOps
<1>8. CASE op[r] \in PutOps /\ next \notin {"meta", "metafill", "ok"}
  BY <1>3, <1>8 DEF Knows, PutOps
<1>9. CASE op[r] = "delete" /\ next \in {"unlink", "unlinkmeta", "ok"}
  <2>1. pc[r] \in {"unlink", "unlinkmeta"}
    BY <1>2, <1>6, <1>9 DEF QuietSteps, Control, PutOps
  <2>2. Records(mode[r]) => vid[r] # NoVid
    BY <1>1, <1>9, <2>1 DEF Knows
  <2>. QED
    BY <1>3, <1>4, <1>9, <2>2 DEF Knows, PutOps
<1>10. CASE op[r] = "delete" /\ next \notin {"unlink", "unlinkmeta", "ok"}
  BY <1>3, <1>10 DEF Knows, PutOps
<1>11. CASE op[r] = "deleteVersion" /\ ~(pc[r] = "mirrorfill" /\ next = "mirrorfill")
           /\ next \in {"meta", "metafill", "ok", "unlink", "unlinkmeta", "mirror", "mirrorfill", "tidy"}
  <2>12. /\ pc[r] = "meta" => OpensMeta(r)
         /\ pc[r] = "metafill" => FillsMeta(r)
         /\ pc[r] = "unlink" => Unlinks(r)
         /\ pc[r] = "unlinkmeta" => UnlinksMeta(r)
         /\ pc[r] = "mirror" => OpensMirror(r)
         /\ pc[r] = "mirrorfill" => FillsMirror(r)
    BY <1>2, <1>3, <1>6, <1>11, KindAt
  <2>1. <<pc[r], next>> \in {<<"meta", "metafill">>, <<"metafill", "tidy">>, <<"unlink", "unlinkmeta">>,
            <<"unlinkmeta", "tidy">>, <<"mirror", "mirrorfill">>, <<"mirrorfill", "meta">>,
                <<"mirrorfill", "tidy">>}
        /\ Kinds(r)
    <3>1. <<pc[r], next>> \in QuietSteps /\ Kinds(r)
      BY <1>6, <1>11
    <3>2. pc[r] \notin {"body", "blocks", "rename", "copyfill", "vmetafill", "stream"}
      BY <1>2, <1>11 DEF Control, PutOps
    <3>3. ~(pc[r] \in {"metafill", "unlink", "unlinkmeta"} /\ next = "ok")
      <4>1. pc[r] = "metafill" => next # "ok"
        BY <1>2, <1>3, <1>11, <2>12 DEF FillsMeta, PutOps, TypeOK
      <4>2. pc[r] = "unlink" => next # "ok"
        BY <1>2, <1>3, <1>11, <2>12 DEF Unlinks, TypeOK
      <4>3. pc[r] = "unlinkmeta" => next # "ok"
        BY <1>2, <1>3, <1>11, <2>12 DEF UnlinksMeta, TypeOK
      <4>. QED
        BY <4>1, <4>2, <4>3
    <3>4. ~(pc[r] = "mirrorfill" /\ next = "mirrorfill")
      BY <1>11
    <3>. QED
      BY <3>1, <3>2, <3>3, <3>4 DEF QuietSteps
  <2>2. /\ pc[r] \in {"mirror", "mirrorfill", "meta", "metafill"} => IsNewest(k, src[r])
               /\ src[r] \notin vmark[k]
        /\ pc[r] \in {"meta", "metafill"} => data[k] # NoFile /\ body[data[k]] = vbody[src[r]]
        /\ pc[r] \in {"unlink", "unlinkmeta"} => NewestIsMarker(k)
        /\ pc[r] = "unlinkmeta" => data[k] = NoFile
    BY <1>1, <1>11 DEF Knows
  <2>3. CASE <<pc[r], next>> = <<"meta", "metafill">>
    <3>1. OpensMeta(r)
      BY <2>12, <2>3
    <3>. QED
      BY <1>3, <1>4, <1>11, <2>2, <2>3, <3>1 DEF OpensMeta, Knows, PutOps, IsNewest
  <2>4. ASSUME NewestIsMarker(k), data'[k] = NoFile PROVE Reflects(k)'
    BY <1>3, <1>4, <2>4 DEF Reflects, NewestIsMarker, IsNewest
  <2>5. ASSUME IsNewest(k, src[r]), data'[k] # NoFile, body'[data'[k]] = vbody'[src[r]],
            src[r] \notin vmark[k] PROVE Reflects(k)'
    <3>1. \A v : IsNewest(k, v) => v = src[r]
      BY <1>1, <1>2, <2>5, NewestUnique
    <3>. QED
      BY <1>3, <1>4, <2>5, <3>1 DEF Reflects, IsNewest
  <2>6. CASE <<pc[r], next>> = <<"metafill", "tidy">>
    <3>1. FillsMeta(r)
      BY <2>12, <2>6
    <3>2. Reflects(k)'
      BY <2>2, <2>5, <2>6, <3>1 DEF FillsMeta
    <3>. QED
      BY <1>3, <1>11, <2>6, <3>2 DEF Knows, PutOps, Reflects
  <2>7. CASE <<pc[r], next>> = <<"unlink", "unlinkmeta">>
    <3>1. Unlinks(r)
      BY <2>12, <2>7
    <3>2. data'[k] = NoFile
      BY <1>1, <1>2, <3>1 DEF Unlinks, TypeOK
    <3>. QED
      BY <1>3, <1>4, <1>11, <2>2, <2>7, <3>2 DEF Knows, PutOps, NewestIsMarker, IsNewest
  <2>8. CASE <<pc[r], next>> = <<"unlinkmeta", "tidy">>
    <3>1. UnlinksMeta(r)
      BY <2>12, <2>8
    <3>2. Reflects(k)'
      BY <2>2, <2>4, <2>8, <3>1 DEF UnlinksMeta
    <3>. QED
      BY <1>3, <1>11, <2>8, <3>2 DEF Knows, PutOps, Reflects
  <2>9. CASE <<pc[r], next>> = <<"mirror", "mirrorfill">>
    <3>1. OpensMirror(r)
      BY <2>12, <2>9
    <3>2. sum[r] = <<>> /\ sum'[r] = sum[r] /\ src[r] \in Vids /\ vbody' = vbody
      BY <1>2, <2>9, <3>1 DEF OpensMirror, SInv, UploadHeld, Unborn, Control, TypeOK
    <3>3. data'[k] # NoFile /\ body'[data'[k]] = sum'[r]
      BY <1>1, <1>2, <3>1, <3>2, NoFileAssumption DEF OpensMirror, TypeOK
    <3>4. IsPrefix(sum'[r], vbody'[src[r]])
      <4>1. vbody[src[r]] \in Seq(Block)
        BY <1>2, <3>2 DEF TypeOK
      <4>. QED
        BY <3>2, <4>1, PrefixEmpty
    <3>. QED
      BY <1>3, <1>4, <1>11, <2>2, <2>9, <3>3, <3>4 DEF Knows, PutOps, IsNewest
  <2>10. CASE pc[r] = "mirrorfill" /\ next \in {"meta", "tidy"}
    <3>1. FillsMirror(r)
      BY <2>12, <2>10
    <3>2. /\ ~(Len(sum[r]) < Len(vbody[src[r]])) /\ src[r] \in Vids
          /\ UNCHANGED <<data, body, sum, vbody>>
      BY <1>2, <1>3, <2>10, <3>1 DEF FillsMirror, TypeOK
    <3>3. data'[k] # NoFile /\ body'[data'[k]] = vbody'[src[r]]
      <4>1. data[k] # NoFile /\ body[data[k]] = sum[r] /\ IsPrefix(sum[r], vbody[src[r]])
        BY <1>1, <1>11, <2>10 DEF Knows
      <4>2. sum[r] \in Seq(Block) /\ vbody[src[r]] \in Seq(Block)
        BY <1>2, <3>2 DEF TypeOK
      <4>. QED
        BY <3>2, <4>1, <4>2, PrefixGrows
    <3>4. CASE next = "meta"
      BY <1>3, <1>4, <1>11, <2>2, <2>10, <3>3, <3>4 DEF Knows, PutOps, IsNewest
    <3>5. CASE next = "tidy"
      <4>1. Reflects(k)'
        BY <2>2, <2>5, <2>10, <3>3
      <4>. QED
        BY <1>3, <1>11, <3>5, <4>1 DEF Knows, PutOps, Reflects
    <3>. QED
      BY <2>10, <3>4, <3>5
  <2>. QED
    BY <2>1, <2>3, <2>6, <2>7, <2>8, <2>9, <2>10
<1>. QED
  BY <1>5, <1>7, <1>8, <1>9, <1>10, <1>11, <1>12 DEF MutatorOps

\* What the handlers know of the entries of their key.
LEMMA MirroredStep == SInv /\ Owned /\ Housed /\ Mirrored /\ [Next]_vars => Mirrored'
<1>. SUFFICES ASSUME SInv, Owned, Housed, Mirrored, [Next]_vars,
                     NEW q \in Reqs, op'[q] \in MutatorOps, key'[q] \in SerialKeys, last'[key'[q]] = q
              PROVE  Knows(q)'
  BY SerialKeysFixed DEF Mirrored, Standing
<1>1. Rests \/ \E r \in Reqs : VersionKinds(r)
  BY VersionStepKinds DEF SInv, IInv
<1>2. TypeOK /\ Control
  BY DEF SInv, IInv
<1>3. ASSUME pc'[q] = pc[q], op'[q] = op[q], key'[q] = key[q], vid'[q] = vid[q], src'[q] = src[q],
             mode'[q] = mode[q], last[key[q]] = q
      PROVE  Knows(q)'
  <2>1. CASE pc[q] = "mirrorfill" /\ sum'[q] # sum[q]
    <3>1. op[q] = "deleteVersion"
      BY <1>2, <2>1 DEF Control
    <3>. QED
      BY <1>3, <2>1, <3>1, BlockKnows
  <2>2. CASE pc[q] = "mirrorfill" => sum'[q] = sum[q]
    BY <1>3, <2>2, KnowsKept
  <2>. QED
    BY <2>1, <2>2
<1>4. ASSUME pc'[q] \notin {"meta", "metafill", "ok", "unlink", "unlinkmeta", "mirror", "mirrorfill", "tidy"}
      PROVE  Knows(q)'
  BY <1>4 DEF Knows
<1>5. ASSUME NEW r \in Reqs, Asks(r) PROVE Knows(q)'
  <2>1. PICK k \in Keys, o \in Versioning, next \in {"failed", "writer", "body", "marker", "unlink"} :
        /\ Admit(r, k)
        /\ pc' = [pc EXCEPT ![r] = next]
        /\ op' = [op EXCEPT ![r] = o]
        /\ key' = [key EXCEPT ![r] = k]
        /\ last' = [last EXCEPT ![k] = r]
        /\ next \in {"marker", "unlink"} => o = "delete"
        /\ next = "marker" <=> (o = "delete" /\ Records(status))
        /\ mode' = mode \/ mode' = [mode EXCEPT ![r] = status]
        /\ next \notin {"failed", "writer"} => mode' = [mode EXCEPT ![r] = status]
        /\ UNCHANGED <<vid, src, vdata, vmark>>
    BY <1>5 DEF Asks
  <2>2. CASE q # r
    <3>4. mode'[q] = mode[q]
      <4>1. mode' = mode \/ mode' = [mode EXCEPT ![r] = status]
        BY <2>1
      <4>. QED
        BY <1>2, <2>2, <4>1 DEF TypeOK
    <3>5. pc'[q] = pc[q] /\ op'[q] = op[q] /\ key'[q] = key[q] /\ vid'[q] = vid[q] /\ src'[q] = src[q]
      BY <1>2, <2>1, <2>2 DEF TypeOK
    <3>1. pc'[q] = pc[q] /\ op'[q] = op[q] /\ key'[q] = key[q] /\ vid'[q] = vid[q] /\ src'[q] = src[q]
            /\ mode'[q] = mode[q]
      BY <3>4, <3>5
    <3>2. key[q] # k
      BY <1>2, <2>1, <2>2, <3>1 DEF TypeOK
    <3>3. last[key[q]] = q
      BY <2>1, <3>1, <3>2
    <3>. QED
      BY <1>3, <3>1, <3>3
  <2>3. CASE q = r
    <3>1. pc'[q] = next /\ op'[q] = o /\ key'[q] = k /\ vid'[q] = vid[q]
      BY <1>2, <2>1, <2>3 DEF TypeOK
    <3>2. CASE next # "unlink"
      BY <1>4, <2>1, <3>1, <3>2
    <3>3. CASE next = "unlink"
      <4>1. o = "delete" /\ ~Records(status)
        BY <2>1, <3>3
      <4>2. mode'[q] = status
        BY <1>2, <2>1, <2>3, <3>3 DEF TypeOK
      <4>. QED
        BY <3>1, <3>3, <4>1, <4>2 DEF Knows, PutOps
    <3>. QED
      BY <3>2, <3>3
  <2>. QED
    BY <2>2, <2>3
<1>6. ASSUME NEW r \in Reqs, NEW k \in Keys, DeleteVersion(r, k) PROVE Knows(q)'
  <2>1. /\ pc' = [pc EXCEPT ![r] = "purge"] /\ op' = [op EXCEPT ![r] = "deleteVersion"]
        /\ key' = [key EXCEPT ![r] = k] /\ last' = [last EXCEPT ![k] = r] /\ UNCHANGED <<src, mode>>
        /\ \E v : vid' = [vid EXCEPT ![r] = v]
    BY <1>6 DEF DeleteVersion, Begin
  <2>2. CASE q # r
    <3>4. mode'[q] = mode[q]
      <4>1. mode' = mode \/ mode' = [mode EXCEPT ![r] = status]
        BY <2>1
      <4>. QED
        BY <1>2, <2>2, <4>1 DEF TypeOK
    <3>5. pc'[q] = pc[q] /\ op'[q] = op[q] /\ key'[q] = key[q] /\ vid'[q] = vid[q] /\ src'[q] = src[q]
      BY <1>2, <2>1, <2>2 DEF TypeOK
    <3>1. pc'[q] = pc[q] /\ op'[q] = op[q] /\ key'[q] = key[q] /\ vid'[q] = vid[q] /\ src'[q] = src[q]
            /\ mode'[q] = mode[q]
      BY <3>4, <3>5
    <3>2. key[q] # k
      BY <1>2, <2>1, <2>2, <3>1 DEF TypeOK
    <3>3. last[key[q]] = q
      BY <2>1, <3>1, <3>2
    <3>. QED
      BY <1>3, <3>1, <3>3
  <2>3. CASE q = r
    <3>1. pc'[q] = "purge"
      BY <1>2, <2>1, <2>3 DEF TypeOK
    <3>. QED
      BY <1>4, <3>1
  <2>. QED
    BY <2>2, <2>3
<1>7. ASSUME NEW r \in Reqs, Looks(r) \/ Configures(r) PROVE Knows(q)'
  <2>1. op'[r] \notin MutatorOps
    BY <1>2, <1>7 DEF Looks, Configures, PutVersioning, Begin, MutatorOps, PutOps, TypeOK
  <2>2. q # r
    BY <2>1
  <2>3. pc'[q] = pc[q] /\ op'[q] = op[q] /\ key'[q] = key[q] /\ vid'[q] = vid[q] /\ src'[q] = src[q]
            /\ mode'[q] = mode[q]
            /\ last' = last
    BY <1>2, <1>7, <2>2 DEF Looks, Configures, PutVersioning, Begin, TypeOK
  <2>. QED
    BY <1>3, <2>3
<1>8. ASSUME NEW r \in Reqs, q # r,
             Numbers(r) \/ AddsData(r) \/ AddsMeta(r) \/ AddsMarker(r) \/ PurgeRest(r) \/ Scan(r) \/ Tidy(r)
             \/ CopyWriter(r) \/ PutVersioningFill(r) \/ (\E next : Quietly(r, next))
      PROVE  Knows(q)'
  <2>1. pc'[q] = pc[q] /\ op'[q] = op[q] /\ key'[q] = key[q] /\ vid'[q] = vid[q] /\ src'[q] = src[q]
            /\ mode'[q] = mode[q]
            /\ last' = last
    <3>1. \E next : pc' = [pc EXCEPT ![r] = next]
      BY <1>8 DEF Numbers, AddsData, AddsMeta, AddsMarker, PurgeRest, Scan, Tidy, CopyWriter,
                  PutVersioningFill, Quietly, Goto
    <3>2. UNCHANGED <<op, key, last>>
      BY <1>8 DEF Numbers, AddsData, AddsMeta, AddsMarker, PurgeRest, Scan, Tidy, CopyWriter,
                  PutVersioningFill, Quietly, reqVars
    <3>3. vid' = vid \/ \E v : vid' = [vid EXCEPT ![r] = v]
      BY <1>8 DEF Numbers, AddsData, AddsMeta, AddsMarker, PurgeRest, Scan, Tidy, CopyWriter,
                  PutVersioningFill, Quietly, reqVars
    <3>4. src' = src \/ \E v : src' = [src EXCEPT ![r] = v]
      BY <1>8 DEF Numbers, AddsData, AddsMeta, AddsMarker, PurgeRest, Scan, Tidy, CopyWriter,
                  PutVersioningFill, Quietly, reqVars
    <3>5. mode' = mode \/ \E v : mode' = [mode EXCEPT ![r] = v]
      BY <1>8 DEF Numbers, AddsData, AddsMeta, AddsMarker, PurgeRest, Scan, Tidy, CopyWriter, OpenUpload,
                  PutVersioningFill, Quietly, reqVars
    <3>. QED
      BY <1>2, <1>8, <3>1, <3>2, <3>3, <3>4, <3>5 DEF TypeOK
  <2>. QED
    BY <1>3, <2>1
<1>9. CASE Numbers(q) \/ AddsData(q) \/ AddsMeta(q) \/ PurgeRest(q) \/ CopyWriter(q)
  <2>1. pc'[q] \in {"copy", "markfile", "copyfill", "vmetafill", "scan", "blocks"}
    BY <1>2, <1>9 DEF Numbers, AddsData, AddsMeta, PurgeRest, CopyWriter, Goto, TypeOK
  <2>. QED
    BY <1>4, <2>1
<1>10. CASE PutVersioningFill(q)
  BY <1>2, <1>10 DEF PutVersioningFill, Control, reqVars, MutatorOps, PutOps
<1>11. CASE AddsMarker(q)
  <2>1. op'[q] = "delete" /\ pc'[q] = "unlink" /\ vid'[q] \in Vids
    BY <1>2, <1>11 DEF AddsMarker, TypeOK
  <2>2. vid'[q] # NoVid
    BY <2>1, BoundAssumption DEF Vids, NoVid
  <2>. QED
    BY <2>1, <2>2 DEF Knows, PutOps
<1>12. CASE Scan(q)
  <2>. PICK k \in Keys : k = key[q] /\ k \in SerialKeys
    BY <1>12, SerialKeysFixed DEF Scan
  <2>1. /\ key'[q] = k /\ op'[q] = "deleteVersion" /\ UNCHANGED <<vdata, vmark, data, body, vbody>>
    BY <1>2, <1>12 DEF Scan, Control, fileVars, mirrorVars, versionVars
  <2>2. CASE ~vdir[k] /\ pc'[q] = "tidy"
    <3>1. Entries(k)' = {}
      BY <2>1, <2>2 DEF Housed, Entries
    <3>. QED
      BY <2>1, <2>2, <3>1 DEF Knows, Reflects, PutOps
  <2>3. CASE pc'[q] = "unlink" /\ NewestIsMarker(k)
    BY <2>1, <2>3 DEF Knows, NewestIsMarker, IsNewest, Entries, PutOps
  <2>4. CASE pc'[q] = "mirror" /\ IsNewest(k, src'[q]) /\ src'[q] \notin vmark[k]
    BY <2>1, <2>4 DEF Knows, IsNewest, Entries, PutOps
  <2>. QED
    BY <1>2, <1>12, <2>2, <2>3, <2>4 DEF Scan, Goto, TypeOK, NewestIsMarker
<1>13. CASE Tidy(q)
  <2>. PICK k \in Keys : k = key[q] /\ k \in SerialKeys
    BY <1>13, SerialKeysFixed DEF Tidy, reqVars
  <2>1. /\ key'[q] = k /\ op'[q] = "deleteVersion" /\ op[q] = "deleteVersion" /\ pc'[q] = "ok"
               /\ pc[q] = "tidy"
        /\ last[k] = q /\ UNCHANGED <<vdata, vmark, data, body, vbody>>
    BY <1>2, <1>13 DEF Tidy, Control, Goto, reqVars, fileVars, mirrorVars, versionVars, TypeOK
  <2>2. Reflects(k)
    BY <2>1 DEF Mirrored, Standing, Knows, MutatorOps
  <2>. QED
    BY <2>1, <2>2 DEF Knows, Reflects, IsNewest, Entries, PutOps
<1>14. ASSUME NEW next, Quietly(q, next) PROVE Knows(q)'
  <2>1. op[q] \in MutatorOps /\ key[q] \in SerialKeys /\ last[key[q]] = q
    BY <1>14 DEF Quietly
  <2>. QED
    BY <1>14, <2>1, QuietlyKnows
<1>15. CASE Rests
  BY <1>3, <1>15 DEF Rests
<1>. QED
  BY <1>1, <1>5, <1>6, <1>7, <1>8, <1>9, <1>10, <1>11, <1>12, <1>13, <1>14, <1>15 DEF VersionKinds

\* At the start there is nothing to know.
LEMMA InitMInv == Init => MInv
<1>. SUFFICES ASSUME Init PROVE MInv
  OBVIOUS
<1>. QED
  BY SerialKeysFixed DEF Init, MInv, Owned, Housed, Ascending, Mirrored, Entries, MutatorOps, PutOps

\* What the last handler of a serial key leaves is what its newest version is.
LEMMA NewestIsLive == SInv /\ MInv => MirrorsNewest
<1>. SUFFICES ASSUME SInv, MInv, NEW k \in SerialKeys, last[k] # NoFile, Tracked(last[k]),
                     NEW v \in Entries(k), IsNewest(k, v)
              PROVE  IF v \in vmark[k] THEN data[k] = NoFile ELSE data[k] # NoFile
                  /\ body[data[k]] = vbody[v]
  BY DEF MirrorsNewest
<1>. DEFINE r == last[k]
<1>1. k \in Keys /\ r \in Reqs /\ op[r] \in MutatorOps /\ key[r] = k /\ Standing(r) /\ pc[r] = "ok"
  BY SerialKeysFixed DEF SInv, IInv, TypeOK, Sole, Inodes, Standing, Tracked
<1>2. Knows(r)
  BY <1>1 DEF MInv, Mirrored
<1>3. v \in Vids /\ (v \in vdata[k] \/ v \in vmark[k])
  BY <1>1 DEF Entries, SInv, IInv, TypeOK
<1>4. PICK q \in Reqs : op[q] \in Versioning /\ key[q] = k /\ vid[q] = v
          /\ (v \in vmark[k] => op[q] = "delete")
  BY <1>1, <1>3 DEF MInv, Owned, Versioning
<1>. HIDE DEF r
<1>5. ASSUME op[r] \in Versioning PROVE vid[r] # NoVid /\ ~Purged(vid[r])
  <2>1. vid[r] # NoVid
    BY <1>1, <1>2, <1>5 DEF Knows, Versioning, PutOps, Tracked, r
  <2>. QED
    BY <1>1, <1>5, <2>1 DEF MInv, Owned, Standing
<1>6. ASSUME op[r] \in Versioning, vid[r] \in Entries(k) PROVE v = vid[r] /\ q = r
  <2>1. vid[q] <= vid[r]
    BY <1>1, <1>4, <1>5, <1>6 DEF MInv, Ascending, Standing, Inodes
  <2>2. vid[r] <= v /\ vid[r] \in Nat /\ v \in Nat
    BY <1>1, <1>3, <1>5, <1>6, BoundAssumption DEF IsNewest, SInv, IInv, TypeOK, Vids, NoVid
  <2>3. v = vid[r]
    BY <1>4, <2>1, <2>2
  <2>. QED
    BY <1>1, <1>4, <1>5, <1>6, <2>3 DEF SInv, IInv, OneOwner, Versioning
<1>7. CASE op[r] \in PutOps
  <2>1. vid[r] \in vdata[k]
    BY <1>1, <1>5, <1>7 DEF SInv, IInv, Recorded, HasData, Versioning
  <2>2. v = vid[r] /\ v \notin vmark[k]
    BY <1>4, <1>6, <1>7, <2>1 DEF Entries, Versioning, PutOps
  <2>3. vbody[vid[r]] = sum[r]
    BY <1>1, <1>5, <1>7 DEF SInv, VersionHeld, Versioning
  <2>4. data[k] # NoFile /\ body[data[k]] = sum[r]
    BY <1>1, <1>7 DEF SInv, LiveHeld, Renamed
  <2>. QED
    BY <2>2, <2>3, <2>4
<1>8. CASE op[r] = "delete"
  <2>1. vid[r] \in vmark[k]
    BY <1>1, <1>5, <1>8 DEF SInv, IInv, Recorded, HasMark, Versioning
  <2>2. v = vid[r] /\ v \in vmark[k]
    BY <1>6, <1>8, <2>1 DEF Entries, Versioning
  <2>3. data[k] = NoFile
    BY <1>1, <1>8 DEF SInv, LiveHeld
  <2>. QED
    BY <2>2, <2>3
<1>9. CASE op[r] = "deleteVersion"
  BY <1>1, <1>2, <1>9 DEF Knows, Reflects
<1>. QED
  BY <1>1, <1>7, <1>8, <1>9 DEF MutatorOps

\* While the clock is not set back, the live file of a key whose requests come
\* one at a time is its newest version once a request was answered that found
\* versioning, or removed a version: whatever failed before it, and whatever
\* PUT ?versioning ran next to them or crashed (put_object, delete_object,
\* delete_object_version and repromote_latest).
THEOREM LiveIsNewest == ASSUME ClockMonotone PROVE Spec => []MirrorsNewest
<1>1. Init => SInv /\ MInv
  BY InitSInv, InitMInv
<1>2. SInv /\ MInv /\ [Next]_vars => MInv'
  BY OwnedStep, HousedStep, AscendingStep, MirroredStep DEF SInv, MInv
<1>3. SInv /\ MInv => MirrorsNewest
  BY NewestIsLive
<1>. QED
  BY <1>1, <1>2, <1>3, SInvariance, PTL DEF Spec

----------------------------------------------------------------------------
(* What readers are served.                                                *)

\* A PUT or COPY that has all of its body.
Settled(q) == op[q] \in PutOps /\ pc[q] \notin {"idle", "writer", "body", "blocks"}

\* One that puts it under versions/, and one that has, if they came that far.
Copied(q) == Settled(q) /\ pc[q] \notin {"rename", "version", "copy"}
Filled(q) == Copied(q) /\ pc[q] # "copyfill"

\* c is the body of an upload of key k; it is what a client has sent.
Uploaded(c, k) == \E q \in Reqs : Settled(q) /\ key[q] = k /\ sum[q] = c
Sent(c) == \E q \in Reqs : Settled(q) /\ op[q] = "put" /\ sum[q] = c

\* Inode i is there, and nobody has it open for an upload or may open it so.
Sealed(i) ==
    /\ i \in Reqs /\ pc[i] \notin Unborn
    /\ \A s \in Stems : tmp[s] # i
    /\ \A q \in Reqs : pc[q] \in Uploading => fd[q] # i

LiveWhole ==
    \A k \in Keys : data[k] # NoFile => Uploaded(body[data[k]], k) /\ Sent(body[data[k]])

\* c is a beginning of the body of the upload version v is of; it is all of it.
BeginningOf(c, v) == \E q \in Reqs : Copied(q) /\ vid[q] = v /\ IsPrefix(c, sum[q])
WholeOf(c, v) == \E q \in Reqs : Filled(q) /\ vid[q] = v /\ sum[q] = c

\* A version that is being copied, and one that has its metadata.
VersionWhole ==
    \A v \in Vids :
        /\ vbody[v] # <<>> => BeginningOf(vbody[v], v)
        /\ vinfo[v] # Empty => WholeOf(vbody[v], v)

\* What a COPY has read is a beginning of what it reads.
CopyReads(r) ==
    /\ pc[r] \in {"writer", "blocks"} => Sealed(from[r]) /\ Sent(body[from[r]])
    /\ pc[r] = "blocks" =>
        /\ Len(sum[r]) <= Len(body[from[r]])
        /\ \A j \in 1..Len(sum[r]) : sum[r][j] = body[from[r]][j]
    /\ pc[r] \in {"rename"} \cup Renamed => Sent(sum[r])

GetReads(r) ==
    /\ pc[r] \in {"stream", "ok"} => Uploaded(sum[r], key[r])
    /\ pc[r] = "stream" => Sealed(fd[r]) /\ body[fd[r]] = sum[r]

GetVersionReads(r) ==
    /\ pc[r] \in {"stream", "ok"} =>
        /\ sum[r] # <<>> => vid[r] \in Vids /\ BeginningOf(sum[r], vid[r])
        /\ src[r] # NoVid => vid[r] \in Vids /\ WholeOf(sum[r], vid[r])
    /\ pc[r] = "stream" =>
        /\ sum[r] # <<>> => IsPrefix(sum[r], vbody[vid[r]])
        /\ src[r] # NoVid => vbody[vid[r]] = sum[r]

ReadersWhole ==
    \A r \in Reqs :
        /\ op[r] = "copy" => CopyReads(r)
        /\ op[r] = "get" => GetReads(r)
        /\ op[r] = "getVersion" => GetVersionReads(r)

WInv == LiveWhole /\ VersionWhole /\ ReadersWhole

----------------------------------------------------------------------------
(* What does not change any more.                                          *)

\* The body of an upload, once it has ended.
LEMMA SettledStays ==
    ASSUME TypeOK, Control, [Next]_vars, NEW q \in Reqs, Settled(q)
    PROVE  /\ Settled(q)' /\ op'[q] = op[q] /\ key'[q] = key[q] /\ sum'[q] = sum[q]
           /\ vid[q] # NoVid => vid'[q] = vid[q]
           /\ Copied(q) => Copied(q)'
           /\ Filled(q) => Filled(q)'
<1>. DEFINE Stays == /\ Settled(q)' /\ op'[q] = op[q] /\ key'[q] = key[q] /\ sum'[q] = sum[q]
                     /\ vid[q] # NoVid => vid'[q] = vid[q]
                     /\ Copied(q) => Copied(q)'
                     /\ Filled(q) => Filled(q)'
<1>1. Stutters \/ \E r \in Reqs : Kinds(r)
  BY StepKinds
<1>2. ASSUME pc'[q] = pc[q], op'[q] = op[q], key'[q] = key[q], sum'[q] = sum[q], vid'[q] = vid[q]
          PROVE Stays
  BY <1>2 DEF Settled, Copied, Filled
<1>3. ASSUME Stutters PROVE Stays
  BY <1>2, <1>3 DEF Stutters
<1>4. ASSUME NEW r \in Reqs, Kinds(r), r # q PROVE Stays
  <2>1. (\E next : pc' = [pc EXCEPT ![r] = next]) \/ pc' = pc
    BY <1>4 DEF Kinds, Enters, Reads, ReadsOn, Puts, Copies, Writes, Advances, Aborts, Renames,
        OpensVersion,
       FillsVersion, OpensMeta, FillsMeta, Unlinks, UnlinksMeta, OpensMirror, FillsMirror
  <2>2. (\E o : op' = [op EXCEPT ![r] = o]) \/ op' = op
    BY <1>4 DEF Kinds, Enters, Reads, ReadsOn, Puts, Copies, Writes, Advances, Aborts, Renames,
        OpensVersion,
       FillsVersion, OpensMeta, FillsMeta, Unlinks, UnlinksMeta, OpensMirror, FillsMirror
  <2>3. (\E k : key' = [key EXCEPT ![r] = k]) \/ key' = key
    BY <1>4 DEF Kinds, Enters, Reads, ReadsOn, Puts, Copies, Writes, Advances, Aborts, Renames,
        OpensVersion,
       FillsVersion, OpensMeta, FillsMeta, Unlinks, UnlinksMeta, OpensMirror, FillsMirror
  <2>4. (\E c : sum' = [sum EXCEPT ![r] = c]) \/ sum' = sum
    BY <1>4 DEF Kinds, Enters, Reads, ReadsOn, Puts, Opens, Copies, Writes, Advances, Aborts, Renames,
        OpensVersion,
       FillsVersion, OpensMeta, FillsMeta, Unlinks, UnlinksMeta, OpensMirror, FillsMirror
  <2>5. (\E v : vid' = [vid EXCEPT ![r] = v]) \/ vid' = vid
    BY <1>4 DEF Kinds, Enters, Reads, ReadsOn, Puts, Opens, Copies, Writes, Advances, Aborts, Renames,
        OpensVersion,
       FillsVersion, OpensMeta, FillsMeta, Unlinks, UnlinksMeta, OpensMirror, FillsMirror
  <2>. QED
    BY <1>2, <1>4, <2>1, <2>2, <2>3, <2>4, <2>5 DEF TypeOK
<1>5. ASSUME Kinds(q) PROVE Stays
  <2>. HIDE DEF Stays
  <2>1. ~Enters(q) /\ ~Reads(q) /\ ~ReadsOn(q) /\ ~Puts(q) /\ ~Copies(q) /\ ~Writes(q) /\ ~Unlinks(q)
        /\ ~UnlinksMeta(q) /\ ~OpensMirror(q) /\ ~FillsMirror(q)
    BY DEF Settled, PutOps, Enters, Reads, ReadsOn, Puts, Copies, Writes, Unlinks, UnlinksMeta,
        OpensMirror,
           FillsMirror, Admit
  <2>2. ASSUME NEW next, Advances(q, next) PROVE Stays
    <3>1. /\ pc'[q] = next /\ op'[q] = op[q] /\ key'[q] = key[q] /\ sum'[q] = sum[q]
          /\ next = "failed" \/ <<pc[q], next>> \in Elsewhere
      BY <2>2 DEF Advances, TypeOK
    <3>2. vid[q] # NoVid => vid'[q] = vid[q]
      BY <2>2 DEF Advances, Control
    <3>3. next \notin {"idle", "writer", "body", "blocks"} /\ (next = "copy" => pc[q] = "version")
          /\ (next \in {"rename", "version", "copyfill"} => pc[q] = "blocks")
      BY <3>1 DEF Elsewhere
    <3>. QED
      BY <3>1, <3>2, <3>3 DEF Stays, Settled, Copied, Filled
  <2>3. ASSUME Aborts(q) \/ Renames(q) PROVE Stays
    <3>1. op'[q] = op[q] /\ key'[q] = key[q] /\ sum'[q] = sum[q] /\ vid'[q] = vid[q]
          /\ pc'[q] \in {"failed", "version", "meta"} /\ pc[q] = "rename"
      BY <2>3 DEF Aborts, Renames, TypeOK, Settled, Uploading
    <3>. QED
      BY <3>1 DEF Stays, Settled, Copied, Filled
  <2>4. ASSUME OpensVersion(q) \/ FillsVersion(q) \/ OpensMeta(q) \/ FillsMeta(q) PROVE Stays
    <3>1. op'[q] = op[q] /\ key'[q] = key[q] /\ sum'[q] = sum[q] /\ vid'[q] = vid[q]
      BY <2>4 DEF OpensVersion, FillsVersion, OpensMeta, FillsMeta
    <3>2. /\ pc'[q] \in {"copyfill", "vmeta", "metafill", "ok", "tidy"}
          /\ pc'[q] = "copyfill" => pc[q] \in {"copy", "copyfill"}
      BY <2>4 DEF OpensVersion, FillsVersion, OpensMeta, FillsMeta, TypeOK
    <3>. QED
      BY <3>1, <3>2 DEF Stays, Settled, Copied, Filled
  <2>. QED
    BY <1>5, <2>1, <2>2, <2>3, <2>4 DEF Kinds
<1>. HIDE DEF Stays
<1>6. Stays
  BY <1>1, <1>3, <1>4, <1>5
<1>. QED
  BY <1>6 DEF Stays

\* An upload of a key, once it has ended.
LEMMA UploadedStays ==
    ASSUME TypeOK, Control, [Next]_vars, NEW c, NEW k, Uploaded(c, k)
    PROVE  \E q \in Reqs : Settled(q)' /\ key'[q] = k /\ sum'[q] = c
<1>1. PICK q \in Reqs : Settled(q) /\ key[q] = k /\ sum[q] = c
  BY DEF Uploaded
<1>. QED
  BY <1>1, SettledStays

\* What a client has sent, once it has sent it all.
LEMMA SentStays ==
    ASSUME TypeOK, Control, [Next]_vars, NEW c, Sent(c)
    PROVE  \E q \in Reqs : Settled(q)' /\ op'[q] = "put" /\ sum'[q] = c
<1>1. PICK q \in Reqs : Settled(q) /\ op[q] = "put" /\ sum[q] = c
  BY DEF Sent
<1>. QED
  BY <1>1, SettledStays

\* Without DELETE of versions nobody opens a live file for writing.
LEMMA NoRepromotion ==
    ASSUME TypeOK, "deleteVersion" \notin Ops, NEW r \in Reqs
    PROVE  op[r] # "deleteVersion" /\ ~OpensMirror(r) /\ ~FillsMirror(r)
  BY DEF TypeOK, OpensMirror, FillsMirror

\* The body of a file that no upload has open.
LEMMA SealedStays ==
    ASSUME SInv, "deleteVersion" \notin Ops, [Next]_vars, NEW i, Sealed(i)
    PROVE  Sealed(i)' /\ body'[i] = body[i]
<1>. DEFINE Stays == Sealed(i)' /\ body'[i] = body[i]
<1>1. Stutters \/ \E r \in Reqs : Kinds(r)
  BY StepKinds DEF SInv, IInv
<1>2. TypeOK /\ Control /\ Territory /\ OneName
  BY DEF SInv, IInv
<1>3. ASSUME Stutters PROVE Stays
  BY <1>3 DEF Stutters, Sealed
<1>4. ASSUME NEW r \in Reqs, Enters(r) \/ Reads(r) PROVE Stays
  <2>1. UNCHANGED <<tmp, body>> /\ pc[r] = "idle" /\ pc'[r] \notin Uploading /\ r # i
        /\ (\A q \in Reqs : q # r => pc'[q] = pc[q] /\ fd'[q] = fd[q])
    BY <1>2, <1>4 DEF Enters, Reads, Admit, Sealed, Unborn, TypeOK, Uploading
  <2>. QED
    BY <2>1 DEF Sealed
<1>5. ASSUME NEW r \in Reqs, ReadsOn(r) PROVE Stays
  <2>1. UNCHANGED <<tmp, body, fd>> /\ pc'[r] \in Final /\ (\A q \in Reqs : q # r => pc'[q] = pc[q])
    BY <1>2, <1>5 DEF ReadsOn, TypeOK
  <2>. QED
    BY <2>1 DEF Sealed, Unborn, Uploading, Final
<1>6. ASSUME NEW r \in Reqs, NEW k \in Keys, Opens(r, k), pc[r] \in {"idle", "writer"},
             pc'[r] \in {"body", "blocks"}, \A q \in Reqs : q # r => pc'[q] = pc[q]
      PROVE  Stays
  <2>1. pc[r] \in Unborn /\ r # i
    BY <1>6 DEF Unborn, Sealed
  <2>2. fd'[r] \in {r, tmp[Stem[k]]} /\ \A s \in Stems : tmp'[s] \in {r, tmp[s]}
    BY <1>2, <1>6, StemAssumption DEF Opens, TypeOK
  <2>3. fd'[r] # i
    BY <2>1, <2>2, StemAssumption DEF Sealed
  <2>4. (\A q \in Reqs : q # r => fd'[q] = fd[q]) /\ \A j \in Reqs : j # fd'[r] => body'[j] = body[j]
    BY <1>2, <1>6, <2>1, OpensFresh
  <2>. QED
    BY <1>6, <2>1, <2>2, <2>3, <2>4 DEF Sealed
<1>7. ASSUME NEW r \in Reqs, Puts(r) PROVE Stays
  <2>1. PICK k \in Keys : Opens(r, k) /\ pc[r] = "idle"
    BY <1>7 DEF Puts, Admit
  <2>2. pc'[r] = "body" /\ \A q \in Reqs : q # r => pc'[q] = pc[q]
    BY <1>2, <1>7 DEF Puts, TypeOK
  <2>. QED
    BY <1>6, <2>1, <2>2
<1>8. ASSUME NEW r \in Reqs, Copies(r) PROVE Stays
  <2>1. Opens(r, key[r]) /\ key[r] \in Keys /\ pc[r] = "writer"
    BY <1>8 DEF Copies, Opens
  <2>2. pc'[r] = "blocks" /\ \A q \in Reqs : q # r => pc'[q] = pc[q]
    BY <1>2, <1>8 DEF Copies, TypeOK
  <2>. QED
    BY <1>6, <2>1, <2>2
<1>9. ASSUME NEW r \in Reqs, Writes(r) PROVE Stays
  <2>1. fd[r] # i /\ UNCHANGED <<pc, fd, tmp>> /\ \A j \in Reqs : j # fd[r] => body'[j] = body[j]
    BY <1>2, <1>9 DEF Writes, Sealed, Uploading, TypeOK
  <2>. QED
    BY <2>1 DEF Sealed
<1>10. ASSUME NEW r \in Reqs, NEW next, Advances(r, next) PROVE Stays
  <2>1. UNCHANGED <<tmp, body, fd>> /\ pc'[r] = next /\ (\A q \in Reqs : q # r => pc'[q] = pc[q])
        /\ (next = "failed" \/ <<pc[r], next>> \in Elsewhere)
    BY <1>2, <1>10 DEF Advances, TypeOK
  <2>2. /\ next \in Unborn => pc[r] \in Unborn
        /\ next \in Uploading => pc[r] \in Uploading
    BY <2>1 DEF Elsewhere, Unborn, Uploading
  <2>. QED
    BY <2>1, <2>2 DEF Sealed
<1>11. ASSUME NEW r \in Reqs, Aborts(r) \/ Renames(r) PROVE Stays
  <2>1. UNCHANGED <<body, fd>> /\ pc'[r] \in {"failed", "version", "meta"}
            /\ (\A q \in Reqs : q # r => pc'[q] = pc[q])
        /\ \A s \in Stems : tmp'[s] \in {tmp[s], NoFile}
    BY <1>2, <1>11 DEF Aborts, Renames, TypeOK
  <2>. QED
    BY <2>1, NoFileAssumption DEF Sealed, Unborn, Uploading
<1>12. ASSUME NEW r \in Reqs,
           OpensVersion(r) \/ FillsVersion(r) \/ OpensMeta(r) \/ FillsMeta(r) \/ Unlinks(r) \/ UnlinksMeta(r)
       PROVE Stays
  <2>1. UNCHANGED <<tmp, body>>
            /\ pc'[r] \in {"copyfill", "vmeta", "metafill", "ok", "tidy", "unlinkmeta"}
        /\ (\A q \in Reqs : q # r => pc'[q] = pc[q] /\ fd'[q] = fd[q])
    BY <1>2, <1>12 DEF OpensVersion, FillsVersion, OpensMeta, FillsMeta, Unlinks, UnlinksMeta, TypeOK
  <2>. QED
    BY <2>1 DEF Sealed, Unborn, Uploading
<1>. HIDE DEF Stays
<1>13. Stays
  BY <1>1, <1>2, <1>3, <1>4, <1>5, <1>7, <1>8, <1>9, <1>10, <1>11, <1>12, NoRepromotion DEF Kinds
<1>. QED
  BY <1>13 DEF Stays

\* A live file is sealed.
LEMMA LiveSealed ==
    ASSUME SInv, NEW k \in SerialKeys, data[k] # NoFile
    PROVE  Sealed(data[k])
<1>1. k \in Keys /\ data[k] \in Reqs
  BY SerialKeysFixed DEF SInv, IInv, TypeOK, Inodes
<1>2. pc[data[k]] \notin Unborn
  BY <1>1 DEF SInv, OneName
<1>3. \A q \in Reqs : pc[q] \in Uploading => fd[q] # data[k]
  BY DEF SInv, Apart
<1>4. ASSUME NEW s \in Stems, tmp[s] = data[k] PROVE FALSE
  <2>1. Stem[key[data[k]]] = s /\ Stem[key[data[k]]] = Stem[k]
    BY <1>1, <1>4 DEF SInv, Territory
  <2>. QED
    BY <1>1, <1>4, <2>1 DEF SInv, OneName
<1>. QED
  BY <1>1, <1>2, <1>3, <1>4 DEF Sealed

\* The live file of a key is the whole body of an upload.
LEMMA LiveWholeStep ==
    ASSUME SInv, "deleteVersion" \notin Ops, SerialKeys = Keys, LiveWhole, ReadersWhole, [Next]_vars
    PROVE  LiveWhole'
<1>1. Stutters \/ \E r \in Reqs : Kinds(r)
  BY StepKinds DEF SInv, IInv
<1>2. TypeOK /\ Control
  BY DEF SInv, IInv
<1>. SUFFICES ASSUME NEW k \in Keys, data'[k] # NoFile
              PROVE  Uploaded(body[data[k]], k)' /\ Sent(body[data[k]])'
  BY DEF LiveWhole
<1>. DEFINE Whole == Uploaded(body[data[k]], k)' /\ Sent(body[data[k]])'
<1>3. ASSUME data'[k] = data[k] PROVE Whole
  <2>1. Sealed(data[k])
    BY <1>3, LiveSealed
  <2>2. body'[data[k]] = body[data[k]]
    BY <2>1, SealedStays
  <2>3. Uploaded(body[data[k]], k) /\ Sent(body[data[k]])
    BY <1>3 DEF LiveWhole
  <2>4. PICK q \in Reqs : Settled(q)' /\ key'[q] = k /\ sum'[q] = body[data[k]]
    BY <1>2, <2>3, UploadedStays
  <2>5. PICK x \in Reqs : Settled(x)' /\ op'[x] = "put" /\ sum'[x] = body[data[k]]
    BY <1>2, <2>3, SentStays
  <2>. QED
    BY <1>3, <2>2, <2>4, <2>5 DEF Uploaded, Sent
<1>4. ASSUME NEW r \in Reqs, Renames(r), key[r] = k PROVE Whole
  <2>1. /\ pc[r] \in {"body", "rename"} /\ op[r] \in PutOps
        /\ pc'[r] \in {"version", "meta"} /\ op'[r] = op[r] /\ key'[r] = k /\ sum' = sum /\ body' = body
        /\ data'[k] = tmp[Stem[k]]
    BY <1>2, <1>4 DEF Renames, Uploading, TypeOK
  <2>2. tmp[Stem[k]] = fd[r] /\ body[fd[r]] = sum[r]
    BY <1>4, <2>1 DEF SInv, UploadHeld, Uploading
  <2>3. body'[data'[k]] = sum'[r] /\ Settled(r)'
    BY <2>1, <2>2 DEF Settled
  <2>4. Uploaded(body[data[k]], k)'
    BY <2>1, <2>3 DEF Uploaded
  <2>5. CASE op[r] = "put"
    BY <2>1, <2>3, <2>4, <2>5 DEF Sent
  <2>6. CASE op[r] = "copy"
    <3>1. pc[r] = "rename"
      BY <1>2, <2>1, <2>6 DEF Control
    <3>2. Sent(sum[r])
      BY <2>6, <3>1 DEF ReadersWhole, CopyReads
    <3>3. PICK x \in Reqs : Settled(x)' /\ op'[x] = "put" /\ sum'[x] = sum[r]
      BY <1>2, <3>2, SentStays
    <3>. QED
      BY <2>1, <2>3, <2>4, <3>3 DEF Sent
  <2>. QED
    BY <2>1, <2>5, <2>6 DEF PutOps
<1>5. ASSUME NEW r \in Reqs, Renames(r) \/ Unlinks(r), key[r] # k PROVE data'[k] = data[k]
  BY <1>2, <1>5 DEF Renames, Unlinks, TypeOK
<1>6. ASSUME NEW r \in Reqs, Unlinks(r), key[r] = k PROVE FALSE
  BY <1>2, <1>6 DEF Unlinks, TypeOK
<1>7. ASSUME NEW r \in Reqs, Kinds(r), ~Renames(r), ~Unlinks(r) PROVE data' = data
  BY <1>2, <1>7, NoRepromotion DEF Kinds, Enters, Reads, ReadsOn, Puts, Copies, Opens, Writes,
      Advances, Aborts,
     OpensVersion, FillsVersion, OpensMeta, FillsMeta, UnlinksMeta
<1>8. Stutters => data' = data
  BY DEF Stutters
<1>. HIDE DEF Whole
<1>9. Whole
  BY <1>1, <1>3, <1>4, <1>5, <1>6, <1>7, <1>8
<1>. QED
  BY <1>9 DEF Whole

\* Only the request a version is of writes its metadata.
LEMMA InfoSteps ==
    ASSUME TypeOK, Control, [Next]_vars, NEW v \in Vids
    PROVE  \/ vinfo'[v] = vinfo[v]
           \/ \E r \in Reqs : vid[r] = v /\ op[r] \in PutOps /\ (VersionMeta(r) \/ VersionMetaFill(r))
<1>. DEFINE Same == vinfo'[v] = vinfo[v]
<1>. USE DEF Goto, reqVars, mirrorVars, versionVars, fileVars
<1>1. ASSUME NEW r \in Reqs, VersionMeta(r) \/ VersionMetaFill(r), vid[r] # v PROVE Same
  BY <1>1 DEF VersionMeta, VersionMetaFill, TypeOK
<1>2. ASSUME NEW r \in Reqs, VersionMeta(r) \/ VersionMetaFill(r) PROVE op[r] \in PutOps
  BY <1>2 DEF VersionMeta, VersionMetaFill, Control
<1>3. ASSUME NEW r \in Reqs, NEW k \in Keys, Receive(r, k) PROVE Same
  BY <1>3 DEF Receive, PutObjectWriter, OpenUpload, CopyObject, DeleteObject, DeleteVersion,
     GetObject, GetObjectVersion, Begin
<1>4. ASSUME NEW r \in Reqs, NEW m \in {"Enabled", "Suspended"}, PutVersioning(r, m) PROVE Same
  BY <1>4 DEF PutVersioning, Begin
<1>5. ASSUME NEW r \in Reqs, Handle(r), ~VersionMeta(r), ~VersionMetaFill(r) PROVE Same
  BY <1>5 DEF Handle, CopyWriter, OpenUpload, CopyBlock, FinishCopy, Rename, PutVersion, NewVersion,
      CopyOpen,
     CopyFill, MetaCreate, MetaFill, MarkerVersion, CreateMarker, UnlinkData, UnlinkMeta, PurgeRest,
     Scan, MirrorOpen, MirrorFill, Tidy, PutVersioningFill
<1>6. ASSUME NEW r \in Reqs, WriteBlock(r) \/ Rename(r) \/ Abort(r) \/ EndGet(r) \/ Abandon(r)
          PROVE Same
  BY <1>6 DEF WriteBlock, Rename, Abort, EndGet, Abandon
<1>7. CASE Served \/ UNCHANGED vars
  BY <1>7 DEF Served, vars
<1>. QED
  BY <1>1, <1>2, <1>3, <1>4, <1>5, <1>6, <1>7 DEF Next

\* The bytes of a version that is being copied only become more, and those of
\* one that has been copied stay.
LEMMA VersionGrows ==
    ASSUME SInv, [Next]_vars, NEW v \in Vids, NEW q \in Reqs, Copied(q), vid[q] = v
    PROVE  /\ IsPrefix(vbody[v], vbody'[v])
           /\ Filled(q) => vbody'[v] = vbody[v]
<1>1. Stutters \/ \E r \in Reqs : Kinds(r)
  BY StepKinds DEF SInv, IInv
<1>2. TypeOK /\ OneOwner /\ v # NoVid /\ vbody[v] \in Seq(Block)
  BY BoundAssumption DEF SInv, IInv, TypeOK, Vids, NoVid
<1>. DEFINE Grows == /\ IsPrefix(vbody[v], vbody'[v])
                     /\ Filled(q) => vbody'[v] = vbody[v]
<1>3. ASSUME vbody'[v] = vbody[v] PROVE Grows
  <2>1. NoFile \in Seq(Block) \/ Hole \in Block
    BY DEF Block
  <2>. QED
    BY <1>2, <1>3, <2>1, PrefixAppends DEF Block
<1>4. ASSUME NEW r \in Reqs, OpensVersion(r) \/ FillsVersion(r), vid[r] # v PROVE vbody'[v] = vbody[v]
  <2>1. \A c : vbody' = [vbody EXCEPT ![vid[r]] = c] => vbody'[v] = vbody[v]
    BY <1>2, <1>4 DEF TypeOK
  <2>2. OpensVersion(r) => \E c : vbody' = [vbody EXCEPT ![vid[r]] = c]
    BY DEF OpensVersion
  <2>3. FillsVersion(r) => vbody' = vbody \/ \E c : vbody' = [vbody EXCEPT ![vid[r]] = c]
    BY DEF FillsVersion
  <2>. QED
    BY <1>4, <2>1, <2>2, <2>3
<1>5. ASSUME NEW r \in Reqs, OpensVersion(r) \/ FillsVersion(r), vid[r] = v PROVE r = q
  BY <1>2, <1>5 DEF OneOwner, Copied, Settled, OpensVersion, FillsVersion
<1>6. ASSUME NEW r \in Reqs, OpensVersion(r), vid[r] = v PROVE FALSE
  BY <1>5, <1>6 DEF Copied, OpensVersion
<1>7. ASSUME FillsVersion(q) PROVE Grows
  <2>1. ~Filled(q)
    BY <1>7 DEF Filled, FillsVersion
  <2>2. CASE vbody' = vbody
    BY <1>3, <2>2
  <2>3. CASE vbody' # vbody
    <3>. DEFINE c == vbody[v]
                live == body[fd[q]]
    <3>1. Len(c) < Len(live) /\ vbody' = [vbody EXCEPT ![v] = Append(c, live[Len(c) + 1])] /\ fd[q] \in Reqs
      BY <1>7, <2>3 DEF FillsVersion
    <3>2. vbody'[v] = Append(c, live[Len(c) + 1]) /\ live \in Seq(Block)
      BY <1>2, <3>1 DEF TypeOK
    <3>. HIDE DEF live, c
    <3>3. Len(c) \in Nat /\ Len(live) \in Nat /\ c \in Seq(Block)
      BY <1>2, <3>2 DEF c
    <3>4. live[Len(c) + 1] \in Block
      BY <3>1, <3>2, <3>3
    <3>5. IsPrefix(c, vbody'[v])
      BY <3>2, <3>3, <3>4, PrefixAppends
    <3>. QED
      BY <2>1, <3>5 DEF c
  <2>. QED
    BY <2>2, <2>3
<1>8. ASSUME NEW r \in Reqs, Kinds(r), ~OpensVersion(r), ~FillsVersion(r) PROVE vbody' = vbody
  BY <1>8 DEF Kinds, Enters, Reads, ReadsOn, Puts, Copies, Opens, Writes, Advances, Aborts, Renames,
     OpensMeta, FillsMeta, Unlinks, UnlinksMeta, OpensMirror, FillsMirror
<1>9. Stutters => vbody' = vbody
  BY DEF Stutters
<1>. HIDE DEF Grows
<1>10. Grows
  BY <1>1, <1>3, <1>4, <1>5, <1>6, <1>7, <1>8, <1>9
<1>. QED
  BY <1>10 DEF Grows

\* The request a version is of stays that.
LEMMA OwnerStays ==
    ASSUME TypeOK, Control, [Next]_vars, NEW v \in Vids, NEW q \in Reqs, Settled(q), vid[q] = v
    PROVE  /\ vid'[q] = v /\ sum'[q] = sum[q]
           /\ Copied(q) => Copied(q)'
           /\ Filled(q) => Filled(q)'
<1>1. vid[q] # NoVid
  BY BoundAssumption DEF Vids, NoVid
<1>. QED
  BY <1>1, SettledStays

\* What is a beginning of an upload, or all of it, stays so.
LEMMA BeginningStays ==
    ASSUME TypeOK, Control, [Next]_vars, NEW v \in Vids, NEW c, BeginningOf(c, v)
    PROVE  \E q \in Reqs : Copied(q)' /\ vid'[q] = v /\ IsPrefix(c, sum'[q])
<1>1. PICK q \in Reqs : Copied(q) /\ vid[q] = v /\ IsPrefix(c, sum[q])
  BY DEF BeginningOf
<1>2. Settled(q)
  BY <1>1 DEF Copied
<1>. QED
  BY <1>1, <1>2, OwnerStays

LEMMA WholeStays ==
    ASSUME TypeOK, Control, [Next]_vars, NEW v \in Vids, NEW c, WholeOf(c, v)
    PROVE  \E q \in Reqs : Filled(q)' /\ vid'[q] = v /\ sum'[q] = c
<1>1. PICK q \in Reqs : Filled(q) /\ vid[q] = v /\ sum[q] = c
  BY DEF WholeOf
<1>2. Settled(q)
  BY <1>1 DEF Filled, Copied
<1>. QED
  BY <1>1, <1>2, OwnerStays

\* The bytes of a version begin those of the request it is of.
LEMMA VersionBeginsStep ==
    ASSUME SInv, SerialKeys = Keys, VersionWhole, [Next]_vars, NEW v \in Vids, vbody'[v] # <<>>
    PROVE  \E q \in Reqs : Copied(q)' /\ vid'[q] = v /\ IsPrefix(vbody'[v], sum'[q])
<1>1. Stutters \/ \E r \in Reqs : Kinds(r)
  BY StepKinds DEF SInv, IInv
<1>2. TypeOK /\ Control
  BY DEF SInv, IInv
<1>. DEFINE Begins == \E q \in Reqs : Copied(q)' /\ vid'[q] = v /\ IsPrefix(vbody'[v], sum'[q])
<1>3. ASSUME vbody'[v] = vbody[v] PROVE Begins
  <2>1. BeginningOf(vbody[v], v)
    BY <1>3 DEF VersionWhole
  <2>. QED
    BY <1>2, <1>3, <2>1, BeginningStays
<1>4. ASSUME NEW r \in Reqs, FillsVersion(r), vid[r] = v, vbody' # vbody PROVE Begins
  <2>. DEFINE c == vbody[v]
              d == sum[r]
  <2>1. /\ pc[r] = "copyfill" /\ op[r] \in PutOps /\ key[r] \in Keys /\ pc' = [pc EXCEPT ![r] = "copyfill"]
        /\ UNCHANGED <<op, vid, sum>> /\ Len(c) < Len(body[fd[r]])
        /\ vbody' = [vbody EXCEPT ![v] = Append(c, body[fd[r]][Len(c) + 1])]
    BY <1>4 DEF FillsVersion
  <2>2. last[key[r]] = r /\ v # NoVid
    BY <2>1, BoundAssumption DEF SInv, Sole, Mutating, MutatorOps, Final, Vids, NoVid
  <2>3. body[fd[r]] = d
    BY <2>1, <2>2 DEF SInv, LiveHeld, Standing, Renamed, MutatorOps
  <2>4. IsPrefix(c, d) /\ c \in Seq(Block) /\ d \in Seq(Block)
    BY <1>2, <1>4, <2>1, <2>2 DEF SInv, VersionHeld, TypeOK
  <2>5. vbody'[v] = Append(c, d[Len(c) + 1]) /\ pc'[r] = "copyfill" /\ Len(c) < Len(d)
    BY <1>2, <2>1, <2>3 DEF TypeOK
  <2>6. Copied(r)'
    BY <2>1, <2>5 DEF Copied, Settled
  <2>7. sum'[r] = d /\ vid'[r] = v
    BY <1>4, <2>1
  <2>. HIDE DEF c, d
  <2>8. IsPrefix(Append(c, d[Len(c) + 1]), d)
    BY <2>4, <2>5, PrefixGrows
  <2>. QED
    BY <2>5, <2>6, <2>7, <2>8
<1>5. ASSUME NEW r \in Reqs, OpensVersion(r) \/ FillsVersion(r), vid[r] # v PROVE vbody'[v] = vbody[v]
  <2>1. \A c : vbody' = [vbody EXCEPT ![vid[r]] = c] => vbody'[v] = vbody[v]
    BY <1>2, <1>5 DEF TypeOK
  <2>2. OpensVersion(r) => \E c : vbody' = [vbody EXCEPT ![vid[r]] = c]
    BY DEF OpensVersion
  <2>3. FillsVersion(r) => vbody' = vbody \/ \E c : vbody' = [vbody EXCEPT ![vid[r]] = c]
    BY DEF FillsVersion
  <2>. QED
    BY <1>5, <2>1, <2>2, <2>3
<1>6. ASSUME NEW r \in Reqs, OpensVersion(r), vid[r] = v PROVE FALSE
  BY <1>2, <1>6 DEF OpensVersion, TypeOK
<1>7. ASSUME NEW r \in Reqs, Kinds(r), ~OpensVersion(r), ~FillsVersion(r) PROVE vbody' = vbody
  BY <1>7 DEF Kinds, Enters, Reads, ReadsOn, Puts, Copies, Opens, Writes, Advances, Aborts, Renames,
     OpensMeta, FillsMeta, Unlinks, UnlinksMeta, OpensMirror, FillsMirror
<1>8. Stutters => vbody' = vbody
  BY DEF Stutters
<1>. HIDE DEF Begins
<1>9. Begins
  BY <1>1, <1>3, <1>4, <1>5, <1>6, <1>7, <1>8
<1>. QED
  BY <1>9 DEF Begins

\* A version that has its metadata has all of them.
LEMMA VersionFilledStep ==
    ASSUME SInv, SerialKeys = Keys, VersionWhole, [Next]_vars, NEW v \in Vids, vinfo'[v] # Empty
    PROVE  \E q \in Reqs : Filled(q)' /\ vid'[q] = v /\ sum'[q] = vbody'[v]
<1>1. TypeOK /\ Control /\ v # NoVid
  BY BoundAssumption DEF SInv, IInv, Vids, NoVid
<1>2. CASE vinfo'[v] = vinfo[v]
  <2>1. WholeOf(vbody[v], v)
    BY <1>2 DEF VersionWhole
  <2>2. \E q \in Reqs : Filled(q)' /\ vid'[q] = v /\ sum'[q] = vbody[v]
    BY <1>1, <2>1, WholeStays
  <2>3. PICK q \in Reqs : Filled(q) /\ vid[q] = v
    BY <2>1 DEF WholeOf
  <2>4. vbody'[v] = vbody[v]
    BY <2>3, VersionGrows DEF Filled
  <2>. QED
    BY <2>2, <2>4
<1>3. ASSUME NEW r \in Reqs, vid[r] = v, VersionMeta(r)
      PROVE  vinfo'[v] = vinfo[v]
  <2>1. CASE ~vdir[key[r]]
    BY <1>3, <2>1 DEF VersionMeta
  <2>2. CASE vdir[key[r]]
    <3>1. vinfo' = [vinfo EXCEPT ![v] = Empty]
      BY <1>3, <2>2 DEF VersionMeta
    <3>. QED
      BY <1>1, <3>1 DEF TypeOK
  <2>. QED
    BY <2>1, <2>2
<1>4. ASSUME NEW r \in Reqs, vid[r] = v, op[r] \in PutOps, VersionMetaFill(r)
      PROVE  \E q \in Reqs : Filled(q)' /\ vid'[q] = v /\ sum'[q] = vbody'[v]
  <2>1. /\ vbody' = vbody /\ sum' = sum /\ op' = op /\ vid' = vid
        /\ pc[r] = "vmetafill" /\ pc' = [pc EXCEPT ![r] = "meta"]
    BY <1>4 DEF VersionMetaFill, Goto, reqVars
  <2>2. pc'[r] = "meta" /\ Filled(r)'
    BY <1>1, <1>4, <2>1 DEF TypeOK, Filled, Copied, Settled
  <2>3. key[r] \in SerialKeys
    BY <1>1, <1>4 DEF Control, MutatorOps
  <2>4. vbody[v] = sum[r]
    BY <1>1, <1>4, <2>1, <2>3 DEF SInv, VersionHeld
  <2>. QED
    BY <1>4, <2>1, <2>2, <2>4
<1>. QED
  BY <1>1, <1>2, <1>3, <1>4, InfoSteps

LEMMA VersionWholeStep ==
    ASSUME SInv, SerialKeys = Keys, VersionWhole, [Next]_vars
    PROVE  VersionWhole'
<1>1. ASSUME NEW v \in Vids, vbody'[v] # <<>> PROVE BeginningOf(vbody[v], v)'
  BY <1>1, VersionBeginsStep DEF BeginningOf
<1>2. ASSUME NEW v \in Vids, vinfo'[v] # Empty PROVE WholeOf(vbody[v], v)'
  BY <1>2, VersionFilledStep DEF WholeOf
<1>. QED
  BY <1>1, <1>2 DEF VersionWhole

\* What a step is to request q: nothing that a reader sees, the step of a
\* handler past the upload, or the step of a reader.
Bystands(q) ==
    /\ pc'[q] = pc[q] /\ op'[q] = op[q] /\ key'[q] = key[q] /\ vid'[q] = vid[q]
    /\ from'[q] = from[q] /\ src'[q] = src[q] /\ fd'[q] = fd[q] /\ sum'[q] = sum[q]

Proceeds(q) ==
    /\ op'[q] = "copy" /\ op[q] = "copy" /\ sum'[q] = sum[q]
    /\ pc'[q] = "failed" \/ (pc[q] \in {"rename"} \cup Renamed /\ pc'[q] \in Renamed)

ReaderSteps(q) ==
    \/ Bystands(q) \/ Proceeds(q) \/ op'[q] \notin {"copy", "get", "getVersion"}
    \/ (\E k \in Keys : GetObject(q, k) \/ GetObjectVersion(q, k) \/ (\E k0 \in Keys : CopyObject(q, k0, k)))
    \/ CopyWriter(q) \/ CopyBlock(q) \/ EndGet(q)

\* Every step of the store is one of these to every request.
LEMMA ReaderStepKinds ==
    ASSUME TypeOK, Control, [Next]_vars, NEW q \in Reqs
    PROVE  ReaderSteps(q)
<1>. DEFINE Fields(r) ==
        /\ \E next : pc' = [pc EXCEPT ![r] = next]
        /\ op' = op \/ \E o : op' = [op EXCEPT ![r] = o]
        /\ key' = key \/ \E k : key' = [key EXCEPT ![r] = k]
        /\ vid' = vid \/ \E v : vid' = [vid EXCEPT ![r] = v]
        /\ from' = from \/ \E i : from' = [from EXCEPT ![r] = i]
        /\ src' = src \/ \E v : src' = [src EXCEPT ![r] = v]
        /\ fd' = fd \/ \E i : fd' = [fd EXCEPT ![r] = i]
        /\ sum' = sum \/ \E c : sum' = [sum EXCEPT ![r] = c]
<1>1. ASSUME NEW r \in Reqs, r # q, Fields(r) PROVE Bystands(q)
  BY <1>1 DEF Bystands, TypeOK
<1>. HIDE DEF Fields
<1>. USE DEF ReaderSteps
<1>2. ASSUME NEW r \in Reqs, NEW k \in Keys, PutObjectWriter(r, k) PROVE ReaderSteps(q)
  <2>1. Fields(r) /\ op' = [op EXCEPT ![r] = "put"]
    BY <1>2 DEF PutObjectWriter, OpenUpload, Begin, Fields
  <2>2. op'[r] = "put"
    BY <2>1 DEF TypeOK
  <2>. QED
    BY <1>1, <2>1, <2>2
<1>3. ASSUME NEW r \in Reqs, NEW k \in Keys, DeleteObject(r, k) PROVE ReaderSteps(q)
  <2>1. Fields(r) /\ op' = [op EXCEPT ![r] = "delete"]
    BY <1>3 DEF DeleteObject, Begin, Fields
  <2>2. op'[r] = "delete"
    BY <2>1 DEF TypeOK
  <2>. QED
    BY <1>1, <2>1, <2>2
<1>4. ASSUME NEW r \in Reqs, NEW k \in Keys, DeleteVersion(r, k) PROVE ReaderSteps(q)
  <2>1. Fields(r) /\ op' = [op EXCEPT ![r] = "deleteVersion"]
    BY <1>4 DEF DeleteVersion, Begin, Fields
  <2>2. op'[r] = "deleteVersion"
    BY <2>1 DEF TypeOK
  <2>. QED
    BY <1>1, <2>1, <2>2
<1>5. ASSUME NEW r \in Reqs, NEW m \in {"Enabled", "Suspended"}, PutVersioning(r, m)
          PROVE ReaderSteps(q)
  <2>1. Fields(r) /\ op' = [op EXCEPT ![r] = "putVersioning"]
    BY <1>5 DEF PutVersioning, Begin, Fields
  <2>2. op'[r] = "putVersioning"
    BY <2>1 DEF TypeOK
  <2>. QED
    BY <1>1, <2>1, <2>2
<1>6. ASSUME NEW r \in Reqs, NEW k \in Keys, GetObject(r, k) \/ GetObjectVersion(r, k)
          PROVE ReaderSteps(q)
  <2>1. Fields(r)
    BY <1>6 DEF GetObject, GetObjectVersion, Begin, Fields
  <2>. QED
    BY <1>1, <1>6, <2>1
<1>7. ASSUME NEW r \in Reqs, NEW k0 \in Keys, NEW k \in Keys, CopyObject(r, k0, k) PROVE ReaderSteps(q)
  <2>1. Fields(r)
    BY <1>7 DEF CopyObject, Begin, Fields
  <2>. QED
    BY <1>1, <1>7, <2>1
<1>8. ASSUME NEW r \in Reqs, CopyWriter(r) PROVE ReaderSteps(q)
  <2>1. Fields(r)
    BY <1>8 DEF CopyWriter, OpenUpload, Goto, Fields
  <2>. QED
    BY <1>1, <1>8, <2>1
<1>9. ASSUME NEW r \in Reqs, CopyBlock(r) PROVE ReaderSteps(q)
  <2>1. pc' = pc => pc' = [pc EXCEPT ![r] = pc[r]]
    BY DEF TypeOK
  <2>2. Fields(r)
    BY <1>9, <2>1 DEF CopyBlock, Goto, reqVars, Fields
  <2>. QED
    BY <1>1, <1>9, <2>2
<1>10. ASSUME NEW r \in Reqs, EndGet(r) PROVE ReaderSteps(q)
  <2>1. Fields(r)
    BY <1>10 DEF EndGet, Goto, reqVars, Fields
  <2>. QED
    BY <1>1, <1>10, <2>1
<1>11. ASSUME NEW r \in Reqs, WriteBlock(r) PROVE ReaderSteps(q)
  <2>1. pc' = pc => pc' = [pc EXCEPT ![r] = pc[r]]
    BY DEF TypeOK
  <2>2. Fields(r) /\ op'[r] = "put"
    BY <1>11, <2>1 DEF WriteBlock, reqVars, Fields, Control
  <2>. QED
    BY <1>1, <2>2
<1>12. ASSUME NEW r \in Reqs, Abort(r) \/ Abandon(r) PROVE ReaderSteps(q)
  <2>1. Fields(r) /\ UNCHANGED <<op, sum>> /\ pc'[r] = "failed"
            /\ op[r] \in {"put", "copy"} \cup MutatorOps \cup {"putVersioning"}
    BY <1>12 DEF Abort, Abandon, Goto, reqVars, Fields, Control, TypeOK
  <2>2. op'[r] \notin {"get", "getVersion"}
    BY <2>1 DEF MutatorOps, PutOps
  <2>3. op[r] = "copy" => Proceeds(r)
    BY <2>1 DEF Proceeds
  <2>. QED
    BY <1>1, <2>1, <2>2, <2>3
\* The steps of a handler past the upload.
<1>13. ASSUME NEW r \in Reqs, Fields(r), UNCHANGED op, op[r] = "copy" => sum' = sum,
              op[r] \notin {"get", "getVersion"},
              op[r] = "copy" => pc'[r] = "failed" \/ (pc[r] \in {"rename"} \cup Renamed /\ pc'[r] \in Renamed)
       PROVE  ReaderSteps(q)
  BY <1>1, <1>13 DEF Proceeds
<1>14. ASSUME NEW r \in Reqs, Rename(r) PROVE ReaderSteps(q)
  <2>1. Fields(r) /\ UNCHANGED <<op, sum>>
    BY <1>14 DEF Rename, Goto, reqVars, Fields
  <2>2. pc[r] \in {"body", "rename"} /\ pc'[r] \in {"failed", "version", "meta"} /\ op[r] \in PutOps
        /\ (op[r] = "copy" => pc[r] = "rename")
    BY <1>14 DEF Rename, Goto, Control, TypeOK, PutOps
  <2>. QED
    BY <1>13, <2>1, <2>2 DEF PutOps, Renamed
<1>15. ASSUME NEW r \in Reqs,
           PutVersion(r) \/ CopyOpen(r) \/ CopyFill(r) \/ VersionMeta(r) \/ VersionMetaFill(r)
       PROVE  ReaderSteps(q)
  <2>3. pc' = pc => pc' = [pc EXCEPT ![r] = pc[r]]
    BY DEF TypeOK
  <2>1. Fields(r) /\ UNCHANGED <<op, sum>>
    BY <1>15, <2>3 DEF PutVersion, NewVersion, CopyOpen, CopyFill, VersionMeta, VersionMetaFill, Goto,
        reqVars, Fields
  <2>2. pc[r] \in {"version", "copy", "copyfill", "vmeta", "vmetafill"}
        /\ pc'[r] \in {"failed", "copy", "copyfill", "vmeta", "vmetafill", "meta"}
    BY <1>15 DEF PutVersion, NewVersion, CopyOpen, CopyFill, VersionMeta, VersionMetaFill, Goto, TypeOK
  <2>4. op[r] \in PutOps
    BY <2>2 DEF Control
  <2>. QED
    BY <1>13, <2>1, <2>2, <2>4 DEF PutOps, Renamed
<1>16. ASSUME NEW r \in Reqs, MetaCreate(r) \/ MetaFill(r) PROVE ReaderSteps(q)
  <2>1. Fields(r) /\ UNCHANGED <<op, sum>>
    BY <1>16 DEF MetaCreate, MetaFill, Goto, reqVars, Fields
  <2>2. pc[r] \in {"meta", "metafill"} /\ pc'[r] \in {"failed", "metafill", "ok", "tidy"}
        /\ (op[r] \in PutOps => pc'[r] # "tidy")
    BY <1>16 DEF MetaCreate, MetaFill, Goto, TypeOK, PutOps
  <2>3. op[r] \in PutOps \cup {"deleteVersion"}
    BY <2>2 DEF Control
  <2>. QED
    BY <1>13, <2>1, <2>2, <2>3 DEF PutOps, Renamed
<1>17. ASSUME NEW r \in Reqs,
              MarkerVersion(r) \/ CreateMarker(r) \/ UnlinkData(r) \/ UnlinkMeta(r) \/ PurgeRest(r) \/ Scan(r)
              \/ MirrorOpen(r) \/ MirrorFill(r) \/ Tidy(r) \/ PutVersioningFill(r)
       PROVE  ReaderSteps(q)
  <2>4. pc' = pc => pc' = [pc EXCEPT ![r] = pc[r]]
    BY DEF TypeOK
  <2>1. Fields(r) /\ op' = op
    BY <1>17, <2>4 DEF MarkerVersion, NewVersion, CreateMarker, UnlinkData, UnlinkMeta, PurgeRest, Scan,
       MirrorOpen, MirrorFill, Tidy, PutVersioningFill, Goto, reqVars, Fields
  <2>2. pc[r] \in {"marker", "markfile", "unlink", "unlinkmeta", "purge", "scan", "mirror", "mirrorfill", "tidy", "config"}
    BY <1>17 DEF MarkerVersion, CreateMarker, UnlinkData, UnlinkMeta, PurgeRest, Scan,
       MirrorOpen, MirrorFill, Tidy, PutVersioningFill
  <2>3. op[r] \in {"delete", "deleteVersion", "putVersioning"}
    BY <2>2 DEF Control
  <2>. QED
    BY <1>13, <2>1, <2>3
<1>18. CASE Served \/ UNCHANGED vars
  BY <1>18 DEF Served, vars, reqVars, Bystands
<1>. HIDE DEF ReaderSteps
<1>. QED
  BY <1>2, <1>3, <1>4, <1>5, <1>6, <1>7, <1>8, <1>9, <1>10, <1>11, <1>12, <1>14, <1>15, <1>16, <1>17,
      <1>18
     DEF Next, Receive, Handle, FinishCopy

\* One block of a copy.
LEMMA CopyBlockReads ==
    ASSUME SInv, "deleteVersion" \notin Ops, ReadersWhole, [Next]_vars, NEW q \in Reqs, CopyBlock(q)
    PROVE  op'[q] = "copy" /\ CopyReads(q)'
<1>1. TypeOK /\ Control
  BY DEF SInv, IInv
<1>2. pc[q] = "blocks" /\ op[q] = "copy" /\ CopyReads(q) /\ from[q] \in Reqs
  BY <1>1 DEF CopyBlock, Control, ReadersWhole
<1>3. PICK i \in Reqs : i = from[q]
  BY <1>2
<1>. DEFINE c == body[i]
            n == Len(sum[q])
<1>4. /\ Sealed(i) /\ Sent(c) /\ n <= Len(c) /\ \A j \in 1..n : sum[q][j] = c[j]
      /\ c \in Seq(Block) /\ sum[q] \in Seq(Block)
  BY <1>1, <1>2, <1>3 DEF CopyReads, TypeOK
<1>5. Sealed(i)' /\ body'[i] = body[i]
  BY <1>4, SealedStays
<1>6. PICK x \in Reqs : Settled(x)' /\ op'[x] = "put" /\ sum'[x] = body[i]
  BY <1>1, <1>4, SentStays
<1>7. op'[q] = "copy" /\ from'[q] = i
  BY <1>1, <1>2, <1>3 DEF CopyBlock, reqVars
<1>8. CASE n < Len(c)
  <2>1. pc'[q] = "blocks" /\ sum'[q] = Append(sum[q], c[n + 1])
    BY <1>1, <1>2, <1>3, <1>8 DEF CopyBlock, TypeOK
  <2>2. n \in Nat /\ Len(c) \in Nat /\ c[n + 1] \in Block
    BY <1>4, <1>8
  <2>3. Len(sum'[q]) = n + 1 /\ Len(sum'[q]) <= Len(c)
    BY <1>4, <1>8, <2>1, <2>2
  <2>4. \A j \in 1..(n + 1) : sum'[q][j] = c[j]
    <3>1. \A j \in 1..n : sum'[q][j] = sum[q][j]
      BY <1>4, <2>1, <2>2
    <3>2. sum'[q][n + 1] = c[n + 1]
      BY <1>4, <2>1, <2>2
    <3>. QED
      BY <1>4, <2>2, <3>1, <3>2
  <2>. HIDE DEF c, n
  <2>5. body'[from'[q]] = c /\ Sealed(from[q])' /\ Sent(body[from[q]])'
    BY <1>5, <1>6, <1>7 DEF Sent, c, Sealed
  <2>. QED
    BY <1>7, <2>1, <2>3, <2>4, <2>5 DEF CopyReads, Renamed
<1>9. CASE ~(n < Len(c))
  <2>1. pc'[q] = "rename" /\ sum'[q] = sum[q]
    BY <1>1, <1>2, <1>3, <1>9 DEF CopyBlock, Goto, TypeOK
  <2>2. n = Len(c)
    BY <1>4, <1>9
  <2>3. sum[q] = c
    BY <1>4, <2>2
  <2>4. Sent(sum[q])'
    BY <1>6, <2>1, <2>3 DEF Sent
  <2>. QED
    BY <1>7, <2>1, <2>4 DEF CopyReads
<1>. QED
  BY <1>8, <1>9

\* The end of a GET.
LEMMA EndGetReads ==
    ASSUME SInv, ReadersWhole, [Next]_vars, NEW q \in Reqs, EndGet(q)
    PROVE  /\ op'[q] = op[q] /\ op[q] # "copy" /\ pc'[q] = "ok"
           /\ op[q] = "get" => GetReads(q)'
           /\ op[q] = "getVersion" => GetVersionReads(q)'
<1>1. TypeOK /\ Control
  BY DEF SInv, IInv
<1>2. pc[q] = "stream" /\ op[q] \in {"get", "getVersion"} /\ op'[q] = op[q] /\ pc'[q] = "ok"
          /\ vid'[q] = vid[q] /\ key'[q] = key[q]
  BY <1>1 DEF EndGet, Control, Goto, reqVars, TypeOK
<1>3. CASE op[q] = "get"
  <2>1. Uploaded(sum[q], key[q]) /\ body[fd[q]] = sum[q]
    BY <1>2, <1>3 DEF ReadersWhole, GetReads
  <2>2. sum'[q] = SubSeq(sum[q], 1, Len(sum[q])) /\ sum[q] \in Seq(Block)
    BY <1>1, <1>3, <2>1 DEF EndGet, Contents, TypeOK
  <2>3. sum'[q] = sum[q]
    BY <2>2, SubSeqFull
  <2>4. \E x \in Reqs : Settled(x)' /\ key'[x] = key[q] /\ sum'[x] = sum[q]
    BY <1>1, <2>1, UploadedStays
  <2>. QED
    BY <1>2, <1>3, <2>3, <2>4 DEF GetReads, Uploaded
<1>4. CASE op[q] = "getVersion"
  <2>. DEFINE c == vbody[vid[q]]
  <2>1. sum'[q] = SubSeq(c, 1, IF Len(sum[q]) < Len(c) THEN Len(sum[q]) ELSE Len(c))
            /\ sum[q] \in Seq(Block)
    BY <1>1, <1>4 DEF EndGet, Contents, TypeOK
  <2>2. vid[q] \in Vids /\ c \in Seq(Block)
    BY <1>1, <1>2, <1>4 DEF Control, TypeOK
  <2>3. GetVersionReads(q) /\ src'[q] = src[q]
    BY <1>4 DEF ReadersWhole, EndGet, reqVars
  <2>4. sum'[q] = sum[q]
    <3>1. CASE sum[q] = <<>>
      <4>1. Len(sum[q]) = 0 /\ Len(c) \in Nat
        BY <2>2, <3>1
      <4>2. sum'[q] = SubSeq(c, 1, 0)
        BY <2>1, <4>1
      <4>. QED
        BY <2>2, <3>1, <4>2
    <3>2. CASE sum[q] # <<>>
      <4>1. IsPrefix(sum[q], c)
        BY <1>2, <2>3, <3>2 DEF GetVersionReads
      <4>2. Len(sum[q]) <= Len(c) /\ SubSeq(sum[q], 1, Len(sum[q])) = SubSeq(c, 1, Len(sum[q]))
        BY <4>1 DEF IsPrefix
      <4>3. Len(sum[q]) \in Nat /\ Len(c) \in Nat
        BY <2>1, <2>2
      <4>. HIDE DEF c
      <4>4. (IF Len(sum[q]) < Len(c) THEN Len(sum[q]) ELSE Len(c)) = Len(sum[q])
        BY <4>2, <4>3
      <4>. QED
        BY <2>1, <4>2, <4>4, SubSeqFull
    <3>. QED
      BY <3>1, <3>2
  <2>5. ASSUME sum[q] # <<>>
        PROVE  \E x \in Reqs : Copied(x)' /\ vid'[x] = vid[q] /\ IsPrefix(sum[q], sum'[x])
    <3>1. BeginningOf(sum[q], vid[q])
      BY <1>2, <2>3, <2>5 DEF GetVersionReads
    <3>. QED
      BY <1>1, <2>2, <3>1, BeginningStays
  <2>6. ASSUME src[q] # NoVid
        PROVE  \E x \in Reqs : Filled(x)' /\ vid'[x] = vid[q] /\ sum'[x] = sum[q]
    <3>1. WholeOf(sum[q], vid[q])
      BY <1>2, <2>3, <2>6 DEF GetVersionReads
    <3>. QED
      BY <1>1, <2>2, <3>1, WholeStays
  <2>. QED
    BY <1>2, <1>4, <2>2, <2>3, <2>4, <2>5, <2>6 DEF GetVersionReads, BeginningOf, WholeOf
<1>. QED
  BY <1>2, <1>3, <1>4

\* A reader that waits while another handler acts.
LEMMA BystanderReads ==
    ASSUME SInv, "deleteVersion" \notin Ops, VersionWhole, ReadersWhole, [Next]_vars, NEW q \in Reqs,
        Bystands(q)
    PROVE  /\ op[q] = "copy" => CopyReads(q)'
           /\ op[q] = "get" => GetReads(q)'
           /\ op[q] = "getVersion" => GetVersionReads(q)'
<1>1. TypeOK /\ Control
  BY DEF SInv, IInv
<1>2. ASSUME op[q] = "copy" PROVE CopyReads(q)'
  <2>1. CopyReads(q)
    BY <1>2 DEF ReadersWhole
  <2>2. ASSUME pc[q] \in {"writer", "blocks"}
        PROVE  Sealed(from[q])' /\ Sent(body[from[q]])' /\ body'[from'[q]] = body[from[q]]
    <3>1. PICK i : i = from[q]
      OBVIOUS
    <3>2. Sealed(i) /\ Sent(body[i])
      BY <2>1, <2>2, <3>1 DEF CopyReads
    <3>3. Sealed(i)' /\ body'[i] = body[i]
      BY <3>2, SealedStays
    <3>4. \E x \in Reqs : Settled(x)' /\ op'[x] = "put" /\ sum'[x] = body[i]
      BY <1>1, <3>2, SentStays
    <3>5. from'[q] = i
      BY <3>1 DEF Bystands
    <3>. QED
      BY <3>1, <3>3, <3>4, <3>5 DEF Sent, Sealed
  <2>3. ASSUME pc[q] \in {"rename"} \cup Renamed PROVE Sent(sum[q])'
    <3>1. Sent(sum[q])
      BY <2>1, <2>3 DEF CopyReads
    <3>2. \E x \in Reqs : Settled(x)' /\ op'[x] = "put" /\ sum'[x] = sum[q]
      BY <1>1, <3>1, SentStays
    <3>. QED
      BY <3>2 DEF Sent, Bystands
  <2>. QED
    BY <2>1, <2>2, <2>3 DEF CopyReads, Bystands
<1>3. ASSUME op[q] = "get" PROVE GetReads(q)'
  <2>1. GetReads(q)
    BY <1>3 DEF ReadersWhole
  <2>2. ASSUME pc[q] \in {"stream", "ok"} PROVE Uploaded(sum[q], key[q])'
    <3>1. Uploaded(sum[q], key[q])
      BY <2>1, <2>2 DEF GetReads
    <3>2. \E x \in Reqs : Settled(x)' /\ key'[x] = key[q] /\ sum'[x] = sum[q]
      BY <1>1, <3>1, UploadedStays
    <3>. QED
      BY <3>2 DEF Uploaded, Bystands
  <2>3. ASSUME pc[q] = "stream" PROVE Sealed(fd[q])' /\ body'[fd'[q]] = sum'[q]
    <3>1. PICK i : i = fd[q]
      OBVIOUS
    <3>2. Sealed(i) /\ body[i] = sum[q]
      BY <2>1, <2>3, <3>1 DEF GetReads
    <3>3. Sealed(i)' /\ body'[i] = body[i]
      BY <3>2, SealedStays
    <3>4. fd'[q] = i /\ sum'[q] = sum[q]
      BY <3>1 DEF Bystands
    <3>. QED
      BY <3>2, <3>3, <3>4 DEF Sealed
  <2>. QED
    BY <2>2, <2>3 DEF GetReads, Bystands
<1>4. ASSUME op[q] = "getVersion" PROVE GetVersionReads(q)'
  <2>1. /\ GetVersionReads(q) /\ vid'[q] = vid[q] /\ sum'[q] = sum[q] /\ pc'[q] = pc[q]
        /\ src'[q] = src[q]
    BY <1>4 DEF ReadersWhole, Bystands
  <2>2. ASSUME pc[q] \in {"stream", "ok"}, sum[q] # <<>>
        PROVE  /\ vid[q] \in Vids
               /\ \E x \in Reqs : Copied(x)' /\ vid'[x] = vid[q] /\ IsPrefix(sum[q], sum'[x])
               /\ pc[q] = "stream" => IsPrefix(sum[q], vbody'[vid[q]])
    <3>1. vid[q] \in Vids /\ BeginningOf(sum[q], vid[q])
      BY <2>1, <2>2 DEF GetVersionReads
    <3>2. \E x \in Reqs : Copied(x)' /\ vid'[x] = vid[q] /\ IsPrefix(sum[q], sum'[x])
      BY <1>1, <3>1, BeginningStays
    <3>3. PICK x \in Reqs : Copied(x) /\ vid[x] = vid[q]
      BY <3>1 DEF BeginningOf
    <3>4. IsPrefix(vbody[vid[q]], vbody'[vid[q]])
      BY <3>1, <3>3, VersionGrows
    <3>7. TypeOK'
      BY TypeStep DEF SInv
    <3>5. sum[q] \in Seq(Block) /\ vbody[vid[q]] \in Seq(Block) /\ vbody'[vid[q]] \in Seq(Block)
      BY <1>1, <3>1, <3>7 DEF TypeOK
    <3>6. pc[q] = "stream" => IsPrefix(sum[q], vbody'[vid[q]])
      BY <2>1, <2>2, <3>4, <3>5, PrefixOfPrefix DEF GetVersionReads
    <3>. QED
      BY <3>1, <3>2, <3>6
  <2>3. ASSUME pc[q] \in {"stream", "ok"}, src[q] # NoVid
        PROVE  /\ vid[q] \in Vids
               /\ \E x \in Reqs : Filled(x)' /\ vid'[x] = vid[q] /\ sum'[x] = sum[q]
               /\ pc[q] = "stream" => vbody'[vid[q]] = sum[q]
    <3>1. vid[q] \in Vids /\ WholeOf(sum[q], vid[q])
      BY <2>1, <2>3 DEF GetVersionReads
    <3>2. \E x \in Reqs : Filled(x)' /\ vid'[x] = vid[q] /\ sum'[x] = sum[q]
      BY <1>1, <3>1, WholeStays
    <3>3. PICK x \in Reqs : Filled(x) /\ vid[x] = vid[q]
      BY <3>1 DEF WholeOf
    <3>4. vbody'[vid[q]] = vbody[vid[q]]
      BY <3>1, <3>3, VersionGrows DEF Filled
    <3>. QED
      BY <2>1, <2>3, <3>1, <3>2, <3>4 DEF GetVersionReads
  <2>. QED
    BY <2>1, <2>2, <2>3 DEF GetVersionReads, BeginningOf, WholeOf
<1>. QED
  BY <1>2, <1>3, <1>4

\* A reader that begins.
LEMMA BegunReads ==
    ASSUME SInv, "deleteVersion" \notin Ops, SerialKeys = Keys, LiveWhole, VersionWhole, [Next]_vars,
           NEW q \in Reqs, NEW k \in Keys,
           GetObject(q, k) \/ GetObjectVersion(q, k) \/ (\E k0 \in Keys : CopyObject(q, k0, k))
    PROVE  /\ op'[q] = "copy" => CopyReads(q)'
           /\ op'[q] = "get" => GetReads(q)'
           /\ op'[q] = "getVersion" => GetVersionReads(q)'
<1>1. TypeOK /\ Control
  BY DEF SInv, IInv
<1>2. CASE GetObject(q, k)
  <2>1. op'[q] = "get" /\ key'[q] = k
    BY <1>1, <1>2 DEF GetObject, Begin, TypeOK
  <2>2. CASE data[k] = NoFile
    <3>1. pc'[q] = "failed"
      BY <1>1, <1>2, <2>2 DEF GetObject, Begin, TypeOK
    <3>. QED
      BY <2>1, <3>1 DEF GetReads
  <2>3. CASE data[k] # NoFile
    <3>1. PICK i : i = data[k]
      OBVIOUS
    <3>2. fd'[q] = i /\ sum'[q] = body[i]
      BY <1>1, <1>2, <2>3, <3>1 DEF GetObject, TypeOK
    <3>3. Sealed(i)' /\ body'[i] = body[i]
      BY <2>3, <3>1, LiveSealed, SealedStays
    <3>4. \E x \in Reqs : Settled(x)' /\ key'[x] = k /\ sum'[x] = body[i]
      BY <1>1, <2>3, <3>1, UploadedStays DEF LiveWhole
    <3>5. Sealed(fd[q])' /\ body'[fd'[q]] = sum'[q]
      BY <3>2, <3>3 DEF Sealed
    <3>. QED
      BY <2>1, <3>2, <3>4, <3>5 DEF GetReads, Uploaded
  <2>. QED
    BY <2>2, <2>3
<1>3. CASE GetObjectVersion(q, k)
  <2>1. PICK v \in Entries(k) \cup {NoVid} :
          /\ op' = [op EXCEPT ![q] = "getVersion"]
          /\ pc' = [pc EXCEPT ![q] = IF v \in vdata[k] \ vmark[k] THEN "stream" ELSE "failed"]
          /\ vid' = [vid EXCEPT ![q] = v]
          /\ sum' = [sum EXCEPT ![q] = IF v \in vdata[k] \ vmark[k] THEN vbody[v] ELSE <<>>]
          /\ src' = [src EXCEPT ![q] = IF v \in vdata[k] \ vmark[k] /\ Described(k, v) THEN v ELSE NoVid]
          /\ vbody' = vbody
    BY <1>3 DEF GetObjectVersion, Begin, fileVars, versionVars
  <2>2. op'[q] = "getVersion" /\ vid'[q] = v
    BY <1>1, <2>1 DEF TypeOK
  <2>3. CASE v \in vdata[k] \ vmark[k]
    <3>1. sum'[q] = vbody[v] /\ v \in Vids /\ (src'[q] # NoVid => Described(k, v))
          /\ vbody[v] \in Seq(Block)
      BY <1>1, <2>1, <2>3 DEF TypeOK
    <3>2. ASSUME vbody[v] # <<>>
          PROVE  \E x \in Reqs : Copied(x)' /\ vid'[x] = v /\ IsPrefix(vbody[v], sum'[x])
      <4>1. BeginningOf(vbody[v], v)
        BY <3>1, <3>2 DEF VersionWhole
      <4>. QED
        BY <1>1, <3>1, <4>1, BeginningStays
    <3>3. ASSUME src'[q] # NoVid
          PROVE  \E x \in Reqs : Filled(x)' /\ vid'[x] = v /\ sum'[x] = vbody[v]
      <4>1. WholeOf(vbody[v], v)
        BY <3>1, <3>3 DEF VersionWhole, Described
      <4>. QED
        BY <1>1, <3>1, <4>1, WholeStays
    <3>4. IsPrefix(vbody[v], vbody[v])
      <4>1. Hole \in Block
        BY DEF Block
      <4>. QED
        BY <3>1, <4>1, PrefixAppends
    <3>. QED
      BY <2>1, <2>2, <3>1, <3>2, <3>3, <3>4 DEF GetVersionReads, BeginningOf, WholeOf
  <2>4. CASE v \notin vdata[k] \ vmark[k]
    <3>1. pc'[q] = "failed"
      BY <1>1, <2>1, <2>4 DEF TypeOK
    <3>. QED
      BY <2>2, <3>1 DEF GetVersionReads
  <2>. QED
    BY <2>3, <2>4
<1>4. ASSUME NEW k0 \in Keys, CopyObject(q, k0, k)
      PROVE  op'[q] = "copy" /\ CopyReads(q)'
  <2>1. op'[q] = "copy"
    BY <1>1, <1>4 DEF CopyObject, Begin, TypeOK
  <2>2. CASE data[k0] = NoFile
    <3>1. pc'[q] = "failed"
      BY <1>1, <1>4, <2>2 DEF CopyObject, Begin, TypeOK
    <3>. QED
      BY <2>1, <3>1 DEF CopyReads, Renamed
  <2>3. CASE data[k0] # NoFile
    <3>1. PICK i : i = data[k0]
      OBVIOUS
    <3>2. from'[q] = i /\ pc'[q] = "writer"
      BY <1>1, <1>4, <2>3, <3>1 DEF CopyObject, Begin, TypeOK
    <3>3. Sealed(i)' /\ body'[i] = body[i]
      BY <2>3, <3>1, LiveSealed, SealedStays
    <3>4. \E x \in Reqs : Settled(x)' /\ op'[x] = "put" /\ sum'[x] = body[i]
      BY <1>1, <2>3, <3>1, SentStays DEF LiveWhole
    <3>5. Sealed(from[q])' /\ Sent(body[from[q]])'
      BY <3>2, <3>3, <3>4 DEF Sealed, Sent
    <3>. QED
      BY <2>1, <3>2, <3>5 DEF CopyReads, Renamed
  <2>. QED
    BY <2>2, <2>3
<1>. QED
  BY <1>2, <1>3, <1>4

\* The upload of a copy is opened.
LEMMA CopyWriterReads ==
    ASSUME SInv, "deleteVersion" \notin Ops, ReadersWhole, [Next]_vars, NEW q \in Reqs, CopyWriter(q)
    PROVE  op'[q] = "copy" /\ CopyReads(q)'
<1>1. TypeOK /\ Control
  BY DEF SInv, IInv
<1>2. pc[q] = "writer" /\ op[q] = "copy" /\ CopyReads(q) /\ sum[q] = <<>>
  BY <1>1 DEF CopyWriter, Control, ReadersWhole, SInv, UploadHeld, Unborn
<1>3. PICK i : i = from[q]
  OBVIOUS
<1>4. Sealed(i) /\ Sent(body[i])
  BY <1>2, <1>3 DEF CopyReads
<1>5. Sealed(i)' /\ body'[i] = body[i]
  BY <1>4, SealedStays
<1>6. \E x \in Reqs : Settled(x)' /\ op'[x] = "put" /\ sum'[x] = body[i]
  BY <1>1, <1>4, SentStays
<1>7. op'[q] = "copy" /\ from'[q] = i /\ pc'[q] = "blocks" /\ sum'[q] = <<>>
  BY <1>1, <1>2, <1>3 DEF CopyWriter, Goto, TypeOK
<1>8. body[i] \in Seq(Block)
  BY <1>1, <1>4 DEF Sealed, TypeOK
<1>9. Len(sum'[q]) = 0 /\ 1..Len(sum'[q]) = {} /\ 0 <= Len(body[i])
  BY <1>7, <1>8
<1>10. Sealed(from[q])' /\ Sent(body[from[q]])'
  BY <1>5, <1>6, <1>7 DEF Sealed, Sent
<1>. QED
  BY <1>5, <1>7, <1>9, <1>10 DEF CopyReads, Renamed

\* What readers have, at any step.
LEMMA ReadersWholeStep ==
    ASSUME SInv, "deleteVersion" \notin Ops, SerialKeys = Keys, LiveWhole, VersionWhole, ReadersWhole,
        [Next]_vars
    PROVE  ReadersWhole'
<1>. SUFFICES ASSUME NEW q \in Reqs
              PROVE  /\ op'[q] = "copy" => CopyReads(q)'
                     /\ op'[q] = "get" => GetReads(q)'
                     /\ op'[q] = "getVersion" => GetVersionReads(q)'
  BY DEF ReadersWhole
<1>1. TypeOK /\ Control
  BY DEF SInv, IInv
<1>2. ReaderSteps(q)
  BY <1>1, ReaderStepKinds
<1>3. CASE Bystands(q)
  <2>1. op'[q] = op[q]
    BY <1>3 DEF Bystands
  <2>. QED
    BY <1>3, <2>1, BystanderReads
<1>4. CASE Proceeds(q)
  <2>1. op'[q] = "copy" /\ op[q] = "copy" /\ sum'[q] = sum[q] /\ CopyReads(q)
    BY <1>4 DEF Proceeds, ReadersWhole
  <2>2. CASE pc'[q] = "failed"
    BY <2>1, <2>2 DEF CopyReads, Renamed
  <2>3. CASE pc[q] \in {"rename"} \cup Renamed /\ pc'[q] \in Renamed
    <3>1. \E x \in Reqs : Settled(x)' /\ op'[x] = "put" /\ sum'[x] = sum[q]
      BY <1>1, <2>1, <2>3, SentStays DEF CopyReads
    <3>2. Sent(sum[q])'
      BY <2>1, <3>1 DEF Sent
    <3>. QED
      BY <2>1, <2>3, <3>2 DEF CopyReads, Renamed
  <2>. QED
    BY <1>4, <2>2, <2>3 DEF Proceeds
<1>5. CASE \E k \in Keys : GetObject(q, k) \/ GetObjectVersion(q, k) \/ (\E k0 \in Keys : CopyObject(q, k0, k))
  BY <1>5, BegunReads
<1>6. CASE CopyWriter(q)
  BY <1>6, CopyWriterReads
<1>7. CASE CopyBlock(q)
  BY <1>7, CopyBlockReads
<1>8. CASE EndGet(q)
  BY <1>8, EndGetReads
<1>. QED
  BY <1>2, <1>3, <1>4, <1>5, <1>6, <1>7, <1>8 DEF ReaderSteps

\* At first there are no files and no readers.
LEMMA InitWInv == Init => WInv
  BY DEF Init, WInv, LiveWhole, VersionWhole, ReadersWhole

\* Where no version is deleted and the mutating requests on each key come one
\* at a time, a GET serves the whole body of one upload, and a COPY stores one;
\* a GET of a version that is still being copied serves a beginning of it, and
\* all of it once it has its ETag (get_object, get_object_version and
\* copy_object, with the rename and the fs::copy of finish).
THEOREM ReadsAreWhole ==
    ASSUME "deleteVersion" \notin Ops, SerialKeys = Keys
    PROVE  Spec => []ServedWhole
<1>1. Init => SInv /\ WInv
  BY InitSInv, InitWInv
<1>2. SInv /\ WInv /\ [Next]_vars => WInv'
  BY LiveWholeStep, VersionWholeStep, ReadersWholeStep DEF WInv
<1>3. SInv /\ WInv => ServedWhole
  <2>. SUFFICES ASSUME WInv, NEW r \in Reqs, pc[r] = "ok"
                PROVE  /\ op[r] = "get" =>
                            \E q \in Reqs : op[q] \in PutOps /\ key[q] = key[r] /\ sum[q] = sum[r]
                       /\ op[r] = "copy" =>
                            \E q \in Reqs : op[q] = "put" /\ sum[q] = sum[r]
                       /\ op[r] = "getVersion" /\ sum[r] # <<>> =>
                            \E q \in Reqs :
                                op[q] \in PutOps /\ vid[q] = vid[r] /\ IsPrefix(sum[r], sum[q])
                       /\ op[r] = "getVersion" /\ src[r] # NoVid =>
                            \E q \in Reqs : op[q] \in PutOps /\ vid[q] = vid[r] /\ sum[q] = sum[r]
    BY DEF ServedWhole
  <2>1. op[r] = "get" => Uploaded(sum[r], key[r])
    BY DEF WInv, ReadersWhole, GetReads
  <2>2. op[r] = "copy" => Sent(sum[r])
    BY DEF WInv, ReadersWhole, CopyReads, Renamed
  <2>3. op[r] = "getVersion" /\ sum[r] # <<>> => BeginningOf(sum[r], vid[r])
    BY DEF WInv, ReadersWhole, GetVersionReads
  <2>4. op[r] = "getVersion" /\ src[r] # NoVid => WholeOf(sum[r], vid[r])
    BY DEF WInv, ReadersWhole, GetVersionReads
  <2>. QED
    BY <2>1, <2>2, <2>3, <2>4 DEF Uploaded, Sent, BeginningOf, WholeOf, Filled, Copied, Settled
<1>. QED
  BY <1>1, <1>2, <1>3, SInvariance, PTL DEF Spec

----------------------------------------------------------------------------
(* The files a listing of versions reads.                                  *)

\* What the listing of a serial key shows: of a version that is still being
\* made no metadata, with its data the metadata of that data, and metadata on
\* its own only where a client asked to delete the version and the handler
\* stopped.
Shown ==
    /\ \A r \in Reqs, k \in Keys :
        op[r] \in PutOps /\ pc[r] \in {"copy", "copyfill", "vmeta"} => vid[r] \notin vmeta[k]
    /\ \A k \in SerialKeys, v \in Vids :
        v \in vdata[k] /\ Described(k, v) => vinfo[v].etag = vbody[v]
    /\ \A k \in SerialKeys, v \in Vids : v \in vmeta[k] /\ v \notin Entries(k) =>
        \E q \in Reqs :
            /\ op[q] = "deleteVersion" /\ key[q] = k /\ vid[q] = v
            /\ pc[q] \in {"purge", "failed"}

\* Only the request a version is of writes its data.
LEMMA BytesSteps ==
    ASSUME TypeOK, Control, [Next]_vars, NEW v \in Vids
    PROVE  \/ vbody'[v] = vbody[v]
           \/ \E r \in Reqs : vid[r] = v /\ op[r] \in PutOps /\ pc[r] \in {"copy", "copyfill"}
<1>1. Stutters \/ \E r \in Reqs : Kinds(r)
  BY StepKinds
<1>2. ASSUME NEW r \in Reqs, OpensVersion(r) \/ FillsVersion(r), vid[r] # v PROVE vbody'[v] = vbody[v]
  BY <1>2 DEF OpensVersion, FillsVersion, TypeOK
<1>3. ASSUME NEW r \in Reqs, OpensVersion(r) \/ FillsVersion(r)
      PROVE  op[r] \in PutOps /\ pc[r] \in {"copy", "copyfill"}
  BY <1>3 DEF OpensVersion, FillsVersion
<1>4. ASSUME NEW r \in Reqs, Kinds(r), ~OpensVersion(r), ~FillsVersion(r) PROVE vbody' = vbody
  BY <1>4 DEF Kinds, Enters, Reads, ReadsOn, Puts, Copies, Opens, Writes, Advances, Aborts, Renames,
     OpensMeta, FillsMeta, Unlinks, UnlinksMeta, OpensMirror, FillsMirror
<1>5. Stutters => vbody' = vbody
  BY DEF Stutters
<1>. QED
  BY <1>1, <1>2, <1>3, <1>4, <1>5

\* A version's files of one key are of one request.
LEMMA OneOwnerOf ==
    ASSUME TypeOK, OneOwner, Owned, NEW k \in Keys, NEW v \in vdata[k] \cup vmark[k] \cup vmeta[k],
           NEW r \in Reqs, op[r] \in Versioning, vid[r] = v
    PROVE  /\ key[r] = k
           /\ v \in vdata[k] => op[r] \in PutOps
           /\ v \in vmark[k] => op[r] = "delete"
<1>1. v \in Vids /\ v # NoVid
  BY BoundAssumption DEF TypeOK, Vids, NoVid
<1>2. \A q \in Reqs : op[q] \in Versioning /\ vid[q] = v => q = r
  BY <1>1 DEF OneOwner, Versioning
<1>3. PutOps \subseteq Versioning /\ "delete" \in Versioning
  BY DEF Versioning
<1>. QED
  BY <1>1, <1>2, <1>3 DEF Owned

\* Only the request a version is of creates its metadata.
LEMMA MetaSteps ==
    ASSUME TypeOK, Control, [Next]_vars, NEW k \in Keys, NEW v \in vmeta'[k] \ vmeta[k]
    PROVE  \E r \in Reqs : key[r] = k /\ vid[r] = v /\ (AddsMeta(r) \/ AddsMarker(r))
<1>1. Rests \/ \E r \in Reqs : VersionKinds(r)
  BY VersionStepKinds
<1>2. ASSUME NEW r \in Reqs, AddsMeta(r) \/ AddsMarker(r) PROVE key[r] = k /\ vid[r] = v
  <2>1. vmeta' = [vmeta EXCEPT ![key[r]] = @ \cup {vid[r]}] /\ key[r] \in Keys
    BY <1>2 DEF AddsMeta, AddsMarker
  <2>2. \A x \in Keys : vmeta'[x] = IF x = key[r] THEN vmeta[x] \cup {vid[r]} ELSE vmeta[x]
    BY <2>1 DEF TypeOK
  <2>. QED
    BY <2>2
<1>3. ASSUME NEW r \in Reqs,
             Asks(r) \/ (\E k2 \in Keys : DeleteVersion(r, k2)) \/ Looks(r) \/ Configures(r) \/ Numbers(r)
             \/ AddsData(r) \/ Scan(r) \/ Tidy(r) \/ CopyWriter(r)
             \/ PutVersioningFill(r) \/ (\E next : Quietly(r, next))
      PROVE  vmeta' = vmeta
  BY <1>3 DEF Asks, DeleteVersion, Looks, Configures, PutVersioning, Numbers, AddsData, Scan,
     Tidy, CopyWriter, PutVersioningFill, Quietly, fileVars, versionVars
<1>4. ASSUME NEW r \in Reqs, PurgeRest(r) PROVE vmeta'[k] \subseteq vmeta[k]
  BY <1>4 DEF PurgeRest, TypeOK
<1>5. Rests => vmeta' = vmeta
  BY DEF Rests
<1>. QED
  BY <1>1, <1>2, <1>3, <1>4, <1>5 DEF VersionKinds

\* A request that is about to make the metadata of its version had its
\* identifier before, or has just got it.
LEMMA MakingSteps ==
    ASSUME TypeOK, Control, [Next]_vars, NEW r \in Reqs,
           op'[r] \in PutOps, pc'[r] \in {"copy", "copyfill", "vmeta"}
    PROVE  /\ op[r] \in PutOps
           /\ \/ pc[r] \in {"copy", "copyfill", "vmeta"} /\ vid'[r] = vid[r]
              \/ Numbers(r)
<1>. DEFINE Making == /\ op[r] \in PutOps
                      /\ \/ pc[r] \in {"copy", "copyfill", "vmeta"} /\ vid'[r] = vid[r]
                         \/ Numbers(r)
<1>1. Rests \/ \E q \in Reqs : VersionKinds(q)
  BY VersionStepKinds
<1>2. Rests => Making
  BY DEF Rests
<1>. USE DEF TypeOK, PutOps
<1>3. ASSUME NEW q \in Reqs, Asks(q) PROVE Making
  BY <1>3 DEF Asks
<1>4. ASSUME NEW q \in Reqs, NEW k \in Keys, DeleteVersion(q, k) PROVE Making
  BY <1>4 DEF DeleteVersion, Begin
<1>5. ASSUME NEW q \in Reqs, Looks(q) PROVE Making
  BY <1>5 DEF Looks
<1>6. ASSUME NEW q \in Reqs, Configures(q) PROVE Making
  BY <1>6 DEF Configures, PutVersioning, Begin
<1>7. ASSUME NEW q \in Reqs, Numbers(q) PROVE Making
  BY <1>7 DEF Numbers
<1>8. ASSUME NEW q \in Reqs, AddsData(q) \/ AddsMeta(q) \/ AddsMarker(q) PROVE Making
  BY <1>8 DEF AddsData, AddsMeta, AddsMarker
<1>9. ASSUME NEW q \in Reqs, PurgeRest(q) \/ Scan(q) \/ Tidy(q) \/ PutVersioningFill(q) PROVE Making
  BY <1>9 DEF PurgeRest, Scan, Tidy, PutVersioningFill, Goto, reqVars
<1>10. ASSUME NEW q \in Reqs, CopyWriter(q) PROVE Making
  BY <1>10 DEF CopyWriter, Goto
<1>11. ASSUME NEW q \in Reqs, NEW next, Quietly(q, next) PROVE Making
  BY <1>11 DEF Quietly, QuietSteps
<1>. HIDE DEF Making
<1>12. Making
  BY <1>1, <1>2, <1>3, <1>4, <1>5, <1>6, <1>7, <1>8, <1>9, <1>10, <1>11 DEF VersionKinds
<1>. QED
  BY <1>12 DEF Making

\* The metadata of a version comes after its data.
LEMMA MetaComesLast ==
    ASSUME IInv, Owned, Shown, [Next]_vars, NEW r \in Reqs, NEW k \in Keys,
           op'[r] \in PutOps, pc'[r] \in {"copy", "copyfill", "vmeta"}
    PROVE  vid'[r] \notin vmeta'[k]
<1>0. TypeOK /\ Control /\ OneOwner
  BY DEF IInv
<1>1. op[r] \in PutOps /\ op[r] \in Versioning
  BY <1>0, MakingSteps DEF Versioning
<1>2. ASSUME pc[r] \in {"copy", "copyfill", "vmeta"}, vid'[r] = vid[r] PROVE vid'[r] \notin vmeta'[k]
  <2>. SUFFICES ASSUME vid[r] \in vmeta'[k] PROVE FALSE
    BY <1>2
  <2>1. vid[r] \in vmeta'[k] \ vmeta[k]
    BY <1>1, <1>2 DEF Shown
  <2>2. PICK q \in Reqs : vid[q] = vid[r] /\ (AddsMeta(q) \/ AddsMarker(q))
    BY <1>0, <2>1, MetaSteps
  <2>3. op[q] \in PutOps \cup {"delete"} /\ vid[q] # NoVid /\ pc'[q] \in {"vmetafill", "unlink"}
    BY <1>0, <2>2, BoundAssumption DEF AddsMeta, AddsMarker, TypeOK, Vids, NoVid
  <2>4. q = r
    BY <1>0, <1>1, <2>2, <2>3 DEF OneOwner
  <2>. QED
    BY <2>3, <2>4
<1>3. ASSUME Numbers(r) PROVE vid'[r] \notin vmeta'[k]
  <2>1. vmeta' = vmeta
    BY <1>3 DEF Numbers
  <2>2. PICK v \in Vids : NewVid(v) /\ vid' = [vid EXCEPT ![r] = v]
    BY <1>3 DEF Numbers
  <2>3. vid'[r] = v
    BY <1>0, <2>2 DEF TypeOK
  <2>4. \A q \in Reqs : vid[q] = v => op[q] \notin Versioning
    BY <2>2, BoundAssumption DEF NewVid, Issued, Versioning, Vids, NoVid
  <2>. QED
    BY <2>1, <2>3, <2>4 DEF Owned
<1>. QED
  BY <1>0, <1>2, <1>3, MakingSteps

\* Only the request a version is of creates its data.
LEMMA DataSteps ==
    ASSUME TypeOK, Control, [Next]_vars, NEW k \in Keys, NEW v \in vdata'[k] \ vdata[k]
    PROVE  \E r \in Reqs : key[r] = k /\ vid[r] = v /\ op[r] \in PutOps /\ pc[r] = "copy"
<1>1. Rests \/ \E r \in Reqs : VersionKinds(r)
  BY VersionStepKinds
<1>2. ASSUME NEW r \in Reqs, AddsData(r)
      PROVE  key[r] = k /\ vid[r] = v /\ op[r] \in PutOps /\ pc[r] = "copy"
  <2>1. vdata' = [vdata EXCEPT ![key[r]] = @ \cup {vid[r]}] /\ key[r] \in Keys
        /\ op[r] \in PutOps /\ pc[r] = "copy"
    BY <1>2 DEF AddsData
  <2>2. \A x \in Keys : vdata'[x] = IF x = key[r] THEN vdata[x] \cup {vid[r]} ELSE vdata[x]
    BY <2>1 DEF TypeOK
  <2>. QED
    BY <2>1, <2>2
<1>3. ASSUME NEW r \in Reqs,
             Asks(r) \/ Looks(r) \/ Configures(r) \/ Numbers(r) \/ AddsMeta(r) \/ AddsMarker(r)
             \/ PurgeRest(r) \/ Scan(r) \/ Tidy(r) \/ CopyWriter(r)
             \/ PutVersioningFill(r) \/ (\E next : Quietly(r, next))
      PROVE  vdata' = vdata
  BY <1>3 DEF Asks, Looks, Configures, PutVersioning, Numbers, AddsMeta, AddsMarker, PurgeRest, Scan,
     Tidy, CopyWriter, PutVersioningFill, Quietly, fileVars, versionVars
<1>4. ASSUME NEW r \in Reqs, NEW k2 \in Keys, DeleteVersion(r, k2) PROVE vdata'[k] \subseteq vdata[k]
  BY <1>4 DEF DeleteVersion, TypeOK
<1>5. Rests => vdata' = vdata
  BY DEF Rests
<1>. QED
  BY <1>1, <1>2, <1>3, <1>4, <1>5 DEF VersionKinds

\* Metadata is without its lines when it is created.
LEMMA MetaIsCreatedEmpty ==
    ASSUME TypeOK, Control, [Next]_vars, NEW r \in Reqs, pc[r] = "vmeta", pc'[r] = "vmetafill",
           vid[r] \in Vids
    PROVE  vinfo'[vid[r]] = Empty
<1>. USE DEF TypeOK, Goto
<1>1. ASSUME NEW q \in Reqs, VersionMeta(q) PROVE vinfo'[vid[r]] = Empty
  <2>1. q = r
    BY <1>1 DEF VersionMeta
  <2>2. CASE ~vdir[key[r]]
    BY <1>1, <2>1, <2>2 DEF VersionMeta
  <2>3. CASE vdir[key[r]]
    BY <1>1, <2>1, <2>3 DEF VersionMeta
  <2>. QED
    BY <2>2, <2>3
<1>2. ASSUME NEW q \in Reqs, NEW k \in Keys, Receive(q, k) PROVE FALSE
  <2>1. pc[q] = "idle" /\ \E next \in {"body", "purge", "unlink", "marker", "writer", "failed", "stream"} :
            pc' = [pc EXCEPT ![q] = next]
    BY <1>2 DEF Receive, PutObjectWriter, CopyObject, DeleteObject, DeleteVersion,
       GetObject, GetObjectVersion, Begin, Admit
  <2>. QED
    BY <2>1
<1>3. ASSUME NEW q \in Reqs, NEW m \in {"Enabled", "Suspended"}, PutVersioning(q, m) PROVE FALSE
  BY <1>3 DEF PutVersioning, Begin
<1>4. ASSUME NEW q \in Reqs, Handle(q), ~VersionMeta(q) PROVE FALSE
  <2>1. pc'[r] # pc[r] => q = r
    BY <1>4 DEF Handle, CopyWriter, CopyBlock, FinishCopy, Rename, PutVersion, NewVersion, CopyOpen,
       CopyFill, VersionMetaFill, MetaCreate, MetaFill, MarkerVersion, CreateMarker, UnlinkData,
       UnlinkMeta, PurgeRest, Scan, MirrorOpen, MirrorFill, Tidy, PutVersioningFill
  <2>2. pc[q] # "vmeta"
    BY <1>4 DEF Handle, CopyWriter, CopyBlock, FinishCopy, Rename, PutVersion, NewVersion, CopyOpen,
       CopyFill, VersionMetaFill, MetaCreate, MetaFill, MarkerVersion, CreateMarker, UnlinkData,
       UnlinkMeta, PurgeRest, Scan, MirrorOpen, MirrorFill, Tidy, PutVersioningFill
  <2>. QED
    BY <2>1, <2>2
<1>5. ASSUME NEW q \in Reqs, WriteBlock(q) \/ Rename(q) \/ Abort(q) \/ EndGet(q) \/ Abandon(q)
          PROVE FALSE
  BY <1>5 DEF WriteBlock, Rename, Abort, EndGet, Abandon
<1>6. CASE Served \/ UNCHANGED vars
  BY <1>6 DEF Served, vars
<1>. QED
  BY <1>1, <1>2, <1>3, <1>4, <1>5, <1>6 DEF Next

\* The metadata of a version describes its data.
LEMMA DescribedStep ==
    ASSUME SInv, Owned, Owned', Shown, [Next]_vars, NEW k \in SerialKeys, NEW v \in Vids,
           v \in vdata'[k], Described(k, v)'
    PROVE  vinfo'[v].etag = vbody'[v]
<1>0. /\ TypeOK /\ TypeOK' /\ Control /\ OneOwner /\ OneOwner' /\ IInv /\ k \in Keys
      /\ v # NoVid
  BY OneOwnerStep, TypeStep, SerialKeysFixed, BoundAssumption DEF SInv, IInv, Vids, NoVid
<1>1. v \in vmeta'[k] /\ vinfo'[v] # Empty
  BY DEF Described
<1>2. PICK q \in Reqs : op'[q] \in PutOps /\ key'[q] = k /\ vid'[q] = v
  BY <1>0 DEF Owned
<1>3. ASSUME NEW r \in Reqs, vid[r] = v, op[r] \in PutOps, VersionMetaFill(r)
      PROVE  vinfo'[v].etag = vbody'[v]
  <2>1. /\ vinfo' = [vinfo EXCEPT ![v] = [etag |-> sum[r], vid |-> v]] /\ vbody' = vbody
        /\ op' = op /\ key' = key /\ vid' = vid /\ pc[r] = "vmetafill"
    BY <1>3 DEF VersionMetaFill, reqVars
  <2>2. vinfo'[v] = [etag |-> sum[r], vid |-> v]
    BY <1>0, <2>1 DEF TypeOK
  <2>3. key[r] = k
    BY <1>0, <1>2, <1>3, <2>1 DEF OneOwner
  <2>4. vbody[v] = sum[r]
    BY <1>0, <1>3, <2>1, <2>3 DEF SInv, VersionHeld
  <2>. QED
    BY <2>1, <2>2, <2>4
<1>4. ASSUME NEW r \in Reqs, vid[r] = v, op[r] \in PutOps, VersionMeta(r), ~VersionMetaFill(r)
      PROVE  vinfo'[v] = vinfo[v]
  <2>1. CASE ~vdir[key[r]]
    BY <1>4, <2>1 DEF VersionMeta
  <2>2. CASE vdir[key[r]]
    <3>1. vinfo' = [vinfo EXCEPT ![v] = Empty]
      BY <1>4, <2>2 DEF VersionMeta
    <3>. QED
      BY <1>0, <1>1, <3>1 DEF TypeOK
  <2>. QED
    BY <2>1, <2>2
<1>5. ASSUME vinfo'[v] = vinfo[v] PROVE vinfo'[v].etag = vbody'[v]
  <2>1. v \in vmeta[k]
    <3>. SUFFICES ASSUME v \notin vmeta[k] PROVE FALSE
      OBVIOUS
    <3>1. PICK r \in Reqs : vid[r] = v /\ (AddsMeta(r) \/ AddsMarker(r))
      BY <1>0, <1>1, MetaSteps
    <3>2. op'[r] = op[r] /\ vid'[r] = vid[r] /\ op[r] \in PutOps \cup {"delete"}
          /\ (AddsMarker(r) => op[r] = "delete")
      BY <3>1 DEF AddsMeta, AddsMarker
    <3>3. r = q
      BY <1>0, <1>2, <3>1, <3>2 DEF OneOwner
    <3>4. AddsMeta(r) /\ pc[r] = "vmeta" /\ pc'[r] = "vmetafill"
      BY <1>0, <1>2, <3>1, <3>2, <3>3 DEF PutOps, AddsMeta, TypeOK
    <3>. QED
      BY <1>0, <1>1, <3>1, <3>4, MetaIsCreatedEmpty
  <2>2. vbody'[v] = vbody[v]
    BY <1>0, <2>1, BytesSteps DEF Shown
  <2>3. v \in vdata[k]
    <3>. SUFFICES ASSUME v \notin vdata[k] PROVE FALSE
      OBVIOUS
    <3>1. PICK r \in Reqs : vid[r] = v /\ op[r] \in PutOps /\ pc[r] = "copy"
      BY <1>0, DataSteps
    <3>. QED
      BY <1>0, <2>1, <3>1 DEF Shown
  <2>. QED
    BY <1>1, <1>5, <2>1, <2>2, <2>3 DEF Shown, Described
<1>. QED
  BY <1>0, <1>3, <1>4, <1>5, InfoSteps

\* Metadata on its own is that of a version a client asked to delete.
LEMMA LeftoverStep ==
    ASSUME SInv, Owned, Shown, [Next]_vars, NEW k \in SerialKeys, NEW v \in Vids,
           v \in vmeta'[k], v \notin Entries(k)'
    PROVE  \E q \in Reqs : /\ op'[q] = "deleteVersion" /\ key'[q] = k /\ vid'[q] = v
                           /\ pc'[q] \in {"purge", "failed"}
<1>0. /\ TypeOK /\ Control /\ OneOwner /\ Recorded /\ Sole /\ k \in Keys /\ v # NoVid
  BY SerialKeysFixed, BoundAssumption DEF SInv, IInv, Vids, NoVid
<1>. DEFINE Purges(q) == /\ op'[q] = "deleteVersion" /\ key'[q] = k /\ vid'[q] = v
                         /\ pc'[q] \in {"purge", "failed"}
<1>1. Rests \/ \E r \in Reqs : VersionKinds(r)
  BY <1>0, VersionStepKinds
<1>2. \A q \in Reqs : op[q] = "deleteVersion" /\ pc[q] = "failed" => pc[q] \notin {"idle", "purge"}
  OBVIOUS
<1>3. ASSUME v \notin vmeta[k] PROVE FALSE
  <2>1. PICK r \in Reqs : key[r] = k /\ vid[r] = v /\ (AddsMeta(r) \/ AddsMarker(r))
    BY <1>0, <1>3, MetaSteps
  <2>2. CASE AddsMarker(r)
    <3>1. v \in vmark'[k]
      BY <1>0, <2>1, <2>2 DEF AddsMarker, TypeOK
    <3>. QED
      BY <3>1 DEF Entries
  <2>3. CASE AddsMeta(r)
    <3>1. op[r] \in PutOps /\ pc[r] = "vmeta" /\ vdata' = vdata /\ Mutating(r) /\ op[r] \in Versioning
      BY <2>3 DEF AddsMeta, Mutating, MutatorOps, PutOps, Final, Versioning
    <3>2. last[k] = r
      BY <1>0, <2>1, <3>1 DEF Sole
    <3>3. r # NoFile
      BY NoFileAssumption
    <3>4. ~Purged(v)
      BY <1>0, <2>1, <3>1, <3>2, <3>3 DEF Owned
    <3>5. v \in vdata[k]
      BY <1>0, <2>1, <3>1, <3>4 DEF Recorded, HasData
    <3>. QED
      BY <3>1, <3>5 DEF Entries
  <2>. QED
    BY <2>1, <2>2, <2>3
<1>4. ASSUME NEW r \in Reqs, NEW k2 \in Keys, DeleteVersion(r, k2) PROVE \E q \in Reqs : Purges(q)
  <2>1. PICK v0 : vid' = [vid EXCEPT ![r] = v0] /\ vdata' = [vdata EXCEPT ![k2] = @ \ {v0}]
    BY <1>4 DEF DeleteVersion
  <2>2. /\ vmeta' = vmeta /\ vmark' = vmark /\ pc[r] = "idle" /\ pc' = [pc EXCEPT ![r] = "purge"]
        /\ op' = [op EXCEPT ![r] = "deleteVersion"] /\ key' = [key EXCEPT ![r] = k2]
    BY <1>4 DEF DeleteVersion, Begin, Admit
  <2>3. /\ vid'[r] = v0 /\ op'[r] = "deleteVersion" /\ key'[r] = k2 /\ pc'[r] = "purge"
        /\ \A q \in Reqs : q # r => vid'[q] = vid[q] /\ op'[q] = op[q] /\ key'[q] = key[q]
               /\ pc'[q] = pc[q]
    BY <1>0, <2>1, <2>2 DEF TypeOK
  <2>4. CASE v \notin Entries(k)
    BY <2>2, <2>3, <2>4 DEF Shown
  <2>5. CASE v \in Entries(k)
    <3>1. v \in vdata[k] /\ v \notin vdata'[k]
      BY <2>2, <2>5 DEF Entries
    <3>2. k2 = k /\ v0 = v
      BY <1>0, <2>1, <3>1 DEF TypeOK
    <3>. QED
      BY <2>3, <3>2
  <2>. QED
    BY <2>4, <2>5
<1>5. ASSUME NEW r \in Reqs, PurgeRest(r), v \in vmeta[k] PROVE \E q \in Reqs : Purges(q)
  <2>1. /\ vdata' = vdata /\ op' = op /\ key' = key /\ vid' = vid /\ pc[r] = "purge"
        /\ pc' = [pc EXCEPT ![r] = "scan"]
        /\ vmeta' = [vmeta EXCEPT ![key[r]] = @ \ {vid[r]}]
        /\ vmark' = [vmark EXCEPT ![key[r]] = @ \ {vid[r]}]
    BY <1>5 DEF PurgeRest, Goto, reqVars
  <2>2. ~(key[r] = k /\ vid[r] = v)
    BY <1>0, <2>1 DEF TypeOK
  <2>3. v \notin Entries(k)
    <3>1. v \in vmark[k] => v \in vmark'[k]
      BY <1>0, <2>1, <2>2 DEF TypeOK
    <3>. QED
      BY <2>1, <3>1 DEF Entries
  <2>4. PICK q \in Reqs : /\ op[q] = "deleteVersion" /\ key[q] = k /\ vid[q] = v
                          /\ pc[q] \in {"purge", "failed"}
    BY <1>5, <2>3 DEF Shown
  <2>5. q # r /\ pc'[q] = pc[q]
    BY <1>0, <2>1, <2>2, <2>4 DEF TypeOK
  <2>. QED
    BY <2>1, <2>4, <2>5
<1>6. ASSUME v \in vmeta[k], vdata[k] \subseteq vdata'[k], vmark[k] \subseteq vmark'[k],
             \A q \in Reqs : op[q] = "deleteVersion" /\ pc[q] \in {"purge", "failed"} =>
                 /\ op'[q] = op[q] /\ key'[q] = key[q] /\ vid'[q] = vid[q]
                 /\ pc'[q] \in {"purge", "failed"}
      PROVE  \E q \in Reqs : Purges(q)
  <2>1. v \notin Entries(k)
    BY <1>6 DEF Entries
  <2>2. PICK q \in Reqs : /\ op[q] = "deleteVersion" /\ key[q] = k /\ vid[q] = v
                          /\ pc[q] \in {"purge", "failed"}
    BY <1>6, <2>1 DEF Shown
  <2>. QED
    BY <1>6, <2>2
<1>. DEFINE Stay == \A q \in Reqs : op[q] = "deleteVersion" /\ pc[q] \in {"purge", "failed"} =>
                        /\ op'[q] = op[q] /\ key'[q] = key[q] /\ vid'[q] = vid[q]
                        /\ pc'[q] \in {"purge", "failed"}
<1>7. ASSUME NEW r \in Reqs, Asks(r) \/ Looks(r) \/ Configures(r)
      PROVE  /\ vdata' = vdata /\ vmark' = vmark
             /\ pc[r] = "idle" /\ \A q \in Reqs : q # r => /\ op'[q] = op[q] /\ key'[q] = key[q]
                                                         /\ vid'[q] = vid[q] /\ pc'[q] = pc[q]
  BY <1>0, <1>7 DEF Asks, Looks, Configures, PutVersioning, Begin, Admit, versionVars, TypeOK
<1>8. ASSUME NEW r \in Reqs, Asks(r) \/ Looks(r) \/ Configures(r) PROVE Stay
  BY <1>7, <1>8
<1>9. ASSUME NEW r \in Reqs, Numbers(r) \/ AddsData(r) \/ AddsMeta(r) \/ AddsMarker(r) \/ Scan(r)
             \/ Tidy(r) \/ CopyWriter(r) \/ PutVersioningFill(r) \/ (\E next : Quietly(r, next))
      PROVE  Stay
  <2>1. op' = op /\ key' = key /\ \A q \in Reqs : q # r => vid'[q] = vid[q] /\ pc'[q] = pc[q]
    BY <1>0, <1>9 DEF Numbers, AddsData, AddsMeta, AddsMarker, Scan, Tidy, CopyWriter,
       PutVersioningFill, Quietly, Goto, reqVars, TypeOK
  <2>2. pc[r] \in {"purge", "failed"} => vid' = vid /\ pc' = [pc EXCEPT ![r] = "failed"]
    BY <1>9 DEF Numbers, AddsData, AddsMeta, AddsMarker, Scan, Tidy, CopyWriter,
       PutVersioningFill, Quietly, QuietSteps, Final, Goto, reqVars
  <2>. QED
    BY <1>0, <2>1, <2>2 DEF TypeOK
<1>10. ASSUME NEW r \in Reqs, Numbers(r) \/ AddsData(r) \/ AddsMeta(r) \/ AddsMarker(r) \/ Scan(r)
             \/ Tidy(r) \/ CopyWriter(r) \/ PutVersioningFill(r) \/ (\E next : Quietly(r, next))
      PROVE  vdata[k] \subseteq vdata'[k] /\ vmark[k] \subseteq vmark'[k]
  <2>1. AddsData(r) => vmark' = vmark /\ vdata[k] \subseteq vdata'[k]
    BY <1>0 DEF AddsData, TypeOK
  <2>2. AddsMarker(r) => vdata' = vdata /\ vmark[k] \subseteq vmark'[k]
    BY <1>0 DEF AddsMarker, TypeOK
  <2>3. Numbers(r) \/ AddsMeta(r) \/ Scan(r) \/ Tidy(r) \/ CopyWriter(r) \/ PutVersioningFill(r)
        \/ (\E next : Quietly(r, next)) => vdata' = vdata /\ vmark' = vmark
    BY DEF Numbers, AddsMeta, Scan, Tidy, CopyWriter, PutVersioningFill, Quietly, fileVars, versionVars
  <2>. QED
    BY <1>10, <2>1, <2>2, <2>3
<1>11. Rests => Stay /\ vdata' = vdata /\ vmark' = vmark
  BY DEF Rests
<1>. HIDE DEF Stay
<1>12. Stay /\ v \in vmeta[k] /\ vdata[k] \subseteq vdata'[k] /\ vmark[k] \subseteq vmark'[k]
       => \E q \in Reqs : Purges(q)
  BY <1>6 DEF Stay
<1>. HIDE DEF Purges
<1>13. \E q \in Reqs : Purges(q)
  BY <1>1, <1>3, <1>4, <1>5, <1>7, <1>8, <1>9, <1>10, <1>11, <1>12 DEF VersionKinds
<1>. QED
  BY <1>13 DEF Purges

\* What the listing shows, and why each step keeps it.
LEMMA ShownStep == SInv /\ Owned /\ Shown /\ [Next]_vars => Shown'
<1>. SUFFICES ASSUME SInv, Owned, Shown, [Next]_vars PROVE Shown'
  OBVIOUS
<1>1. Owned' /\ IInv
  BY OwnedStep DEF SInv
<1>2. \A r \in Reqs, k \in Keys :
        op'[r] \in PutOps /\ pc'[r] \in {"copy", "copyfill", "vmeta"} => vid'[r] \notin vmeta'[k]
  BY <1>1, MetaComesLast
<1>3. \A k \in SerialKeys, v \in Vids :
        v \in vdata'[k] /\ Described(k, v)' => vinfo'[v].etag = vbody'[v]
  BY <1>1, DescribedStep
<1>4. \A k \in SerialKeys, v \in Vids : v \in vmeta'[k] /\ v \notin Entries(k)' =>
        \E q \in Reqs :
            /\ op'[q] = "deleteVersion" /\ key'[q] = k /\ vid'[q] = v
            /\ pc'[q] \in {"purge", "failed"}
  BY LeftoverStep
<1>. QED
  BY <1>2, <1>3, <1>4, SerialKeysFixed DEF Shown

----------------------------------------------------------------------------
(* What a client that lists the versions of a serial key sees.             *)

\* A key that has an entry has a greatest one.
LEMMA HasLatest ==
    ASSUME TypeOK, NEW k \in Keys, Recognised(k) # {}
    PROVE  \E v \in Recognised(k) : IsLatest(k, v)
<1>. DEFINE R == Recognised(k)
            T == {n \in Nat : MaxVid - n \in R}
<1>1. R \subseteq Vids
  BY DEF TypeOK, Recognised, Entries
<1>. HIDE DEF R
<1>2. \A v \in R : v \in Nat /\ v <= MaxVid /\ MaxVid - v \in Nat /\ MaxVid - (MaxVid - v) = v
  BY <1>1, BoundAssumption DEF Vids
<1>3. R # {}
  BY DEF R
<1>4. \A v \in R : MaxVid - v \in T
  BY <1>2
<1>5. T \in SUBSET Nat /\ T # {}
  BY <1>3, <1>4
<1>6. \A n \in T : MaxVid - n \in R
  OBVIOUS
<1>. HIDE DEF T
<1>7. \E n \in T : \A m \in T : <<m, n>> \notin OpToRel(<, Nat)
  BY <1>5, NatLessThanWellFounded, WFMin
<1>8. PICK n \in T : \A m \in T : <<m, n>> \notin OpToRel(<, Nat)
  BY <1>7, Zenon
<1>9. ASSUME NEW w \in R PROVE w <= MaxVid - n
  <2>. DEFINE m == MaxVid - w
  <2>1. <<m, n>> \notin {ss \in Nat \X Nat : ss[1] < ss[2]}
    BY <1>4, <1>8, Zenon DEF OpToRel
  <2>2. m \in Nat /\ n \in Nat /\ w \in Nat /\ MaxVid \in Nat
    BY <1>2, <1>5, BoundAssumption
  <2>3. ~(m < n)
    BY <2>1, <2>2
  <2>. QED
    BY <2>2, <2>3
<1>10. MaxVid - n \in R
  BY <1>6
<1>. QED
  BY <1>9, <1>10 DEF IsLatest, R

\* The entry of a version.
Entry(k, v) ==
    [vid |-> v,
     marker |-> v \in vmark[k],
     latest |-> IsLatest(k, v),
     etag |-> ListedETag(k, v),
     size |-> ListedSize(k, v)]

\* The listing has an entry for each recognised version.
LEMMA EntriesAre == ASSUME NEW k PROVE ListVersions(k) = {Entry(k, v) : v \in Recognised(k)}
  BY DEF ListVersions, Entry

\* What the metadata of a version says is what its data file holds.
LEMMA EntryDescribes ==
    ASSUME TypeOK, Shown, NEW k \in SerialKeys, NEW v \in vdata[k]
    PROVE  ListedETag(k, v) \in {Empty, vbody[v]} /\ ListedSize(k, v) = Len(vbody[v])
<1>1. k \in Keys /\ v \in Vids
  BY SerialKeysFixed DEF TypeOK
<1>2. Described(k, v) => vinfo[v].etag = vbody[v]
  BY <1>1 DEF Shown
<1>. QED
  BY <1>1, <1>2 DEF ListedETag, ListedSize

\* At first there is nothing to list.
LEMMA InitShown == Init => Shown
  BY SerialKeysFixed DEF Init, Shown

\* Shown needs nothing of the clock or of the configuration.
LEMMA OwnedShown == Spec => [](SInv /\ Owned /\ Shown)
<1>1. Init => Owned
  BY DEF Init, Owned, Versioning, PutOps
<1>2. SInv /\ Owned /\ [Next]_vars => Owned'
  BY OwnedStep DEF SInv
<1>. QED
  BY <1>1, <1>2, InitShown, ShownStep, SInvariance, PTL DEF Spec

\* Every version a PUT was acknowledged with is listed under its ETag and size,
\* and every marker of a DELETE, on a serial key at rest (list_versions and
\* walk_versions).
THEOREM VersionsAreListed == Spec => []AckedListed
<1>1. SInv /\ Owned /\ Shown => AckedListed
  <2>. SUFFICES ASSUME SInv, Owned, Shown, NEW r \in Reqs, pc[r] = "ok", vid[r] # NoVid,
                       ~Purged(vid[r]), key[r] \in SerialKeys
                PROVE  /\ op[r] \in PutOps =>
                            \E e \in ListVersions(key[r]) :
                                ~e.marker /\ e.vid = vid[r] /\ e.etag = sum[r] /\ e.size = Len(sum[r])
                       /\ op[r] = "delete" =>
                            \E e \in ListVersions(key[r]) : e.marker /\ e.vid = vid[r]
    BY DEF AckedListed
  <2>. DEFINE k == key[r]
              v == vid[r]
              e == Entry(k, v)
  <2>0. TypeOK /\ OneOwner /\ Recorded /\ VersionHeld /\ k \in Keys /\ v \in Vids
    BY SerialKeysFixed DEF SInv, IInv, TypeOK
  <2>1. ASSUME op[r] \in PutOps
        PROVE  e \in ListVersions(k) /\ ~e.marker /\ e.vid = v /\ e.etag = sum[r]
            /\ e.size = Len(sum[r])
    <3>1. v \in vdata[k] /\ v \in vmeta[k] /\ vinfo[v] = [etag |-> sum[r], vid |-> v]
      BY <2>0, <2>1 DEF Recorded, HasData, HasMeta, HasInfo
    <3>2. sum[r] \in Seq(Reqs \cup {Hole})
      BY <2>0 DEF TypeOK, Block
    <3>3. Described(k, v) /\ vinfo[v].etag = sum[r]
      BY <2>0, <3>1, <3>2, EmptyAssumption DEF Described
    <3>4. v \notin vmark[k]
      BY <2>0, <2>1, <3>1, OneOwnerOf DEF Versioning, PutOps
    <3>5. vbody[v] = sum[r]
      BY <2>0, <2>1 DEF VersionHeld
    <3>6. ListedETag(k, v) = sum[r] /\ ListedSize(k, v) = Len(sum[r])
      BY <3>1, <3>3, <3>5 DEF ListedETag, ListedSize
    <3>7. e \in ListVersions(k)
      BY <3>1, EntriesAre DEF Recognised, Entries
    <3>. QED
      BY <3>4, <3>6, <3>7 DEF Entry
  <2>2. ASSUME op[r] = "delete" PROVE e \in ListVersions(k) /\ e.marker /\ e.vid = v
    <3>1. v \in vmark[k]
      BY <2>0, <2>2 DEF Recorded, HasMark
    <3>2. e \in ListVersions(k)
      BY <3>1, EntriesAre DEF Recognised, Entries
    <3>. QED
      BY <3>1, <3>2 DEF Entry
  <2>. QED
    BY <2>1, <2>2
<1>. QED
  BY <1>1, OwnedShown, PTL

\* While the clock is not set back, the entry that list_versions flags as the
\* latest is what GET serves, or a marker where it serves nothing, once the last
\* request on a serial key found the bucket to record versions and succeeded.
THEOREM ListedLatestIsLive == ASSUME ClockMonotone PROVE Spec => []LatestIsLive
<1>1. SInv /\ Shown /\ MirrorsNewest => LatestIsLive
  <2>. SUFFICES ASSUME SInv, Shown, MirrorsNewest, NEW k \in SerialKeys,
                       last[k] # NoFile, pc[last[k]] = "ok"
                PROVE  /\ Tracked(last[k]) /\ ListVersions(k) # {} =>
                            \E e \in ListVersions(k) :
                                /\ \A f \in ListVersions(k) : f.latest <=> f = e
                                /\ \/ Leftover(k, e.vid)
                                   \/ e.marker /\ data[k] = NoFile
                                   \/ /\ ~e.marker /\ data[k] # NoFile
                                      /\ e.etag \in {Empty, body[data[k]]}
                                      /\ e.size = Len(body[data[k]])
                       /\ \A e \in ListVersions(k) : Leftover(k, e.vid) =>
                            \E q \in Reqs :
                                op[q] = "deleteVersion" /\ vid[q] = e.vid /\ pc[q] = "failed"
    BY DEF LatestIsLive
  <2>0. TypeOK /\ Sole /\ k \in Keys /\ Recognised(k) \subseteq Vids
    BY SerialKeysFixed DEF SInv, IInv, TypeOK, Recognised, Entries
  <2>1. \A v \in Recognised(k) : Entry(k, v).vid = v /\ (Entry(k, v).latest <=> IsLatest(k, v))
                                 /\ (Entry(k, v).marker <=> v \in vmark[k])
                                 /\ Entry(k, v).etag = ListedETag(k, v)
                                 /\ Entry(k, v).size = ListedSize(k, v)
    BY DEF Entry
  <2>2. ASSUME Tracked(last[k]), ListVersions(k) # {}
        PROVE  \E e \in ListVersions(k) :
                    /\ \A f \in ListVersions(k) : f.latest <=> f = e
                    /\ \/ Leftover(k, e.vid)
                       \/ e.marker /\ data[k] = NoFile
                       \/ /\ ~e.marker /\ data[k] # NoFile
                          /\ e.etag \in {Empty, body[data[k]]}
                          /\ e.size = Len(body[data[k]])
    <3>1. PICK v \in Recognised(k) : IsLatest(k, v)
      BY <2>0, <2>2, EntriesAre, HasLatest
    <3>2. ASSUME NEW w \in Recognised(k), IsLatest(k, w) PROVE w = v
      <4>1. w \in Nat /\ v \in Nat /\ w <= v /\ v <= w
        BY <2>0, <3>1, <3>2 DEF IsLatest, Vids
      <4>. QED
        BY <4>1
    <3>. DEFINE e == Entry(k, v)
    <3>3. e \in ListVersions(k)
      BY EntriesAre
    <3>4. ASSUME NEW f \in ListVersions(k) PROVE f.latest <=> f = e
      <4>1. PICK w \in Recognised(k) : f = Entry(k, w)
        BY EntriesAre
      <4>2. f.latest => w = v
        BY <2>1, <3>2, <4>1
      <4>3. e.latest
        BY <2>1, <3>1
      <4>. QED
        BY <4>1, <4>2, <4>3
    <3>5. ASSUME v \notin Entries(k) PROVE Leftover(k, e.vid)
      BY <2>1, <3>5 DEF Leftover
    <3>6. ASSUME v \in Entries(k) PROVE IsNewest(k, v)
      BY <3>1, <3>6 DEF IsNewest, IsLatest, Recognised
    <3>7. ASSUME v \in vmark[k] PROVE e.marker /\ data[k] = NoFile
      <4>1. IsNewest(k, v) /\ v \in Entries(k)
        BY <3>6, <3>7 DEF Entries
      <4>. QED
        BY <2>1, <2>2, <3>7, <4>1 DEF MirrorsNewest
    <3>8. ASSUME v \in vdata[k], v \notin vmark[k]
          PROVE  /\ ~e.marker /\ data[k] # NoFile
                 /\ e.etag \in {Empty, body[data[k]]} /\ e.size = Len(body[data[k]])
      <4>1. IsNewest(k, v) /\ v \in Entries(k)
        BY <3>6, <3>8 DEF Entries
      <4>2. data[k] # NoFile /\ body[data[k]] = vbody[v]
        BY <2>2, <3>8, <4>1 DEF MirrorsNewest
      <4>3. ListedETag(k, v) \in {Empty, vbody[v]} /\ ListedSize(k, v) = Len(vbody[v])
        BY <2>0, <3>8, EntryDescribes
      <4>. QED
        BY <2>1, <3>8, <4>2, <4>3
    <3>9. v \in Entries(k) => v \in vmark[k] \/ (v \in vdata[k] /\ v \notin vmark[k])
      BY DEF Entries
    <3>10. \/ Leftover(k, e.vid)
           \/ e.marker /\ data[k] = NoFile
           \/ /\ ~e.marker /\ data[k] # NoFile
              /\ e.etag \in {Empty, body[data[k]]}
              /\ e.size = Len(body[data[k]])
      BY <3>5, <3>7, <3>8, <3>9
    <3>. HIDE DEF e
    <3>. QED
      BY <3>3, <3>4, <3>10
  <2>3. ASSUME NEW e \in ListVersions(k), Leftover(k, e.vid)
        PROVE  \E q \in Reqs : op[q] = "deleteVersion" /\ vid[q] = e.vid /\ pc[q] = "failed"
    <3>1. PICK v \in Recognised(k) : e = Entry(k, v)
      BY EntriesAre
    <3>2. v \in Vids /\ v \notin Entries(k) /\ v \in vmeta[k] /\ e.vid = v
      BY <2>0, <2>1, <2>3, <3>1 DEF Leftover, Recognised
    <3>3. PICK q \in Reqs : /\ op[q] = "deleteVersion" /\ key[q] = k /\ vid[q] = v
                            /\ pc[q] \in {"purge", "failed"}
      BY <3>2 DEF Shown
    <3>4. pc[q] # "purge"
      <4>. SUFFICES ASSUME pc[q] = "purge" PROVE FALSE
        OBVIOUS
      <4>1. Mutating(q)
        BY <3>3 DEF Mutating, MutatorOps, Final
      <4>2. last[k] = q
        BY <2>0, <3>3, <4>1 DEF Sole
      <4>. QED
        BY <4>2
    <3>. QED
      BY <3>2, <3>3, <3>4
  <2>. QED
    BY <2>2, <2>3
<1>. QED
  BY <1>1, OwnedShown, LiveIsNewest, PTL

=============================================================================
