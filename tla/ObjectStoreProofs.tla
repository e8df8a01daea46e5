------------------------- MODULE ObjectStoreProofs -------------------------
(***************************************************************************)
(* What holds of ObjectStore for any number of requests, keys, versions    *)
(* and blocks, whatever the clients overlap and whatever fails: the type   *)
(* invariant, and that acknowledged versions are neither lost (AckedDurable)*)
(* nor rewritten (AckedVersionFrozen).                                     *)
(*                                                                         *)
(* AckedDurable speaks of requests that were answered only.  It becomes    *)
(* inductive with what a handler has put under versions/ at each step      *)
(* before the answer (Recorded), who else may hold the same identifier     *)
(* (OneOwner), and where a handler of each kind can be (Control).          *)
(***************************************************************************)
EXTENDS ObjectStore, TLAPS

\* The temporary file is being written.
Uploading == {"body", "blocks", "rename"}

\* Where the handler of each kind of request can be, and what it then knows.
Control ==
    \A r \in Reqs :
        /\ pc[r] = "idle" => op[r] = "none"
        /\ op[r] = "none" => vid[r] = NoVid
        /\ pc[r] = "body" => op[r] = "put"
        /\ pc[r] \in {"writer", "blocks", "rename"} => op[r] = "copy"
        /\ pc[r] \in {"version", "copy", "copyfill", "vmeta", "vmetafill"} => op[r] \in PutOps
        /\ pc[r] \in {"marker", "markfile"} => op[r] = "delete"
        /\ pc[r] \in {"unlink", "unlinkmeta"} => op[r] \in {"delete", "deleteVersion"}
        /\ pc[r] \in {"meta", "metafill"} => op[r] \in PutOps \cup {"deleteVersion"}
        /\ pc[r] \in {"purge", "scan", "mirror", "mirrorfill", "tidy"} =>
            op[r] = "deleteVersion"
        /\ pc[r] = "stream" => op[r] \in {"get", "getVersion"}
        /\ pc[r] = "config" => op[r] = "putVersioning"
        /\ op[r] \in MutatorOps \cup {"get", "getVersion"} => key[r] \in Keys
        /\ pc[r] \in Uploading \cup {"writer", "version", "marker"} => vid[r] = NoVid
        /\ pc[r] \in {"copy", "copyfill", "vmeta", "vmetafill", "markfile"} => vid[r] # NoVid
        /\ pc[r] \in Uploading \cup {"copyfill", "metafill", "mirrorfill"} => fd[r] \in Reqs
        /\ pc[r] \in {"writer", "blocks"} => from[r] \in Reqs
        /\ pc[r] = "stream" /\ op[r] = "get" => fd[r] \in Reqs
        /\ pc[r] = "stream" /\ op[r] = "getVersion" => vid[r] # NoVid
        /\ pc[r] \in {"mirror", "mirrorfill"} => src[r] # NoVid
        /\ pc[r] \in {"meta", "metafill"} /\ op[r] = "deleteVersion" => src[r] # NoVid

\* No two requests record a version under the same identifier.
OneOwner ==
    \A r, q \in Reqs :
        /\ op[r] \in PutOps \cup {"delete"} /\ op[q] \in PutOps \cup {"delete"}
        /\ vid[r] = vid[q] /\ vid[r] # NoVid
        => r = q

HasData == {"copyfill", "vmeta", "vmetafill", "meta", "metafill", "ok"}
HasMeta == {"vmetafill", "meta", "metafill", "ok"}
HasInfo == {"meta", "metafill", "ok"}
HasMark == {"unlink", "unlinkmeta", "ok"}

\* What a handler has recorded of its version at each step, as long as no
\* client has asked to delete it.
Recorded ==
    \A r \in Reqs : vid[r] # NoVid /\ ~Purged(vid[r]) =>
        /\ op[r] \in PutOps /\ pc[r] \in HasData => vid[r] \in vdata[key[r]]
        /\ op[r] \in PutOps /\ pc[r] \in HasMeta => vid[r] \in vmeta[key[r]]
        /\ op[r] \in PutOps /\ pc[r] \in HasInfo =>
            vinfo[vid[r]] = [etag |-> sum[r], vid |-> vid[r]]
        /\ op[r] = "delete" /\ pc[r] \in HasMark => vid[r] \in vmark[key[r]]

IInv == TypeOK /\ Control /\ OneOwner /\ Recorded

----------------------------------------------------------------------------
(* Operators.                                                              *)

\* A write at any position leaves a file that is a sequence of blocks.
LEMMA WriteAtType ==
    ASSUME NEW c \in Seq(Block), NEW i \in Nat \ {0}, NEW b \in Block
    PROVE  WriteAt(c, i, b) \in Seq(Block)
<1>1. DEFINE n == IF i > Len(c) THEN i ELSE Len(c)
<1>2. n \in Nat
  OBVIOUS
<1>3. \A j \in 1..n : (IF j = i THEN b ELSE IF j <= Len(c) THEN c[j] ELSE Hole) \in Block
  BY DEF Block
<1>. QED
  BY <1>2, <1>3 DEF WriteAt

\* A truncated file.
LEMMA EmptyBody == <<>> \in Seq(Block)
  OBVIOUS

\* A file more in a version directory.
LEMMA AddVersion ==
    ASSUME NEW f \in [Keys -> SUBSET Vids], NEW k \in Keys, NEW v \in Vids
    PROVE  [f EXCEPT ![k] = @ \cup {v}] \in [Keys -> SUBSET Vids]
<1>1. f[k] \cup {v} \in SUBSET Vids
  OBVIOUS
<1>. QED
  BY <1>1

\* The inode an open with truncation yields is that of the name or the new one.
LEMMA OpenedType ==
    ASSUME NEW name \in Inodes, NEW r \in Reqs
    PROVE  Opened(name, r) \in Reqs
  BY DEF Opened, Inodes

----------------------------------------------------------------------------
(* Initial state.                                                          *)

LEMMA InitIInv == Init => IInv
<1>. SUFFICES ASSUME Init PROVE IInv
  OBVIOUS
<1>. USE DEF Init
<1>a. <<>> \in Seq(Block) /\ "Disabled" \in Statuses
  BY DEF Statuses
<1>1. TypeOK
  BY <1>a, StatusAssumption DEF TypeOK, Inodes, Info, NoVid
<1>2. Control
  BY DEF Control, MutatorOps, PutOps, Uploading
<1>3. OneOwner /\ Recorded
  BY DEF OneOwner, Recorded, PutOps
<1>. QED
  BY <1>1, <1>2, <1>3 DEF IInv

----------------------------------------------------------------------------
(* Every step preserves the type invariant.                                *)

LEMMA TypeStep == IInv /\ [Next]_vars => TypeOK'
<1>. SUFFICES ASSUME TypeOK, Control, [Next]_vars PROVE TypeOK'
  BY DEF IInv
<1>. USE DEF TypeOK, reqVars, mirrorVars, versionVars, fileVars,
             Goto, ClientPaced, ServerPaced, Final, Inodes, Uploading, PutOps, MutatorOps
<1>1. ASSUME NEW r \in Reqs, NEW k \in Keys, PutObjectWriter(r, k) PROVE TypeOK'
  <2>1. PICK i \in Reqs : tmp' = [tmp EXCEPT ![Stem[k]] = i] /\ body' = [body EXCEPT ![i] = <<>>]
                          /\ fd' = [fd EXCEPT ![r] = i]
    BY <1>1, OpenedType, StemAssumption DEF PutObjectWriter, OpenUpload
  <2>2. UNCHANGED <<from, vid, src, sum, status, data, meta, info, vdir, vdata, vbody, vmeta, vinfo, vmark>>
    BY <1>1 DEF PutObjectWriter, OpenUpload
  <2>3. pc' = [pc EXCEPT ![r] = "body"] /\ op' = [op EXCEPT ![r] = "put"] /\ "put" \in Ops
        /\ key' = [key EXCEPT ![r] = k]
    BY <1>1 DEF PutObjectWriter, Begin
  <2>4. last' = [last EXCEPT ![k] = r] /\ mode' = [mode EXCEPT ![r] = status]
    BY <1>1 DEF PutObjectWriter, OpenUpload
  <2>. QED
    BY <2>1, <2>2, <2>3, <2>4, EmptyBody
<1>2. ASSUME NEW r \in Reqs, NEW k \in Keys, DeleteObject(r, k) PROVE TypeOK'
  BY <1>2 DEF DeleteObject, Begin
<1>3. ASSUME NEW r \in Reqs, NEW k \in Keys, DeleteVersion(r, k) PROVE TypeOK'
  BY <1>3 DEF DeleteVersion, Begin, Entries, NoVid
<1>4. ASSUME NEW r \in Reqs, NEW k \in Keys, GetObject(r, k) PROVE TypeOK'
  BY <1>4 DEF GetObject, Begin
<1>5. ASSUME NEW r \in Reqs, NEW m \in {"Enabled", "Suspended"}, PutVersioning(r, m) PROVE TypeOK'
  BY <1>5 DEF PutVersioning, Begin, Statuses
<1>6. ASSUME NEW r \in Reqs, WriteBlock(r) PROVE TypeOK'
  <2>1. body' = [body EXCEPT ![fd[r]] = WriteAt(@, Len(sum[r]) + 1, r)]
        /\ sum' = [sum EXCEPT ![r] = Append(@, r)]
        /\ UNCHANGED <<pc, op, key, mode, fd, from, vid, src, status, tmp, data, meta, info, last,
                       vdir, vdata, vbody, vmeta, vinfo, vmark>>
    BY <1>6 DEF WriteBlock
  <2>2. r \in Block /\ Len(sum[r]) + 1 \in Nat \ {0}
    BY DEF Block
  <2>3. body' \in [Reqs -> Seq(Block)]
    BY <2>1, <2>2, WriteAtType
  <2>4. sum' \in [Reqs -> Seq(Block)]
    BY <2>1, <2>2
  <2>. QED
    BY <2>1, <2>3, <2>4
<1>7. ASSUME NEW r \in Reqs, Abort(r) PROVE TypeOK'
  BY <1>7 DEF Abort
<1>8. ASSUME NEW r \in Reqs, Rename(r) PROVE TypeOK'
  <2>1. key[r] \in Keys
    BY <1>8 DEF Rename, Control
  <2>2. Stem[key[r]] \in Stems
    BY <2>1, StemAssumption
  <2>3. CASE tmp[Stem[key[r]]] = NoFile
    BY <1>8, <2>3 DEF Rename
  <2>4. CASE tmp[Stem[key[r]]] # NoFile
    BY <1>8, <2>1, <2>2, <2>4 DEF Rename
  <2>. QED
    BY <2>3, <2>4
<1>9. ASSUME NEW r \in Reqs, EndGet(r) PROVE TypeOK'
  <2>1. Contents(r) \in Seq(Block)
    BY <1>9 DEF EndGet, Contents, Control
  <2>. DEFINE n == IF Len(sum[r]) < Len(Contents(r)) THEN Len(sum[r]) ELSE Len(Contents(r))
  <2>2. SubSeq(Contents(r), 1, n) \in Seq(Block)
    BY <2>1
  <2>. QED
    BY <1>9, <2>2 DEF EndGet
<1>10. ASSUME NEW r \in Reqs, Abandon(r) PROVE TypeOK'
  BY <1>10 DEF Abandon
<1>11. ASSUME NEW r \in Reqs, PutVersion(r) PROVE TypeOK'
  <2>1. PICK v \in Vids : vid' = [vid EXCEPT ![r] = v]
    BY <1>11 DEF PutVersion, NewVersion
  <2>. QED
    BY <1>11, <2>1 DEF PutVersion, NewVersion
<1>12. ASSUME NEW r \in Reqs, CopyOpen(r) PROVE TypeOK'
  <2>1. key[r] \in Keys /\ vid[r] \in Vids
    BY <1>12 DEF CopyOpen, Control
  <2>2. CASE data[key[r]] = NoFile \/ ~vdir[key[r]]
    BY <1>12, <2>2 DEF CopyOpen
  <2>3. CASE ~(data[key[r]] = NoFile \/ ~vdir[key[r]])
    <3>1. vdata' = [vdata EXCEPT ![key[r]] = @ \cup {vid[r]}]
      BY <1>12, <2>3 DEF CopyOpen
    <3>2. vdata' \in [Keys -> SUBSET Vids]
      BY <2>1, <3>1, AddVersion
    <3>. QED
      BY <1>12, <2>1, <2>3, <3>2, EmptyBody DEF CopyOpen
  <2>. QED
    BY <2>2, <2>3
<1>13. ASSUME NEW r \in Reqs, CopyFill(r) PROVE TypeOK'
  <2>. DEFINE n == Len(vbody[vid[r]])
  <2>1. UNCHANGED <<op, key, mode, from, vid, src, last, sum, fd, status, tmp, data, body, meta, info,
                    vdir, vdata, vmeta, vinfo, vmark>>
    BY <1>13 DEF CopyFill
  <2>2. vid[r] \in Vids /\ fd[r] \in Reqs /\ n \in Nat
    BY <1>13 DEF CopyFill, Control
  <2>3. CASE n < Len(body[fd[r]])
    <3>1. body[fd[r]][n + 1] \in Block
      BY <2>2, <2>3
    <3>2. vbody' = [vbody EXCEPT ![vid[r]] = Append(@, body[fd[r]][n + 1])] /\ UNCHANGED pc
      BY <1>13, <2>3 DEF CopyFill
    <3>. QED
      BY <2>1, <2>2, <3>1, <3>2
  <2>4. CASE ~(n < Len(body[fd[r]]))
    BY <1>13, <2>1, <2>4 DEF CopyFill
  <2>. QED
    BY <2>3, <2>4
<1>14. ASSUME NEW r \in Reqs, VersionMeta(r) PROVE TypeOK'
  <2>1. key[r] \in Keys /\ vid[r] \in Vids
    BY <1>14 DEF VersionMeta, Control
  <2>2. CASE ~vdir[key[r]]
    BY <1>14, <2>2 DEF VersionMeta
  <2>3. CASE vdir[key[r]]
    <3>1. vmeta' \in [Keys -> SUBSET Vids]
      <4>1. vmeta' = [vmeta EXCEPT ![key[r]] = @ \cup {vid[r]}]
        BY <1>14, <2>3 DEF VersionMeta
      <4>. QED
        BY <2>1, <4>1, AddVersion
    <3>2. vinfo' \in [Vids -> Info]
      BY <1>14, <2>1, <2>3 DEF VersionMeta, Info
    <3>. QED
      BY <1>14, <2>3, <3>1, <3>2 DEF VersionMeta
  <2>. QED
    BY <2>2, <2>3
<1>15. ASSUME NEW r \in Reqs, VersionMetaFill(r) PROVE TypeOK'
  BY <1>15 DEF VersionMetaFill, Info
<1>16. ASSUME NEW r \in Reqs, MetaCreate(r) PROVE TypeOK'
  <2>1. key[r] \in Keys
    BY <1>16 DEF MetaCreate, Control
  <2>2. Opened(meta[key[r]], r) \in Reqs /\ Empty \in Info
    BY <2>1, OpenedType DEF Info
  <2>3. CASE op[r] = "deleteVersion" /\ src[r] \notin vmeta[key[r]]
    BY <1>16, <2>3 DEF MetaCreate
  <2>4. CASE ~(op[r] = "deleteVersion" /\ src[r] \notin vmeta[key[r]])
    BY <1>16, <2>2, <2>4 DEF MetaCreate
  <2>. QED
    BY <2>3, <2>4
<1>17. ASSUME NEW r \in Reqs, MetaFill(r) PROVE TypeOK'
  <2>1. CASE op[r] \in PutOps
    <3>1. [etag |-> sum[r], vid |-> vid[r]] \in Info
      BY DEF Info
    <3>. QED
      <4>1. info' = [info EXCEPT ![fd[r]] = [etag |-> sum[r], vid |-> vid[r]]]
            /\ pc' = [pc EXCEPT ![r] = "ok"]
        BY <1>17, <2>1 DEF MetaFill
      <4>2. info' \in [Reqs -> Info]
        BY <4>1, <3>1
      <4>. QED
        BY <1>17, <4>1, <4>2 DEF MetaFill
  <2>2. CASE op[r] = "deleteVersion"
    <3>1. vinfo[src[r]] \in Info
      BY <1>17, <2>2 DEF MetaFill, Control
    <3>. QED
      BY <1>17, <2>2, <3>1 DEF MetaFill
  <2>. QED
    BY <1>17, <2>1, <2>2 DEF MetaFill
<1>18. ASSUME NEW r \in Reqs, MarkerVersion(r) PROVE TypeOK'
  <2>1. PICK v \in Vids : vid' = [vid EXCEPT ![r] = v]
    BY <1>18 DEF MarkerVersion, NewVersion
  <2>. QED
    BY <1>18, <2>1 DEF MarkerVersion, NewVersion
<1>19. ASSUME NEW r \in Reqs, CreateMarker(r) PROVE TypeOK'
  <2>1. key[r] \in Keys /\ vid[r] \in Vids
    BY <1>19 DEF CreateMarker, Control
  <2>2. CASE ~vdir[key[r]]
    BY <1>19, <2>2 DEF CreateMarker
  <2>3. CASE vdir[key[r]]
    <3>1. vmeta' \in [Keys -> SUBSET Vids]
      <4>1. vmeta' = [vmeta EXCEPT ![key[r]] = @ \cup {vid[r]}]
        BY <1>19, <2>3 DEF CreateMarker
      <4>. QED
        BY <2>1, <4>1, AddVersion
    <3>2. vmark' \in [Keys -> SUBSET Vids]
      <4>1. vmark' = [vmark EXCEPT ![key[r]] = @ \cup {vid[r]}]
        BY <1>19, <2>3 DEF CreateMarker
      <4>. QED
        BY <2>1, <4>1, AddVersion
    <3>. QED
      BY <1>19, <2>3, <3>1, <3>2 DEF CreateMarker
  <2>. QED
    BY <2>2, <2>3
<1>20. ASSUME NEW r \in Reqs, UnlinkData(r) PROVE TypeOK'
  BY <1>20 DEF UnlinkData
<1>21. ASSUME NEW r \in Reqs, UnlinkMeta(r) PROVE TypeOK'
  BY <1>21 DEF UnlinkMeta
<1>22. ASSUME NEW r \in Reqs, PurgeRest(r) PROVE TypeOK'
  BY <1>22 DEF PurgeRest
<1>23. ASSUME NEW r \in Reqs, Scan(r) PROVE TypeOK'
  <2>1. key[r] \in Keys
    BY <1>23 DEF Scan, Control
  <2>2. src' \in [Reqs -> Vids \cup {NoVid}]
    BY <1>23, <2>1 DEF Scan
  <2>3. \E next \in {"tidy", "unlink", "mirror"} : pc' = [pc EXCEPT ![r] = next]
    BY <1>23 DEF Scan
  <2>4. UNCHANGED <<op, key, mode, from, vid, last, sum, fd, status, tmp, data, body, meta, info,
                    vdir, vdata, vbody, vmeta, vinfo, vmark>>
    BY <1>23 DEF Scan
  <2>. QED
    BY <2>2, <2>3, <2>4
<1>24. ASSUME NEW r \in Reqs, MirrorOpen(r) PROVE TypeOK'
  <2>1. key[r] \in Keys
    BY <1>24 DEF MirrorOpen, Control
  <2>2. Opened(data[key[r]], r) \in Reqs
    BY <2>1, OpenedType
  <2>3. CASE src[r] \notin vdata[key[r]]
    BY <1>24, <2>3 DEF MirrorOpen
  <2>4. CASE src[r] \in vdata[key[r]]
    BY <1>24, <2>2, <2>4, EmptyBody DEF MirrorOpen
  <2>. QED
    BY <2>3, <2>4
<1>25. ASSUME NEW r \in Reqs, MirrorFill(r) PROVE TypeOK'
  <2>. DEFINE n == Len(sum[r])
  <2>1. UNCHANGED <<op, key, mode, from, vid, src, last, fd, status, tmp, data, meta, info,
                    vdir, vdata, vbody, vmeta, vinfo, vmark>>
    BY <1>25 DEF MirrorFill
  <2>2. src[r] \in Vids /\ fd[r] \in Reqs /\ n \in Nat
    BY <1>25 DEF MirrorFill, Control
  <2>3. CASE n < Len(vbody[src[r]])
    <3>1. vbody[src[r]][n + 1] \in Block
      BY <2>2, <2>3
    <3>2. /\ body' = [body EXCEPT ![fd[r]] = WriteAt(@, n + 1, vbody[src[r]][n + 1])]
          /\ sum' = [sum EXCEPT ![r] = Append(@, vbody[src[r]][n + 1])]
          /\ UNCHANGED pc
      BY <1>25, <2>3 DEF MirrorFill
    <3>3. body' \in [Reqs -> Seq(Block)]
      BY <2>2, <3>1, <3>2, WriteAtType
    <3>. QED
      BY <2>1, <3>1, <3>2, <3>3
  <2>4. CASE ~(n < Len(vbody[src[r]]))
    BY <1>25, <2>1, <2>4 DEF MirrorFill
  <2>. QED
    BY <2>3, <2>4
<1>26. ASSUME NEW r \in Reqs, Tidy(r) PROVE TypeOK'
  BY <1>26 DEF Tidy
<1>27. ASSUME NEW r \in Reqs, PutVersioningFill(r) PROVE TypeOK'
  BY <1>27 DEF PutVersioningFill
<1>28. ASSUME UNCHANGED vars PROVE TypeOK'
  BY <1>28 DEF vars
<1>29. ASSUME NEW r \in Reqs, NEW k0 \in Keys, NEW k \in Keys, CopyObject(r, k0, k) PROVE TypeOK'
  BY <1>29 DEF CopyObject, Begin
<1>30. ASSUME NEW r \in Reqs, CopyWriter(r) PROVE TypeOK'
  <2>1. key[r] \in Keys
    BY <1>30 DEF CopyWriter, Control
  <2>2. PICK i \in Reqs : tmp' = [tmp EXCEPT ![Stem[key[r]]] = i] /\ body' = [body EXCEPT ![i] = <<>>]
                          /\ fd' = [fd EXCEPT ![r] = i]
    BY <1>30, <2>1, OpenedType, StemAssumption DEF CopyWriter, OpenUpload
  <2>3. pc' = [pc EXCEPT ![r] = "blocks"] /\ mode' = [mode EXCEPT ![r] = status]
    BY <1>30 DEF CopyWriter, OpenUpload
  <2>4. UNCHANGED <<op, key, from, vid, src, last, sum, status, data, meta, info,
                    vdir, vdata, vbody, vmeta, vinfo, vmark>>
    BY <1>30 DEF CopyWriter
  <2>. QED
    BY <2>2, <2>3, <2>4, EmptyBody
<1>31. ASSUME NEW r \in Reqs, CopyBlock(r) PROVE TypeOK'
  <2>. DEFINE n == Len(sum[r])
  <2>1. UNCHANGED <<op, key, mode, from, vid, src, last, fd, status, tmp, data, meta, info,
                    vdir, vdata, vbody, vmeta, vinfo, vmark>>
    BY <1>31 DEF CopyBlock
  <2>2. from[r] \in Reqs /\ fd[r] \in Reqs /\ n \in Nat
    BY <1>31 DEF CopyBlock, Control
  <2>3. CASE n < Len(body[from[r]])
    <3>1. body[from[r]][n + 1] \in Block
      BY <2>2, <2>3
    <3>2. /\ body' = [body EXCEPT ![fd[r]] = WriteAt(@, n + 1, body[from[r]][n + 1])]
          /\ sum' = [sum EXCEPT ![r] = Append(@, body[from[r]][n + 1])]
          /\ UNCHANGED pc
      BY <1>31, <2>3 DEF CopyBlock
    <3>3. body' \in [Reqs -> Seq(Block)]
      BY <2>2, <3>1, <3>2, WriteAtType
    <3>. QED
      BY <2>1, <3>1, <3>2, <3>3
  <2>4. CASE ~(n < Len(body[from[r]]))
    BY <1>31, <2>1, <2>4 DEF CopyBlock
  <2>. QED
    BY <2>3, <2>4
<1>32. ASSUME NEW r \in Reqs, NEW k \in Keys, GetObjectVersion(r, k) PROVE TypeOK'
  <2>1. PICK v \in Entries(k) \cup {NoVid} :
          LET found == v \in vdata[k] \ vmark[k] IN
          /\ Begin(r, "getVersion", k, IF found THEN "stream" ELSE "failed")
          /\ vid' = [vid EXCEPT ![r] = v]
          /\ sum' = [sum EXCEPT ![r] = IF found THEN vbody[v] ELSE <<>>]
          /\ src' = [src EXCEPT ![r] = IF found /\ Described(k, v) THEN v ELSE NoVid]
    BY <1>32 DEF GetObjectVersion
  <2>2. v \in Vids \cup {NoVid} /\ (v \in vdata[k] => v \in Vids)
    BY DEF Entries
  <2>3. sum' \in [Reqs -> Seq(Block)]
    BY <2>1, <2>2, EmptyBody
  <2>. QED
    BY <1>32, <2>1, <2>2, <2>3 DEF GetObjectVersion, Begin
<1>. HIDE DEF TypeOK, Goto
<1>. QED
  BY <1>1, <1>2, <1>3, <1>4, <1>5, <1>6, <1>7, <1>8, <1>9, <1>10, <1>11, <1>12, <1>13, <1>14, <1>15, <1>16, <1>17, <1>18, <1>19, <1>20, <1>21, <1>22, <1>23, <1>24, <1>25, <1>26, <1>27, <1>28,
     <1>29, <1>30, <1>31, <1>32
     DEF Next, Receive, Handle, FinishCopy, Served

----------------------------------------------------------------------------
(* Every step preserves Control: it concerns the request that moves, and   *)
(* what it says of the others does not change.                             *)

LEMMA ControlStep == IInv /\ [Next]_vars => Control'
<1>. SUFFICES ASSUME TypeOK, Control, [Next]_vars PROVE Control'
  BY DEF IInv
<1>. USE DEF TypeOK, Control, Goto, PutOps, MutatorOps, Uploading, Inodes, Final,
             reqVars, mirrorVars, versionVars, fileVars
<1>1. ASSUME NEW r \in Reqs, NEW k \in Keys, PutObjectWriter(r, k) PROVE Control'
  <2>1. pc[r] = "idle" /\ vid[r] = NoVid
    BY <1>1 DEF PutObjectWriter, Admit
  <2>2. PICK i \in Reqs : fd' = [fd EXCEPT ![r] = i]
    BY <1>1, OpenedType, StemAssumption DEF PutObjectWriter, OpenUpload
  <2>3. pc' = [pc EXCEPT ![r] = "body"] /\ op' = [op EXCEPT ![r] = "put"]
        /\ key' = [key EXCEPT ![r] = k] /\ UNCHANGED <<from, vid, src>>
    BY <1>1 DEF PutObjectWriter, Begin
  <2>. QED
    BY <2>1, <2>2, <2>3
<1>2. ASSUME NEW r \in Reqs, NEW k \in Keys, DeleteObject(r, k) PROVE Control'
  BY <1>2 DEF DeleteObject, Admit, Begin
<1>3. ASSUME NEW r \in Reqs, NEW k \in Keys, DeleteVersion(r, k) PROVE Control'
  BY <1>3 DEF DeleteVersion, Admit, Begin
<1>4. ASSUME NEW r \in Reqs, NEW k \in Keys, GetObject(r, k) PROVE Control'
  BY <1>4 DEF GetObject, Begin
<1>5. ASSUME NEW r \in Reqs, NEW m \in {"Enabled", "Suspended"}, PutVersioning(r, m) PROVE Control'
  BY <1>5 DEF PutVersioning, Begin
<1>6. ASSUME NEW r \in Reqs, WriteBlock(r) PROVE Control'
  BY <1>6 DEF WriteBlock
<1>7. ASSUME NEW r \in Reqs, Abort(r) PROVE Control'
  BY <1>7 DEF Abort
<1>8. ASSUME NEW r \in Reqs, Rename(r) PROVE Control'
  BY <1>8 DEF Rename
<1>9. ASSUME NEW r \in Reqs, EndGet(r) PROVE Control'
  BY <1>9 DEF EndGet
<1>10. ASSUME NEW r \in Reqs, Abandon(r) PROVE Control'
  BY <1>10 DEF Abandon
<1>11. ASSUME NEW r \in Reqs, PutVersion(r) PROVE Control'
  BY <1>11 DEF PutVersion, NewVersion, Vids, NoVid
<1>12. ASSUME NEW r \in Reqs, CopyOpen(r) PROVE Control'
  BY <1>12 DEF CopyOpen
<1>13. ASSUME NEW r \in Reqs, CopyFill(r) PROVE Control'
  BY <1>13 DEF CopyFill
<1>14. ASSUME NEW r \in Reqs, VersionMeta(r) PROVE Control'
  BY <1>14 DEF VersionMeta
<1>15. ASSUME NEW r \in Reqs, VersionMetaFill(r) PROVE Control'
  BY <1>15 DEF VersionMetaFill
<1>16. ASSUME NEW r \in Reqs, MetaCreate(r) PROVE Control'
  BY <1>16 DEF MetaCreate, Opened
<1>17. ASSUME NEW r \in Reqs, MetaFill(r) PROVE Control'
  BY <1>17 DEF MetaFill
<1>18. ASSUME NEW r \in Reqs, MarkerVersion(r) PROVE Control'
  BY <1>18 DEF MarkerVersion, NewVersion, Vids, NoVid
<1>19. ASSUME NEW r \in Reqs, CreateMarker(r) PROVE Control'
  BY <1>19 DEF CreateMarker
<1>20. ASSUME NEW r \in Reqs, UnlinkData(r) PROVE Control'
  BY <1>20 DEF UnlinkData
<1>21. ASSUME NEW r \in Reqs, UnlinkMeta(r) PROVE Control'
  BY <1>21 DEF UnlinkMeta
<1>22. ASSUME NEW r \in Reqs, PurgeRest(r) PROVE Control'
  BY <1>22 DEF PurgeRest
<1>23. ASSUME NEW r \in Reqs, Scan(r) PROVE Control'
  BY <1>23 DEF Scan, Vids, NoVid
<1>24. ASSUME NEW r \in Reqs, MirrorOpen(r) PROVE Control'
  BY <1>24 DEF MirrorOpen, Opened
<1>25. ASSUME NEW r \in Reqs, MirrorFill(r) PROVE Control'
  BY <1>25 DEF MirrorFill
<1>26. ASSUME NEW r \in Reqs, Tidy(r) PROVE Control'
  BY <1>26 DEF Tidy
<1>27. ASSUME NEW r \in Reqs, PutVersioningFill(r) PROVE Control'
  BY <1>27 DEF PutVersioningFill
<1>28. ASSUME UNCHANGED vars PROVE Control'
  BY <1>28 DEF vars
<1>29. ASSUME NEW r \in Reqs, NEW k0 \in Keys, NEW k \in Keys, CopyObject(r, k0, k) PROVE Control'
  BY <1>29 DEF CopyObject, Admit, Begin
<1>30. ASSUME NEW r \in Reqs, CopyWriter(r) PROVE Control'
  <2>1. pc[r] = "writer" /\ key[r] \in Keys
    BY <1>30 DEF CopyWriter
  <2>2. PICK i \in Reqs : fd' = [fd EXCEPT ![r] = i]
    BY <1>30, <2>1, OpenedType, StemAssumption DEF CopyWriter, OpenUpload
  <2>3. pc' = [pc EXCEPT ![r] = "blocks"] /\ UNCHANGED <<op, key, from, vid, src>>
    BY <1>30 DEF CopyWriter
  <2>. QED
    BY <2>1, <2>2, <2>3
<1>31. ASSUME NEW r \in Reqs, CopyBlock(r) PROVE Control'
  BY <1>31 DEF CopyBlock
<1>32. ASSUME NEW r \in Reqs, NEW k \in Keys, GetObjectVersion(r, k) PROVE Control'
  <2>1. PICK v \in Entries(k) \cup {NoVid} :
          /\ pc' = [pc EXCEPT ![r] = IF v \in vdata[k] \ vmark[k] THEN "stream" ELSE "failed"]
          /\ vid' = [vid EXCEPT ![r] = v]
    BY <1>32 DEF GetObjectVersion, Begin
  <2>2. pc[r] = "idle" /\ op' = [op EXCEPT ![r] = "getVersion"] /\ key' = [key EXCEPT ![r] = k]
        /\ UNCHANGED <<fd, from>> /\ \E w : src' = [src EXCEPT ![r] = w]
    BY <1>32 DEF GetObjectVersion, Begin
  <2>3. v \in vdata[k] => v # NoVid
    BY DEF Vids, NoVid
  <2>. QED
    BY <2>1, <2>2, <2>3
<1>. HIDE DEF TypeOK, Control
<1>. QED
  BY <1>1, <1>2, <1>3, <1>4, <1>5, <1>6, <1>7, <1>8, <1>9, <1>10, <1>11, <1>12, <1>13, <1>14, <1>15, <1>16, <1>17, <1>18, <1>19, <1>20, <1>21, <1>22, <1>23, <1>24, <1>25, <1>26, <1>27, <1>28,
     <1>29, <1>30, <1>31, <1>32
     DEF Next, Receive, Handle, FinishCopy, Served

----------------------------------------------------------------------------
(* Every step preserves OneOwner: an identifier is taken only if it is not *)
(* issued, and no other step gives a PUT or DELETE one.                    *)

LEMMA OneOwnerStep == IInv /\ [Next]_vars => OneOwner'
<1>. SUFFICES ASSUME TypeOK, Control, OneOwner, [Next]_vars PROVE OneOwner'
  BY DEF IInv
<1>. USE DEF TypeOK, Control, OneOwner, PutOps, Uploading, Goto, reqVars, mirrorVars, versionVars, fileVars
<1>1. ASSUME NEW r \in Reqs, NEW k \in Keys, PutObjectWriter(r, k) PROVE OneOwner'
  BY <1>1 DEF PutObjectWriter, OpenUpload, Admit, Begin
<1>2. ASSUME NEW r \in Reqs, NEW k \in Keys, DeleteObject(r, k) PROVE OneOwner'
  BY <1>2 DEF DeleteObject, Admit, Begin
<1>3. ASSUME NEW r \in Reqs, NEW k \in Keys, DeleteVersion(r, k) PROVE OneOwner'
  BY <1>3 DEF DeleteVersion, Admit, Begin
<1>4. ASSUME NEW r \in Reqs, NEW k \in Keys, GetObject(r, k) PROVE OneOwner'
  BY <1>4 DEF GetObject, Begin
<1>5. ASSUME NEW r \in Reqs, NEW m \in {"Enabled", "Suspended"}, PutVersioning(r, m) PROVE OneOwner'
  BY <1>5 DEF PutVersioning, Begin
<1>6. ASSUME NEW r \in Reqs, WriteBlock(r) PROVE OneOwner'
  BY <1>6 DEF WriteBlock
<1>7. ASSUME NEW r \in Reqs, Abort(r) PROVE OneOwner'
  BY <1>7 DEF Abort
<1>8. ASSUME NEW r \in Reqs, Rename(r) PROVE OneOwner'
  BY <1>8 DEF Rename
<1>9. ASSUME NEW r \in Reqs, EndGet(r) PROVE OneOwner'
  BY <1>9 DEF EndGet
<1>10. ASSUME NEW r \in Reqs, Abandon(r) PROVE OneOwner'
  BY <1>10 DEF Abandon
<1>11. ASSUME NEW r \in Reqs, PutVersion(r) PROVE OneOwner'
  BY <1>11 DEF PutVersion, NewVersion, NewVid, Issued
<1>12. ASSUME NEW r \in Reqs, CopyOpen(r) PROVE OneOwner'
  BY <1>12 DEF CopyOpen
<1>13. ASSUME NEW r \in Reqs, CopyFill(r) PROVE OneOwner'
  BY <1>13 DEF CopyFill
<1>14. ASSUME NEW r \in Reqs, VersionMeta(r) PROVE OneOwner'
  BY <1>14 DEF VersionMeta
<1>15. ASSUME NEW r \in Reqs, VersionMetaFill(r) PROVE OneOwner'
  BY <1>15 DEF VersionMetaFill
<1>16. ASSUME NEW r \in Reqs, MetaCreate(r) PROVE OneOwner'
  BY <1>16 DEF MetaCreate
<1>17. ASSUME NEW r \in Reqs, MetaFill(r) PROVE OneOwner'
  BY <1>17 DEF MetaFill
<1>18. ASSUME NEW r \in Reqs, MarkerVersion(r) PROVE OneOwner'
  BY <1>18 DEF MarkerVersion, NewVersion, NewVid, Issued
<1>19. ASSUME NEW r \in Reqs, CreateMarker(r) PROVE OneOwner'
  BY <1>19 DEF CreateMarker
<1>20. ASSUME NEW r \in Reqs, UnlinkData(r) PROVE OneOwner'
  BY <1>20 DEF UnlinkData
<1>21. ASSUME NEW r \in Reqs, UnlinkMeta(r) PROVE OneOwner'
  BY <1>21 DEF UnlinkMeta
<1>22. ASSUME NEW r \in Reqs, PurgeRest(r) PROVE OneOwner'
  BY <1>22 DEF PurgeRest
<1>23. ASSUME NEW r \in Reqs, Scan(r) PROVE OneOwner'
  BY <1>23 DEF Scan
<1>24. ASSUME NEW r \in Reqs, MirrorOpen(r) PROVE OneOwner'
  BY <1>24 DEF MirrorOpen
<1>25. ASSUME NEW r \in Reqs, MirrorFill(r) PROVE OneOwner'
  BY <1>25 DEF MirrorFill
<1>26. ASSUME NEW r \in Reqs, Tidy(r) PROVE OneOwner'
  BY <1>26 DEF Tidy
<1>27. ASSUME NEW r \in Reqs, PutVersioningFill(r) PROVE OneOwner'
  BY <1>27 DEF PutVersioningFill
<1>28. ASSUME UNCHANGED vars PROVE OneOwner'
  BY <1>28 DEF vars
<1>29. ASSUME NEW r \in Reqs, NEW k0 \in Keys, NEW k \in Keys, CopyObject(r, k0, k) PROVE OneOwner'
  BY <1>29 DEF CopyObject, Admit, Begin
<1>30. ASSUME NEW r \in Reqs, CopyWriter(r) PROVE OneOwner'
  BY <1>30 DEF CopyWriter, OpenUpload
<1>31. ASSUME NEW r \in Reqs, CopyBlock(r) PROVE OneOwner'
  BY <1>31 DEF CopyBlock
<1>32. ASSUME NEW r \in Reqs, NEW k \in Keys, GetObjectVersion(r, k) PROVE OneOwner'
  BY <1>32 DEF GetObjectVersion, Begin
<1>. HIDE DEF TypeOK, Control, OneOwner, Goto
<1>. QED
  BY <1>1, <1>2, <1>3, <1>4, <1>5, <1>6, <1>7, <1>8, <1>9, <1>10, <1>11, <1>12, <1>13, <1>14, <1>15, <1>16, <1>17, <1>18, <1>19, <1>20, <1>21, <1>22, <1>23, <1>24, <1>25, <1>26, <1>27, <1>28,
     <1>29, <1>30, <1>31, <1>32
     DEF Next, Receive, Handle, FinishCopy, Served

----------------------------------------------------------------------------
(* Every step preserves Recorded.                                          *)

LEMMA RecordedStep == IInv /\ [Next]_vars => Recorded'
<1>. SUFFICES ASSUME TypeOK, Control, OneOwner, Recorded, [Next]_vars PROVE Recorded'
  BY DEF IInv
<1>. USE DEF TypeOK, Control, OneOwner, Recorded, Purged, Goto, PutOps, MutatorOps,
             Uploading, HasData, HasMeta, HasInfo, HasMark, reqVars, mirrorVars, versionVars, fileVars
<1>1. ASSUME NEW r \in Reqs, NEW k \in Keys, PutObjectWriter(r, k) PROVE Recorded'
  BY <1>1 DEF PutObjectWriter, OpenUpload, Admit, Begin
<1>2. ASSUME NEW r \in Reqs, NEW k \in Keys, DeleteObject(r, k) PROVE Recorded'
  BY <1>2 DEF DeleteObject, Admit, Begin
<1>3. ASSUME NEW r \in Reqs, NEW k \in Keys, DeleteVersion(r, k) PROVE Recorded'
  BY <1>3 DEF DeleteVersion, Admit, Begin
<1>4. ASSUME NEW r \in Reqs, NEW k \in Keys, GetObject(r, k) PROVE Recorded'
  BY <1>4 DEF GetObject, Begin
<1>5. ASSUME NEW r \in Reqs, NEW m \in {"Enabled", "Suspended"}, PutVersioning(r, m) PROVE Recorded'
  BY <1>5 DEF PutVersioning, Begin
<1>6. ASSUME NEW r \in Reqs, WriteBlock(r) PROVE Recorded'
  BY <1>6 DEF WriteBlock
<1>7. ASSUME NEW r \in Reqs, Abort(r) PROVE Recorded'
  BY <1>7 DEF Abort
<1>8. ASSUME NEW r \in Reqs, Rename(r) PROVE Recorded'
  <2>1. pc[r] \in {"body", "rename"} /\ \E next \in {"failed", "version", "meta"} : pc' = [pc EXCEPT ![r] = next]
    BY <1>8 DEF Rename
  <2>2. UNCHANGED <<op, key, vid, sum, vdata, vmeta, vinfo, vmark>>
    BY <1>8 DEF Rename
  <2>. QED
    BY <2>1, <2>2
<1>9. ASSUME NEW r \in Reqs, EndGet(r) PROVE Recorded'
  BY <1>9 DEF EndGet
<1>10. ASSUME NEW r \in Reqs, Abandon(r) PROVE Recorded'
  BY <1>10 DEF Abandon
<1>11. ASSUME NEW r \in Reqs, PutVersion(r) PROVE Recorded'
  BY <1>11 DEF PutVersion, NewVersion
<1>12. ASSUME NEW r \in Reqs, CopyOpen(r) PROVE Recorded'
  <2>1. CASE data[key[r]] = NoFile \/ ~vdir[key[r]]
    <3>1. pc' = [pc EXCEPT ![r] = "failed"]
          /\ UNCHANGED <<op, key, vid, sum, vdata, vmeta, vinfo, vmark>>
      BY <1>12, <2>1 DEF CopyOpen
    <3>. QED
      BY <3>1
  <2>2. CASE ~(data[key[r]] = NoFile \/ ~vdir[key[r]])
    <3>1. pc[r] = "copy" /\ pc' = [pc EXCEPT ![r] = "copyfill"]
          /\ vdata' = [vdata EXCEPT ![key[r]] = @ \cup {vid[r]}]
          /\ UNCHANGED <<op, key, vid, sum, vmeta, vinfo, vmark>>
      BY <1>12, <2>2 DEF CopyOpen
    <3>. QED
      BY <3>1
  <2>. QED
    BY <2>1, <2>2
<1>13. ASSUME NEW r \in Reqs, CopyFill(r) PROVE Recorded'
  BY <1>13 DEF CopyFill
<1>14. ASSUME NEW r \in Reqs, VersionMeta(r) PROVE Recorded'
  <2>1. CASE ~vdir[key[r]]
    <3>1. pc' = [pc EXCEPT ![r] = "failed"]
          /\ UNCHANGED <<op, key, vid, sum, vdata, vmeta, vinfo, vmark>>
      BY <1>14, <2>1 DEF VersionMeta
    <3>. QED
      BY <3>1
  <2>2. CASE vdir[key[r]]
    <3>1. pc[r] = "vmeta" /\ pc' = [pc EXCEPT ![r] = "vmetafill"]
          /\ vmeta' = [vmeta EXCEPT ![key[r]] = @ \cup {vid[r]}]
          /\ vinfo' = [vinfo EXCEPT ![vid[r]] = Empty]
          /\ UNCHANGED <<op, key, vid, sum, vdata, vmark>>
      BY <1>14, <2>2 DEF VersionMeta
    <3>. QED
      BY <3>1
  <2>. QED
    BY <2>1, <2>2
<1>15. ASSUME NEW r \in Reqs, VersionMetaFill(r) PROVE Recorded'
  BY <1>15 DEF VersionMetaFill
<1>16. ASSUME NEW r \in Reqs, MetaCreate(r) PROVE Recorded'
  <2>1. pc[r] = "meta" /\ \E next \in {"failed", "metafill"} : pc' = [pc EXCEPT ![r] = next]
    BY <1>16 DEF MetaCreate
  <2>2. UNCHANGED <<op, key, vid, sum, vdata, vmeta, vinfo, vmark>>
    BY <1>16 DEF MetaCreate
  <2>. QED
    BY <2>1, <2>2
<1>17. ASSUME NEW r \in Reqs, MetaFill(r) PROVE Recorded'
  <2>1. pc[r] = "metafill" /\ \E next \in {"ok", "tidy"} : pc' = [pc EXCEPT ![r] = next]
    BY <1>17 DEF MetaFill
  <2>2. UNCHANGED <<op, key, vid, sum, vdata, vmeta, vinfo, vmark>>
    BY <1>17 DEF MetaFill
  <2>. QED
    BY <2>1, <2>2
<1>18. ASSUME NEW r \in Reqs, MarkerVersion(r) PROVE Recorded'
  BY <1>18 DEF MarkerVersion, NewVersion
<1>19. ASSUME NEW r \in Reqs, CreateMarker(r) PROVE Recorded'
  <2>1. CASE ~vdir[key[r]]
    <3>1. pc' = [pc EXCEPT ![r] = "failed"]
          /\ UNCHANGED <<op, key, vid, sum, vdata, vmeta, vinfo, vmark>>
      BY <1>19, <2>1 DEF CreateMarker
    <3>. QED
      BY <3>1
  <2>2. CASE vdir[key[r]]
    <3>1. pc[r] = "markfile" /\ pc' = [pc EXCEPT ![r] = "unlink"]
          /\ vmark' = [vmark EXCEPT ![key[r]] = @ \cup {vid[r]}]
          /\ vmeta' = [vmeta EXCEPT ![key[r]] = @ \cup {vid[r]}]
          /\ UNCHANGED <<op, key, vid, sum, vdata, vinfo>>
      BY <1>19, <2>2 DEF CreateMarker
    <3>. QED
      BY <3>1
  <2>. QED
    BY <2>1, <2>2
<1>20. ASSUME NEW r \in Reqs, UnlinkData(r) PROVE Recorded'
  <2>1. pc[r] = "unlink" /\ \E next \in {"ok", "unlinkmeta"} : pc' = [pc EXCEPT ![r] = next]
    BY <1>20 DEF UnlinkData
  <2>2. UNCHANGED <<op, key, vid, sum, vdata, vmeta, vinfo, vmark>>
    BY <1>20 DEF UnlinkData
  <2>. QED
    BY <2>1, <2>2
<1>21. ASSUME NEW r \in Reqs, UnlinkMeta(r) PROVE Recorded'
  BY <1>21 DEF UnlinkMeta
<1>22. ASSUME NEW r \in Reqs, PurgeRest(r) PROVE Recorded'
  BY <1>22 DEF PurgeRest
<1>23. ASSUME NEW r \in Reqs, Scan(r) PROVE Recorded'
  <2>1. pc[r] = "scan" /\ \E next \in {"tidy", "unlink", "mirror"} : pc' = [pc EXCEPT ![r] = next]
    BY <1>23 DEF Scan
  <2>2. UNCHANGED <<op, key, vid, sum, vdata, vmeta, vinfo, vmark>>
    BY <1>23 DEF Scan
  <2>. QED
    BY <2>1, <2>2
<1>24. ASSUME NEW r \in Reqs, MirrorOpen(r) PROVE Recorded'
  <2>1. pc[r] = "mirror" /\ \E next \in {"failed", "mirrorfill"} : pc' = [pc EXCEPT ![r] = next]
    BY <1>24 DEF MirrorOpen
  <2>2. UNCHANGED <<op, key, vid, sum, vdata, vmeta, vinfo, vmark>>
    BY <1>24 DEF MirrorOpen
  <2>. QED
    BY <2>1, <2>2
<1>25. ASSUME NEW r \in Reqs, MirrorFill(r) PROVE Recorded'
  <2>1. pc[r] = "mirrorfill" /\ UNCHANGED <<op, key, vid, vdata, vmeta, vinfo, vmark>>
    BY <1>25 DEF MirrorFill
  <2>2. \E next \in {"mirrorfill", "meta", "tidy"} : pc' = [pc EXCEPT ![r] = next]
    BY <1>25 DEF MirrorFill
  <2>3. \A q \in Reqs : q # r => sum'[q] = sum[q]
    BY <1>25 DEF MirrorFill
  <2>4. op[r] = "deleteVersion"
    BY <2>1
  <2>. QED
    BY <2>1, <2>2, <2>3, <2>4
<1>26. ASSUME NEW r \in Reqs, Tidy(r) PROVE Recorded'
  BY <1>26 DEF Tidy
<1>27. ASSUME NEW r \in Reqs, PutVersioningFill(r) PROVE Recorded'
  BY <1>27 DEF PutVersioningFill
<1>28. ASSUME UNCHANGED vars PROVE Recorded'
  BY <1>28 DEF vars
<1>29. ASSUME NEW r \in Reqs, NEW k0 \in Keys, NEW k \in Keys, CopyObject(r, k0, k) PROVE Recorded'
  BY <1>29 DEF CopyObject, Admit, Begin
<1>30. ASSUME NEW r \in Reqs, CopyWriter(r) PROVE Recorded'
  BY <1>30 DEF CopyWriter, OpenUpload
<1>31. ASSUME NEW r \in Reqs, CopyBlock(r) PROVE Recorded'
  <2>1. pc[r] = "blocks" /\ UNCHANGED <<op, key, vid, vdata, vmeta, vinfo, vmark>>
    BY <1>31 DEF CopyBlock
  <2>2. \E next \in {"blocks", "rename"} : pc' = [pc EXCEPT ![r] = next]
    BY <1>31 DEF CopyBlock
  <2>3. \A q \in Reqs : q # r => sum'[q] = sum[q]
    BY <1>31 DEF CopyBlock
  <2>. QED
    BY <2>1, <2>2, <2>3
<1>32. ASSUME NEW r \in Reqs, NEW k \in Keys, GetObjectVersion(r, k) PROVE Recorded'
  <2>1. pc[r] = "idle" /\ op' = [op EXCEPT ![r] = "getVersion"] /\ op[r] = "none"
        /\ UNCHANGED <<vdata, vmeta, vinfo, vmark>>
    BY <1>32 DEF GetObjectVersion, Begin
  <2>2. \A q \in Reqs \ {r} : pc'[q] = pc[q] /\ key'[q] = key[q] /\ vid'[q] = vid[q] /\ sum'[q] = sum[q]
    BY <1>32 DEF GetObjectVersion, Begin
  <2>3. op'[r] = "getVersion" /\ \A q \in Reqs \ {r} : op'[q] = op[q]
    BY <2>1
  <2>. HIDE DEF TypeOK, Control, OneOwner
  <2>4. \A v : Purged(v)' <=> Purged(v)
    BY <2>1, <2>2, <2>3
  <2>5. ASSUME NEW q \in Reqs, q # r, vid'[q] # NoVid, ~Purged(vid[q])
        PROVE  /\ op'[q] \in PutOps /\ pc'[q] \in HasData => vid'[q] \in vdata'[key'[q]]
               /\ op'[q] \in PutOps /\ pc'[q] \in HasMeta => vid'[q] \in vmeta'[key'[q]]
               /\ op'[q] \in PutOps /\ pc'[q] \in HasInfo =>
                   vinfo'[vid'[q]] = [etag |-> sum'[q], vid |-> vid'[q]]
               /\ op'[q] = "delete" /\ pc'[q] \in HasMark => vid'[q] \in vmark'[key'[q]]
    BY <2>1, <2>2, <2>3, <2>5
  <2>. QED
    BY <2>2, <2>3, <2>4, <2>5
<1>. HIDE DEF TypeOK, Control, OneOwner, Recorded, Goto
<1>. QED
  BY <1>1, <1>2, <1>3, <1>4, <1>5, <1>6, <1>7, <1>8, <1>9, <1>10, <1>11, <1>12, <1>13, <1>14, <1>15, <1>16, <1>17, <1>18, <1>19, <1>20, <1>21, <1>22, <1>23, <1>24, <1>25, <1>26, <1>27, <1>28,
     <1>29, <1>30, <1>31, <1>32
     DEF Next, Receive, Handle, FinishCopy, Served

----------------------------------------------------------------------------
(* Theorems.                                                               *)

LEMMA Invariance == Spec => []IInv
<1>1. IInv /\ [Next]_vars => IInv'
  BY TypeStep, ControlStep, OneOwnerStep, RecordedStep DEF IInv
<1>. QED
  BY InitIInv, <1>1, PTL DEF Spec

\* Every variable keeps its type: no handler stores an identifier, an inode
\* or a file content it should not, for requests that overlap in any way.
THEOREM TypeCorrect == Spec => []TypeOK
<1>1. IInv => TypeOK
  BY DEF IInv
<1>. QED
  BY Invariance, <1>1, PTL

\* finish, delete_object: what was answered is on disk, with its metadata,
\* until a client deletes that version; for any interleaving and any failure.
THEOREM AckedAreDurable == Spec => []AckedDurable
<1>1. IInv => AckedDurable
  BY DEF IInv, Recorded, AckedDurable, Acked, HasData, HasMeta, HasInfo, HasMark
<1>. QED
  BY Invariance, <1>1, PTL

\* finish: only the request that owns an identifier writes to its data file,
\* and it is done with it when it answers.
THEOREM AckedAreFrozen == Spec => AckedVersionFrozen
<1> DEFINE Frozen == \A r \in Reqs : Acked(r) => vbody'[vid[r]] = vbody[vid[r]]
<1>1. IInv /\ [Next]_vars => [Frozen]_vars
  <2>. SUFFICES ASSUME IInv, [Next]_vars, NEW q \in Reqs, Acked(q)
                PROVE  vbody'[vid[q]] = vbody[vid[q]]
    OBVIOUS
  <2>. USE DEF IInv, TypeOK, Acked
  <2>1. ASSUME NEW r \in Reqs, CopyOpen(r) PROVE vbody'[vid[q]] = vbody[vid[q]]
    <3>1. vid[r] # vid[q]
      BY <2>1 DEF CopyOpen, Control, OneOwner
    <3>. QED
      BY <2>1, <3>1 DEF CopyOpen
  <2>2. ASSUME NEW r \in Reqs, CopyFill(r) PROVE vbody'[vid[q]] = vbody[vid[q]]
    <3>1. vid[r] # vid[q]
      BY <2>2 DEF CopyFill, Control, OneOwner
    <3>. QED
      BY <2>2, <3>1 DEF CopyFill
  <2>3. CASE UNCHANGED vbody
    BY <2>3
  <2>4. \/ \E r \in Reqs : CopyOpen(r) \/ CopyFill(r)
        \/ UNCHANGED vbody
    <3>. USE DEF fileVars, versionVars
    <3>1. ASSUME NEW r \in Reqs, NEW k \in Keys, Receive(r, k) PROVE UNCHANGED vbody
      BY <3>1 DEF Receive, PutObjectWriter, CopyObject, DeleteObject, DeleteVersion, GetObject,
                  GetObjectVersion
    <3>2. ASSUME NEW r \in Reqs, NEW m \in Statuses, PutVersioning(r, m) PROVE UNCHANGED vbody
      BY <3>2 DEF PutVersioning
    <3>3. ASSUME NEW r \in Reqs, WriteBlock(r) \/ Abort(r) \/ Rename(r) \/ EndGet(r) \/ Abandon(r)
          PROVE UNCHANGED vbody
      BY <3>3 DEF WriteBlock, Abort, Rename, EndGet, Abandon
    <3>4. ASSUME NEW r \in Reqs, Handle(r), ~CopyOpen(r), ~CopyFill(r) PROVE UNCHANGED vbody
      BY <3>4 DEF Handle, CopyWriter, CopyBlock, FinishCopy, Rename, PutVersion, MarkerVersion, NewVersion, VersionMeta, VersionMetaFill,
                  MetaCreate, MetaFill, CreateMarker, UnlinkData, UnlinkMeta, PurgeRest, Scan,
                  MirrorOpen, MirrorFill, Tidy, PutVersioningFill
    <3>5. CASE Served \/ UNCHANGED vars
      BY <3>5 DEF Served, vars
    <3>. QED
      BY <3>1, <3>2, <3>3, <3>4, <3>5 DEF Next, Statuses
  <2>. QED
    BY <2>1, <2>2, <2>3, <2>4
<1>. QED
  BY Invariance, <1>1, PTL DEF Spec, AckedVersionFrozen
=============================================================================
