--------------------------- MODULE MultipartProofs ---------------------------
(***************************************************************************)
(* Proofs about one bucket's tree and its handlers (BucketTree, Multipart),*)
(* for any number of threads, uploads and parts, in every world: clients   *)
(* may race each other and handlers stop anywhere.                         *)
(*                                                                         *)
(* The properties are not inductive.  An aborted upload stays gone because *)
(* an abort keeps the upload's directory on its list until it has unlinked *)
(* it and no handler but create_multipart makes one, with an identifier of *)
(* its own.  An acknowledged object stays because every deletion that is   *)
(* next to its writer shows in the history, and delete_bucket looks at     *)
(* data/ before it removes anything.  MultipartInv says that of each       *)
(* handler (JobInv) and of the files (FilesInv).                           *)
(*                                                                         *)
(* A step of one handler must let the others keep theirs: that is Steady,  *)
(* under which the steps need only speak of their own handler.             *)
(***************************************************************************)
EXTENDS Multipart, TLAPS

(* Paths. *)

\* The prefixes of a path of one, two, three and four names: what Path::parent walks through.
LEMMA UptoOne ==
  ASSUME NEW a
  PROVE  Upto(<<a>>) = {<<>>, <<a>>}
<1>1. Len(<<a>>) = 1 /\ 0..1 = {0, 1}
  BY SMTT(20)
<1>2. SubSeq(<<a>>, 1, 0) = <<>> /\ SubSeq(<<a>>, 1, 1) = <<a>>
  <2>1. \A i \in 0..1 : SubSeq(<<a>>, 1, i) = [j \in 1..i |-> <<a>>[j]]
    BY SMTT(20)
  <2>2. [j \in 1..0 |-> <<a>>[j]] = <<>> /\ [j \in 1..1 |-> <<a>>[j]] = <<a>>
    BY SMTT(20)
  <2>. QED
    BY <1>1, <2>1, <2>2, Zenon
<1>. QED
  BY <1>1, <1>2, Zenon DEF Upto

\* As UptoOne, of two names.
LEMMA UptoTwo ==
  ASSUME NEW a, NEW b
  PROVE  Upto(<<a, b>>) = {<<>>, <<a>>, <<a, b>>}
<1>1. Len(<<a, b>>) = 2 /\ 0..2 = {0, 1, 2}
  BY SMTT(20)
<1>2. SubSeq(<<a, b>>, 1, 0) = <<>> /\ SubSeq(<<a, b>>, 1, 1) = <<a>> /\ SubSeq(<<a, b>>, 1, 2) = <<a, b>>
  <2>1. \A i \in 0..2 : SubSeq(<<a, b>>, 1, i) = [j \in 1..i |-> <<a, b>>[j]]
    BY SMTT(20)
  <2>2. [j \in 1..0 |-> <<a, b>>[j]] = <<>>
    BY SMTT(20)
  <2>3. [j \in 1..1 |-> <<a, b>>[j]] = <<a>>
    BY SMTT(20)
  <2>4. [j \in 1..2 |-> <<a, b>>[j]] = <<a, b>>
    BY SMTT(20)
  <2>. QED
    BY <1>1, <2>1, <2>2, <2>3, <2>4, Zenon
<1>. QED
  BY <1>1, <1>2, Zenon DEF Upto

\* As UptoOne, of three names.
LEMMA UptoThree ==
  ASSUME NEW a, NEW b, NEW c
  PROVE  Upto(<<a, b, c>>) = {<<>>, <<a>>, <<a, b>>, <<a, b, c>>}
<1>. DEFINE s == <<a, b, c>>
<1>1. Len(s) = 3 /\ 0..3 = {0, 1, 2, 3}
  BY SMTT(20)
<1>2. SubSeq(s, 1, 0) = <<>> /\ SubSeq(s, 1, 1) = <<a>> /\ SubSeq(s, 1, 2) = <<a, b>> /\ SubSeq(s, 1, 3) = s
  <2>1. \A i \in 0..3 : SubSeq(s, 1, i) = [j \in 1..i |-> s[j]]
    BY SMTT(20)
  <2>2. [j \in 1..0 |-> s[j]] = <<>>
    BY SMTT(20)
  <2>3. [j \in 1..1 |-> s[j]] = <<a>>
    BY SMTT(20)
  <2>4. [j \in 1..2 |-> s[j]] = <<a, b>>
    BY SMTT(20)
  <2>5. [j \in 1..3 |-> s[j]] = s
    BY SMTT(20)
  <2>. HIDE DEF s
  <2>. QED
    BY <1>1, <2>1, <2>2, <2>3, <2>4, <2>5, Zenon
<1>. HIDE DEF s
<1>3. Upto(s) = {<<>>, <<a>>, <<a, b>>, s}
  <2>1. \A x : x \in Upto(s) <=> x = SubSeq(s, 1, 0) \/ x = SubSeq(s, 1, 1) \/ x = SubSeq(s, 1, 2) \/ x = SubSeq(s, 1, 3)
    BY <1>1, Zenon DEF Upto
  <2>. QED
    BY <1>2, <2>1, Zenon
<1>. QED
  BY <1>3, Zenon DEF s

\* As UptoOne, of four names.
LEMMA UptoFour ==
  ASSUME NEW a, NEW b, NEW c, NEW d
  PROVE  Upto(<<a, b, c, d>>) = {<<>>, <<a>>, <<a, b>>, <<a, b, c>>, <<a, b, c, d>>}
<1>. DEFINE s == <<a, b, c, d>>
<1>1. Len(s) = 4 /\ 0..4 = {0, 1, 2, 3, 4}
  BY SMTT(20)
<1>2. /\ SubSeq(s, 1, 0) = <<>> /\ SubSeq(s, 1, 1) = <<a>> /\ SubSeq(s, 1, 2) = <<a, b>>
      /\ SubSeq(s, 1, 3) = <<a, b, c>> /\ SubSeq(s, 1, 4) = s
  <2>1. \A i \in 0..4 : SubSeq(s, 1, i) = [j \in 1..i |-> s[j]]
    BY SMTT(20)
  <2>2. [j \in 1..0 |-> s[j]] = <<>>
    BY SMTT(20)
  <2>3. [j \in 1..1 |-> s[j]] = <<a>>
    BY SMTT(20)
  <2>4. [j \in 1..2 |-> s[j]] = <<a, b>>
    BY SMTT(20)
  <2>5. [j \in 1..3 |-> s[j]] = <<a, b, c>>
    BY SMTT(20)
  <2>6. [j \in 1..4 |-> s[j]] = s
    BY SMTT(20)
  <2>. HIDE DEF s
  <2>. QED
    BY <1>1, <2>1, <2>2, <2>3, <2>4, <2>5, <2>6, Zenon
<1>. HIDE DEF s
<1>3. Upto(s) = {<<>>, <<a>>, <<a, b>>, <<a, b, c>>, s}
  <2>1. \A x : x \in Upto(s) <=> \/ x = SubSeq(s, 1, 0) \/ x = SubSeq(s, 1, 1) \/ x = SubSeq(s, 1, 2)
                               \/ x = SubSeq(s, 1, 3) \/ x = SubSeq(s, 1, 4)
    BY <1>1, Zenon DEF Upto
  <2>. QED
    BY <1>2, <2>1, Zenon
<1>. QED
  BY <1>3, Zenon DEF s

\* All paths a bucket can have, those of one upload, and those of none.
Nodes == Files \cup Dirs

Under(u) == {Upload(u), Info(u), Parts(u)} \cup UNION {{Part(u, n), PartMeta(u, n)} : n \in PartNumbers}

\* What a path is below.
LEMMA UptoAll ==
  /\ Upto(Root) = {Root}
  /\ Upto(Marker) = {Root, Marker} /\ Upto(Data) = {Root, Data} /\ Upto(Dir) = {Root, Data, Dir}
  /\ Upto(Object) = {Root, Data, Dir, Object} /\ Upto(Tmp) = {Root, Data, Dir, Tmp}
  /\ Upto(MetaDir) = {Root, MetaDir} /\ Upto(Meta) = {Root, MetaDir, Meta}
  /\ Upto(Versions) = {Root, Versions} /\ Upto(Version) = {Root, Versions, Version}
  /\ Upto(TagDir) = {Root, TagDir} /\ Upto(Tags) = {Root, TagDir, Tags}
  /\ Upto(<<"uploads">>) = {Root, <<"uploads">>} /\ Upto(Nest) = {Root, Data, Dir, Nest}
<1>1. Upto(Root) = {Root}
  <2>1. Len(<<>>) = 0 /\ 0..0 = {0} /\ SubSeq(<<>>, 1, 0) = <<>>
    BY SMTT(20)
  <2>. QED
    BY <2>1, Zenon DEF Upto, Root
<1>2. Upto(Marker) = {Root, Marker} /\ Upto(Data) = {Root, Data} /\ Upto(MetaDir) = {Root, MetaDir}
  BY UptoOne, Zenon DEF Root, Marker, Data, MetaDir
<1>3. Upto(Versions) = {Root, Versions} /\ Upto(TagDir) = {Root, TagDir} /\ Upto(<<"uploads">>) = {Root, <<"uploads">>}
  BY UptoOne, Zenon DEF Root, Versions, TagDir
<1>4. Upto(Dir) = {Root, Data, Dir} /\ Upto(Meta) = {Root, MetaDir, Meta}
  BY UptoTwo, Zenon DEF Root, Data, Dir, MetaDir, Meta
<1>5. Upto(Version) = {Root, Versions, Version} /\ Upto(Tags) = {Root, TagDir, Tags}
  BY UptoTwo, Zenon DEF Root, Versions, Version, TagDir, Tags
<1>6. Upto(Object) = {Root, Data, Dir, Object}
  BY UptoThree, Zenon DEF Root, Data, Dir, Object
<1>7. Upto(Tmp) = {Root, Data, Dir, Tmp}
  BY UptoThree, Zenon DEF Root, Data, Dir, Tmp
<1>8. Upto(Nest) = {Root, Data, Dir, Nest}
  BY UptoThree, Zenon DEF Root, Data, Dir, Nest
<1>. QED
  BY <1>1, <1>2, <1>3, <1>4, <1>5, <1>6, <1>7, <1>8, Zenon

\* What the files and directories of an upload are below (multipart.rs: upload_dir, parts_dir).
LEMMA UptoUpload ==
  ASSUME NEW u
  PROVE  /\ Upto(Upload(u)) = {Root, <<"uploads">>, Upload(u)}
         /\ Upto(Parts(u)) = {Root, <<"uploads">>, Upload(u), Parts(u)}
         /\ Upto(Info(u)) = {Root, <<"uploads">>, Upload(u), Info(u)}
         /\ \A n : /\ Upto(Part(u, n)) = {Root, <<"uploads">>, Upload(u), Parts(u), Part(u, n)}
                   /\ Upto(PartMeta(u, n)) = {Root, <<"uploads">>, Upload(u), Parts(u), PartMeta(u, n)}
<1>1. Upto(Upload(u)) = {Root, <<"uploads">>, Upload(u)}
  BY UptoTwo, Zenon DEF Root, Upload
<1>2. Upto(Parts(u)) = {Root, <<"uploads">>, Upload(u), Parts(u)}
  BY UptoThree, Zenon DEF Root, Upload, Parts
<1>3. Upto(Info(u)) = {Root, <<"uploads">>, Upload(u), Info(u)}
  BY UptoThree, Zenon DEF Root, Upload, Info
<1>4. ASSUME NEW n PROVE Upto(Part(u, n)) = {Root, <<"uploads">>, Upload(u), Parts(u), Part(u, n)}
  <2>1. PICK d : d = <<n, "data">>
    BY Zenon
  <2>2. Part(u, n) = <<"uploads", u, "parts", d>>
    BY <2>1, Zenon DEF Part
  <2>. QED
    <3>1. Upto(<<"uploads", u, "parts", d>>) =
            {<<>>, <<"uploads">>, <<"uploads", u>>, <<"uploads", u, "parts">>, <<"uploads", u, "parts", d>>}
      BY UptoFour, Zenon
    <3>. QED
      BY <2>2, <3>1, SMTT(20) DEF Root, Upload, Parts
<1>5. ASSUME NEW n PROVE Upto(PartMeta(u, n)) = {Root, <<"uploads">>, Upload(u), Parts(u), PartMeta(u, n)}
  <2>1. PICK d : d = <<n, "meta">>
    BY Zenon
  <2>2. PartMeta(u, n) = <<"uploads", u, "parts", d>>
    BY <2>1, Zenon DEF PartMeta
  <2>. QED
    <3>1. Upto(<<"uploads", u, "parts", d>>) =
            {<<>>, <<"uploads">>, <<"uploads", u>>, <<"uploads", u, "parts">>, <<"uploads", u, "parts", d>>}
      BY UptoFour, Zenon
    <3>. QED
      BY <2>2, <3>1, SMTT(20) DEF Root, Upload, Parts
<1>. QED
  BY <1>1, <1>2, <1>3, <1>4, <1>5, Zenon

\* Different names, different paths.
Bucketwide == {Root, Marker, Data, Dir, Nest, Object, Tmp, MetaDir, Meta, Versions, Version, TagDir, Tags, <<"uploads">>}

\* Two uploads, or two parts of one, share no file; none of them is a file of the bucket's own.
LEMMA NamesOfUploads ==
  ASSUME NEW u, NEW v, NEW n, NEW m
  PROVE  /\ Upload(u) = Upload(v) => u = v
         /\ Info(u) = Info(v) => u = v
         /\ Parts(u) = Parts(v) => u = v
         /\ Part(u, n) = Part(v, m) => u = v /\ n = m
         /\ PartMeta(u, n) = PartMeta(v, m) => u = v /\ n = m
         /\ Upload(u) \notin {Info(v), Parts(v), Part(v, m), PartMeta(v, m)}
         /\ Info(u) \notin {Parts(v), Part(v, m), PartMeta(v, m)}
         /\ Parts(u) \notin {Part(v, m), PartMeta(v, m)}
         /\ Part(u, n) # PartMeta(v, m)
         /\ {Upload(u), Info(u), Parts(u), Part(u, n), PartMeta(u, n)} \cap Bucketwide = {}
  BY SMTT(20) DEF Upload, Info, Parts, Part, PartMeta, Bucketwide,
      Root, Marker, Data, Dir, Nest, Object, Tmp, MetaDir, Meta, Versions, Version, TagDir, Tags

\* The bucket's marker, object, temporary file, metadata and version are different files.
LEMMA NamesOfBucket ==
  /\ Object \notin {Root, Marker, Data, Dir, Tmp, MetaDir, Meta, Versions, Version, TagDir, Tags, <<"uploads">>}
  /\ Marker \notin {Root, Data, Dir, Tmp, MetaDir, Meta, Versions, Version, TagDir, Tags, <<"uploads">>}
  /\ Tmp \notin {Root, Data, Dir, MetaDir, Meta, Versions, Version, TagDir, Tags, <<"uploads">>}
  /\ Data \notin {Root, Dir, MetaDir, Meta, Versions, Version, TagDir, Tags, <<"uploads">>}
  /\ Meta \notin {Root, Dir, MetaDir, Versions, Version, TagDir, Tags, <<"uploads">>}
  /\ Version \notin {Root, Dir, MetaDir, Versions, TagDir, Tags, <<"uploads">>}
  /\ Root \notin {Dir, MetaDir, Versions, TagDir, Tags, <<"uploads">>}
  /\ Nest \notin {Root, Marker, Data, Dir, Object, Tmp, MetaDir, Meta, Versions, Version, TagDir, Tags, <<"uploads">>}
  BY SMTT(20) DEF Root, Marker, Data, Dir, Nest, Object, Tmp, MetaDir, Meta, Versions, Version, TagDir, Tags

\* create_dir_all adds paths and leaves the contents of those that are there.
LEMMA MakeIs ==
  ASSUME NEW f, NEW ps
  PROVE  /\ DOMAIN Make(f, ps) = DOMAIN f \cup ps
         /\ \A p \in DOMAIN f : Make(f, ps)[p] = f[p]
         /\ \A p \in ps \ DOMAIN f : Make(f, ps)[p] = Empty
  BY SMTT(20) DEF Make

\* A write gives one path its contents and leaves the others alone.
LEMMA WriteIs ==
  ASSUME NEW f, NEW p, NEW x
  PROVE  /\ DOMAIN Write(f, p, x) = DOMAIN f \cup {p}
         /\ Write(f, p, x)[p] = x
         /\ \A q \in DOMAIN f \ {p} : Write(f, p, x)[q] = f[q]
  BY SMTT(20) DEF Write

\* An unlink takes paths away and leaves the others alone.
LEMMA EraseIs ==
  ASSUME NEW f, NEW ps
  PROVE  /\ DOMAIN Erase(f, ps) = DOMAIN f \ ps
         /\ \A p \in DOMAIN f \ ps : Erase(f, ps)[p] = f[p]
  BY Zenon DEF Erase, Restrict

----------------------------------------------------------------------------
(* The invariant. *)

\* The fields of a thread's record.
JobFields == {"pc", "op", "up", "num", "list", "body", "sum", "md5s", "at", "linked", "seen", "todo", "met"}

\* The steps of a request's handler.
Staged(op, pc) ==
    \/ op = "createBucket" /\ pc \in {"mkbucket", "mark"}
    \/ op = "deleteBucket" /\ pc \in {"scandata", "scanversions", "remove"}
    \/ op = "put" /\ pc \in {"mkparent", "open", "rename", "finish"}
    \/ op = "delete" /\ pc \in {"unlink", "prune"}
    \/ op = "putTagging" /\ pc \in {"mktags", "writetags"}
    \/ op = "deleteTagging" /\ pc = "unlinktags"
    \/ op = "createUpload" /\ pc \in {"mkupload", "info"}
    \/ op = "part" /\ pc \in {"openpart", "writepart", "partmeta"}
    \/ op = "complete" /\ pc \in {"writer", "mkparent", "open", "exists", "read", "digest", "rename",
                                  "finish", "readmeta", "rewrite", "remove"}
    \/ op = "abort" /\ pc = "remove"

\* With a temporary file, and with the object renamed to its name.
HasTmp(j) == j.pc \in {"exists", "read", "digest", "rename"}
Renamed(j) == j.op \in {"put", "complete"} /\ j.pc \in {"finish", "readmeta", "rewrite", "remove"}

\* A record is idle, or at a step of its request and about an upload and a part there are.
JobOK(j) ==
    /\ DOMAIN j = JobFields
    /\ j.pc = "idle" => j = NoJob
    /\ j.pc # "idle" => /\ Staged(j.op, j.pc) /\ (j.op \in UploadOps => j.up \in Uploads)
                        /\ j.op = "part" => j.num \in PartNumbers

\* A removal has found nodes of the tree only; that of an upload, its own paths only.
Todo(j) ==
    j.pc = "remove" => /\ j.todo \subseteq Nodes
                       /\ j.op \in {"complete", "abort"} => j.todo \subseteq Under(j.up)
\* An abort has not forgotten the upload's directory.
Aborting(j, tr) == j.op = "abort" /\ Upload(j.up) \in tr => Upload(j.up) \in j.todo
\* create_multipart has an identifier no client knows, the others one they know.
Living(j, lf) ==
    /\ j.op = "createUpload" => lf[j.up] = "none"
    /\ j.op \in {"part", "complete", "abort"} => lf[j.up] # "none"
\* Without a deletion next to it a writer that has seen the bucket keeps it, and its object once renamed.
Writer(j, tr) ==
    j.op \in {"put", "complete"} /\ ~j.met /\ j.pc # "writer" => Marker \in tr /\ (Renamed(j) => Object \in tr)
\* With nothing abandoned and no remover next to another request: a bucket's removal has found all of
\* it and no temporary file, the directory of a bucket being made is there, and so is a part between exists and open.
Calmly(j, tr) ==
    /\ j.op = "deleteBucket" /\ j.pc = "remove" => tr \subseteq j.todo
    /\ j.pc = "mark" => Root \in tr
    /\ j.pc = "read" => Part(j.up, j.list[j.at]) \in tr
    /\ j.op = "deleteBucket" /\ j.pc \in {"scanversions", "remove"} => Tmp \notin tr
\* The invariant of one handler.
JobInv(j, tr, lf, st) ==
    JobOK(j) /\ Todo(j) /\ Aborting(j, tr) /\ Living(j, lf) /\ Writer(j, tr) /\ (st \/ Calmly(j, tr))

\* No identifier is given to two uploads.
Unique == \A t, q \in Threads :
    t # q /\ job[t].op = "createUpload" /\ job[q].op = "createUpload" => job[t].up # job[q].up
\* A deletion next to a request has left its mark in the history.
MetInv == \A t, q \in Threads : t # q /\ job[t].op \in Deletions /\ Busy(q) => job[q].met
\* An acknowledged object is there, and whoever could remove it has not begun to.
StoredInv == stored =>
    /\ Object \in tree /\ Marker \in tree
    /\ \A t \in Threads : job[t].op # "delete" /\ (job[t].op = "deleteBucket" => job[t].pc = "scandata")
\* A remover works alone.
Alone == \A t, q \in Threads : t # q /\ job[t].op \in Removers => ~Busy(q)
\* Without its marker a bucket is being removed, being made, or gone altogether.
GoneInv == Marker \notin tree =>
    \/ \E t \in Threads : job[t].op = "deleteBucket" /\ job[t].pc = "remove"
    \/ /\ tree \subseteq {Root, Data, MetaDir}
       /\ \A t \in Threads : Busy(t) => job[t].op = "createBucket"
       /\ (\A t \in Threads : job[t].pc # "mark") => tree = {}
\* The temporary file belongs to a handler at work, or a directory has the object's name.
TmpInv == Tmp \in tree => Nest \in tree \/ \E t \in Threads : HasTmp(job[t])
\* What holds of histories in which no request was abandoned and no remover met another request.
StrayInv == stray \/ (Alone /\ GoneInv /\ TmpInv)

\* The invariant of all handlers, that of the files and of the history, and both.
JobsInv == DOMAIN job = Threads /\ \A t \in Threads : JobInv(job[t], tree, life, stray)
FilesInv ==
    /\ env \in Worlds /\ DOMAIN life = Uploads /\ tree \subseteq Nodes
    /\ Unique /\ AbortedGone /\ MetInv /\ StoredInv /\ StrayInv

MultipartInv == JobsInv /\ FilesInv

\* A thread that serves nobody satisfies its part of the invariant, whatever the files are.
LEMMA IdleJob ==
  ASSUME NEW tr, NEW lf, NEW st
  PROVE  JobInv(NoJob, tr, lf, st) /\ NoJob.pc = "idle" /\ NoJob.op = "none"
<1>1. DOMAIN NoJob = JobFields /\ NoJob.pc = "idle" /\ NoJob.op = "none"
  BY SMTT(20) DEF NoJob, JobFields
<1>2. JobOK(NoJob)
  BY <1>1, SMTT(20) DEF JobOK
<1>3. Todo(NoJob) /\ Aborting(NoJob, tr) /\ Living(NoJob, lf) /\ Writer(NoJob, tr) /\ Calmly(NoJob, tr)
  BY <1>1, SMTT(20) DEF Todo, Aborting, Living, Writer, Calmly
<1>. QED
  BY <1>1, <1>2, <1>3, Zenon DEF JobInv

\* What a step keeps of the tree.
TreeKept ==
    /\ tree' \subseteq Nodes
    /\ (Root \in tree => Root \in tree') /\ (Marker \in tree => Marker \in tree') /\ (Object \in tree => Object \in tree')
    /\ (Nest \in tree => Nest \in tree')
    /\ \A u \in Uploads : Upload(u) \in tree' => Upload(u) \in tree
    /\ \A u, n : Part(u, n) \in tree => Part(u, n) \in tree'

\* What it may change of another request's record.
Alike(j, k) ==
    /\ DOMAIN k = DOMAIN j /\ (j = NoJob => k = NoJob)
    /\ k.pc = j.pc /\ k.op = j.op /\ k.up = j.up /\ k.num = j.num /\ k.list = j.list /\ k.at = j.at
    /\ k.todo = j.todo /\ (j.met => k.met)

\* The job of a thread after a step that does not end it.
Onward(j, k) ==
    /\ DOMAIN k = JobFields /\ k.op = j.op /\ k.up = j.up /\ k.num = j.num /\ k.met = j.met
    /\ k.pc # "idle" /\ Staged(k.op, k.pc)

\* What a handler relies on survives the step of another one, given what that step leaves alone.
LEMMA Bystander ==
  ASSUME NEW j, NEW tr, NEW lf, NEW st, JobInv(j, tr, lf, st), NEW k, Alike(j, k),
         NEW tr2, NEW lf2, NEW st2, st => st2, Living(j, lf2),
         j.op = "abort" => (Upload(j.up) \in tr2 => Upload(j.up) \in tr),
         j.op \in {"put", "complete"} /\ ~k.met =>
             (Marker \in tr => Marker \in tr2) /\ (Object \in tr => Object \in tr2),
         st2 \/ (/\ ~(j.op = "deleteBucket" /\ j.pc \in {"scanversions", "remove"}) \/ tr2 \subseteq tr
                 /\ Root \in tr => Root \in tr2
                 /\ \A u, n : Part(u, n) \in tr => Part(u, n) \in tr2)
  PROVE  JobInv(k, tr2, lf2, st2)
<1>1. JobOK(j) /\ Todo(j) /\ Aborting(j, tr) /\ Living(j, lf) /\ Writer(j, tr) /\ (st \/ Calmly(j, tr))
  BY Zenon DEF JobInv
<1>2. JobOK(k)
  BY <1>1, Zenon DEF JobOK, Alike
<1>3. Todo(k)
  BY <1>1, Zenon DEF Todo, Alike
<1>4. Aborting(k, tr2) /\ Living(k, lf2)
  BY <1>1, Zenon DEF Aborting, Living, Alike
<1>5. Writer(k, tr2)
  BY <1>1, SMTT(20) DEF Writer, Alike, Renamed
<1>6. st2 \/ Calmly(k, tr2)
  BY <1>1, SMTT(20) DEF Calmly, Alike
<1>. QED
  BY <1>2, <1>3, <1>4, <1>5, <1>6, Zenon DEF JobInv

\* A step of one handler: what it must leave to the others.
StepsAlone(t, k) ==
    /\ Busy(t) /\ DOMAIN job' = Threads /\ job'[t] = k
    /\ \A q \in Threads \ {t} : Alike(job[q], job'[q])
    /\ k = NoJob \/ (k.op = job[t].op /\ k.up = job[t].up /\ k.met = job[t].met /\ k.pc # "idle")
    /\ env' = env /\ tree' \subseteq Nodes /\ (stray => stray')
\* What it must leave of the tree, of the clients' view, of the acknowledged object and of the temporary file.
TreeHeld(t) ==
    /\ \A u \in Uploads : Upload(u) \in tree' => Upload(u) \in tree \/ life[u] = "none"
    /\ Marker \in tree => Marker \in tree' \/ job[t].op = "deleteBucket"
    /\ Object \in tree => Object \in tree' \/ job[t].op \in Deletions
    /\ job[t].op \notin Removers =>
          (Root \in tree => Root \in tree') /\ \A u, n : Part(u, n) \in tree => Part(u, n) \in tree'
LifeHeld(t) ==
    /\ DOMAIN life' = Uploads
    /\ \A u \in Uploads :
          \/ life'[u] = life[u]
          \/ /\ job[t].op \in {"createUpload", "abort"} /\ job[t].up = u /\ life'[u] # "none"
             /\ life'[u] = "aborted" => Upload(u) \notin tree'
    /\ \A u \in Uploads : life'[u] = "none" => life[u] = "none"
StoredHeld(t, k) ==
    stored' =>
        /\ Object \in tree' /\ Marker \in tree'
        /\ \/ stored /\ (k.op = "deleteBucket" => k.pc = "scandata")
           \/ ~job[t].met /\ job[t].op \in {"put", "complete"}
TmpHeld(t, k) ==
    Tmp \in tree' => \/ HasTmp(k) \/ Nest \in tree'
                     \/ Tmp \in tree /\ Nest \notin tree /\ ~HasTmp(job[t])

\* The frame of every step: the invariant holds again if the step keeps what others rely on
\* and its own handler's part holds.
LEMMA Steady ==
  ASSUME MultipartInv, NEW t \in Threads, NEW k, StepsAlone(t, k), TreeHeld(t), LifeHeld(t), StoredHeld(t, k),
         JobInv(k, tree', life', stray'), stray' \/ (GoneInv' /\ TmpHeld(t, k))
  PROVE  MultipartInv'
<1>1. JobsInv /\ FilesInv /\ DOMAIN job = Threads /\ \A q \in Threads : JobInv(job[q], tree, life, stray)
  BY Zenon DEF MultipartInv, JobsInv
<1>2. Busy(t) /\ DOMAIN job' = Threads /\ job'[t] = k /\ \A q \in Threads \ {t} : Alike(job[q], job'[q])
  BY Zenon DEF StepsAlone
<1>3. \A q \in Threads : /\ (job[q].pc = "idle" => job[q] = NoJob) /\ (job[q].pc # "idle" => Staged(job[q].op, job[q].pc))
                         /\ job[q].pc # "idle" /\ job[q].op \in UploadOps => job[q].up \in Uploads
  BY <1>1, Zenon DEF JobInv, JobOK
<1>4. (k.pc = "idle" /\ k.op = "none") \/ (k.op = job[t].op /\ k.up = job[t].up /\ k.met = job[t].met /\ k.pc # "idle")
  BY IdleJob, Zenon DEF StepsAlone
<1>5. stray' \/ ~stray
  BY Zenon DEF StepsAlone
<1>6. \A q \in Threads : job[q].op # "none" => job[q].pc # "idle"
  <2>1. NoJob.op = "none"
    BY IdleJob, Zenon
  <2>. QED
    BY <1>3, <2>1, SMTT(20)
<1>7. \A q \in Threads : job[q].op \in {"createUpload", "part", "complete", "abort"} => job[q].up \in Uploads
  <2>1. SUFFICES ASSUME NEW q \in Threads, job[q].op \in {"createUpload", "part", "complete", "abort"} PROVE job[q].up \in Uploads
    BY Zenon
  <2>2. job[q].op # "none" /\ job[q].op \in UploadOps
    BY <2>1, SMTT(20) DEF UploadOps
  <2>. QED
    BY <1>3, <1>6, <2>2, Zenon
<1>8. ASSUME NEW q \in Threads \ {t} PROVE JobInv(job'[q], tree', life', stray')
  <2>1. JobInv(job[q], tree, life, stray) /\ Alike(job[q], job'[q])
    BY <1>1, <1>2, Zenon
  <2>2. Living(job[q], life) /\ Living(job[t], life)
    BY <1>1, <2>1, Zenon DEF JobInv
  <2>3. job[q].op = "createUpload" => life'[job[q].up] = "none"
    <3>1. SUFFICES ASSUME job[q].op = "createUpload" PROVE life'[job[q].up] = "none"
      BY Zenon
    <3>2. life[job[q].up] = "none" /\ job[q].up \in Uploads
      BY <1>7, <2>2, <3>1, SMTT(20) DEF Living
    <3>3. job[t].op = "createUpload" => job[t].up # job[q].up
      BY <1>1, <3>1, Zenon DEF FilesInv, Unique
    <3>4. job[t].op = "abort" => job[t].up # job[q].up
      BY <2>2, <3>2, SMTT(20) DEF Living
    <3>. QED
      BY <3>2, <3>3, <3>4, SMTT(20) DEF LifeHeld
  <2>4. job[q].op \in {"part", "complete", "abort"} => life'[job[q].up] # "none"
    BY <1>7, <2>2, SMTT(20) DEF Living, LifeHeld
  <2>5. Living(job[q], life')
    BY <2>3, <2>4, Zenon DEF Living
  <2>6. job[q].op = "abort" => (Upload(job[q].up) \in tree' => Upload(job[q].up) \in tree)
    BY <1>7, <2>2, SMTT(20) DEF Living, TreeHeld
  <2>7. job[t].op \in Deletions /\ Busy(q) => job[q].met
    BY <1>1, Zenon DEF FilesInv, MetInv
  <2>8. job[q].op \in {"put", "complete"} /\ ~job'[q].met =>
             (Marker \in tree => Marker \in tree') /\ (Object \in tree => Object \in tree')
    <3>1. SUFFICES ASSUME job[q].op \in {"put", "complete"}, ~job'[q].met
                   PROVE (Marker \in tree => Marker \in tree') /\ (Object \in tree => Object \in tree')
      BY Zenon
    <3>2. Busy(q)
      BY <1>6, <3>1, SMTT(20) DEF Busy
    <3>3. job[t].op \notin Deletions
      BY <2>1, <2>7, <3>1, <3>2, Zenon DEF Alike
    <3>. QED
      BY <3>3, SMTT(20) DEF TreeHeld, Deletions
  <2>9. stray' \/ (/\ ~(job[q].op = "deleteBucket" /\ job[q].pc \in {"scanversions", "remove"}) \/ tree' \subseteq tree
                   /\ Root \in tree => Root \in tree'
                   /\ \A u, n : Part(u, n) \in tree => Part(u, n) \in tree') \/ ~Busy(q)
    <3>1. SUFFICES ASSUME ~stray', Busy(q)
                   PROVE (/\ job[q].op # "deleteBucket"
                          /\ Root \in tree => Root \in tree'
                          /\ \A u, n : Part(u, n) \in tree => Part(u, n) \in tree')
      BY Zenon
    <3>2. Alone
      BY <1>1, <1>5, <3>1, Zenon DEF FilesInv, StrayInv
    <3>3. job[q].op # "deleteBucket" /\ job[t].op \notin Removers
      BY <1>2, <3>1, <3>2, SMTT(20) DEF Alone, Removers
    <3>. QED
      BY <3>3, Zenon DEF TreeHeld
  <2>10. CASE Busy(q)
    <3>1. stray => stray'
      BY Zenon DEF StepsAlone
    <3>. QED
      BY <2>1, <2>5, <2>6, <2>8, <2>9, <2>10, <3>1, Bystander, SMTT(20)
  <2>11. CASE ~Busy(q)
    <3>1. job'[q] = NoJob
      BY <1>3, <2>1, <2>11, SMTT(20) DEF Busy, Alike
    <3>. QED
      BY <3>1, IdleJob, Zenon
  <2>. QED
    BY <2>10, <2>11, Zenon
<1>9. JobsInv'
  <2>1. \A q \in Threads : JobInv(job'[q], tree', life', stray')
    BY <1>2, <1>8, Zenon
  <2>. QED
    BY <1>2, <2>1, Zenon DEF JobsInv
<1>10. env' \in Worlds /\ DOMAIN life' = Uploads /\ tree' \subseteq Nodes
  BY <1>1, Zenon DEF FilesInv, StepsAlone, LifeHeld
<1>11. AbortedGone'
  <2>1. SUFFICES ASSUME NEW u \in Uploads, life'[u] = "aborted" PROVE Upload(u) \notin tree'
    BY Zenon DEF AbortedGone
  <2>2. CASE life'[u] = life[u]
    BY <1>1, <2>1, <2>2, SMTT(20) DEF FilesInv, AbortedGone, TreeHeld
  <2>. QED
    BY <2>1, <2>2, Zenon DEF LifeHeld
<1>12. Unique'
  <2>1. SUFFICES ASSUME NEW q \in Threads, NEW r \in Threads, q # r,
                        job'[q].op = "createUpload", job'[r].op = "createUpload"
                 PROVE job'[q].up # job'[r].up
    BY Zenon DEF Unique
  <2>2. \A s \in Threads : job'[s].op = "createUpload" => job[s].op = "createUpload" /\ job[s].up = job'[s].up
    BY <1>2, <1>4, SMTT(20) DEF Alike
  <2>. QED
    BY <1>1, <2>1, <2>2, Zenon DEF FilesInv, Unique
<1>13. MetInv'
  <2>1. SUFFICES ASSUME NEW q \in Threads, NEW r \in Threads, q # r, job'[q].op \in Deletions, job'[r].pc # "idle"
                 PROVE job'[r].met
    BY Zenon DEF MetInv, Busy
  <2>2. \A s \in Threads : job'[s].op \in Deletions => job[s].op \in Deletions
    BY <1>2, <1>4, SMTT(20) DEF Alike, Deletions
  <2>3. \A s \in Threads : job'[s].pc # "idle" => job[s].pc # "idle" /\ (job[s].met => job'[s].met)
    BY <1>2, <1>4, SMTT(20) DEF Alike, Busy
  <2>. QED
    BY <1>1, <2>1, <2>2, <2>3, Zenon DEF FilesInv, MetInv, Busy
<1>14. StoredInv'
  <2>1. SUFFICES ASSUME stored' PROVE StoredInv'
    BY Zenon DEF StoredInv
  <2>2. Object \in tree' /\ Marker \in tree'
    BY <2>1, Zenon DEF StoredHeld
  <2>3. CASE stored /\ (k.op = "deleteBucket" => k.pc = "scandata")
    <3>1. \A q \in Threads : job[q].op # "delete" /\ (job[q].op = "deleteBucket" => job[q].pc = "scandata")
      BY <1>1, <2>3, Zenon DEF FilesInv, StoredInv
    <3>2. \A q \in Threads : job'[q].op # "delete" /\ (job'[q].op = "deleteBucket" => job'[q].pc = "scandata")
      BY <1>2, <1>4, <2>3, <3>1, SMTT(20) DEF Alike
    <3>. QED
      BY <2>2, <3>2, Zenon DEF StoredInv
  <2>4. CASE ~job[t].met /\ job[t].op \in {"put", "complete"}
    <3>1. \A q \in Threads \ {t} : job[q].op \notin Deletions
      BY <1>1, <1>2, <2>4, Zenon DEF FilesInv, MetInv
    <3>2. \A q \in Threads : job'[q].op \notin Deletions
      BY <1>2, <1>4, <2>4, <3>1, SMTT(20) DEF Alike, Deletions
    <3>. QED
      BY <2>2, <3>2, SMTT(20) DEF StoredInv, Deletions
  <2>. QED
    BY <2>1, <2>3, <2>4, Zenon DEF StoredHeld
<1>15. StrayInv'
  <2>1. SUFFICES ASSUME ~stray' PROVE Alone' /\ GoneInv' /\ TmpInv'
    BY Zenon DEF StrayInv
  <2>2. Alone /\ GoneInv /\ TmpInv
    BY <1>1, <1>5, <2>1, Zenon DEF FilesInv, StrayInv
  <2>3. Alone'
    <3>1. SUFFICES ASSUME NEW q \in Threads, NEW r \in Threads, q # r, job'[q].op \in Removers
                   PROVE job'[r].pc = "idle"
      BY Zenon DEF Alone, Busy
    <3>2. \A s \in Threads : job'[s].op \in Removers => job[s].op \in Removers
      BY <1>2, <1>4, SMTT(20) DEF Alike, Removers
    <3>3. \A s \in Threads : job[s].pc = "idle" => job'[s].pc = "idle"
      BY <1>2, SMTT(20) DEF Alike, Busy
    <3>. QED
      BY <2>2, <3>1, <3>2, <3>3, Zenon DEF Alone, Busy
  <2>4. TmpInv'
    <3>1. SUFFICES ASSUME Tmp \in tree', Nest \notin tree' PROVE \E q \in Threads : HasTmp(job'[q])
      BY Zenon DEF TmpInv
    <3>2. CASE HasTmp(k)
      BY <1>2, <3>2, Zenon
    <3>3. CASE Tmp \in tree /\ Nest \notin tree /\ ~HasTmp(job[t])
      <4>1. PICK q \in Threads \ {t} : HasTmp(job[q])
        BY <2>2, <3>3, Zenon DEF TmpInv
      <4>2. HasTmp(job'[q])
        BY <1>2, <4>1, Zenon DEF HasTmp, Alike
      <4>. QED
        BY <4>2, Zenon
    <3>. QED
      BY <2>1, <3>1, <3>2, <3>3, Zenon DEF TmpHeld
  <2>. QED
    BY <2>1, <2>3, <2>4, Zenon
<1>. QED
  BY <1>9, <1>10, <1>11, <1>12, <1>13, <1>14, <1>15, Zenon DEF MultipartInv, FilesInv

\* A bucket lasts while a request other than its creation or removal goes on.
LEMMA MarkerThere ==
  ASSUME MultipartInv, ~stray, NEW t \in Threads, Busy(t), job[t].op # "createBucket",
         ~(job[t].op = "deleteBucket" /\ job[t].pc = "remove")
  PROVE  Marker \in tree
<1>1. Alone /\ GoneInv
  BY Zenon DEF MultipartInv, FilesInv, StrayInv
<1>2. ASSUME NEW q \in Threads, job[q].op = "deleteBucket", job[q].pc = "remove" PROVE FALSE
  <2>1. q # t
    BY <1>2, Zenon
  <2>. QED
    BY <1>1, <1>2, <2>1, SMTT(20) DEF Alone, Removers
<1>. QED
  BY <1>1, <1>2, Zenon DEF GoneInv

\* One thread's record changes, the others stay.
LEMMA OnlyOne ==
  ASSUME MultipartInv, NEW t \in Threads, NEW k, job' = [job EXCEPT ![t] = k]
  PROVE  DOMAIN job' = Threads /\ job'[t] = k /\ \A q \in Threads \ {t} : job'[q] = job[q] /\ Alike(job[q], job'[q])
<1>1. DOMAIN job = Threads
  BY Zenon DEF MultipartInv, JobsInv
<1>2. DOMAIN job' = Threads /\ job'[t] = k /\ \A q \in Threads \ {t} : job'[q] = job[q]
  BY <1>1, SMTT(20)
<1>. QED
  BY <1>2, Zenon DEF Alike

\* A step of one handler that leaves what the others rely on.
LEMMA Calm ==
  ASSUME MultipartInv, NEW t \in Threads, Busy(t), job[t].op \notin BucketOps,
         NEW k, job' = [job EXCEPT ![t] = k], UNCHANGED <<life, stray, env>>, TreeKept,
         k = NoJob \/ (k.op = job[t].op /\ k.up = job[t].up /\ k.met = job[t].met /\ k.pc # "idle"),
         JobInv(k, tree', life, stray),
         stored' => stored \/ (~job[t].met /\ job[t].op \in {"put", "complete"} /\ job[t].pc # "writer" /\ Object \in tree'),
         stray \/ Nest \in tree \/ (Tmp \in tree' => HasTmp(k) \/ (Tmp \in tree /\ ~HasTmp(job[t])))
  PROVE  MultipartInv'
<1>1. FilesInv /\ JobInv(job[t], tree, life, stray)
  BY Zenon DEF MultipartInv, JobsInv
<1>2. k.op = "none" \/ k.op = job[t].op
  BY IdleJob, Zenon
<1>3. k.op # "deleteBucket"
  BY <1>2, SMTT(20) DEF BucketOps
<1>4. StepsAlone(t, k)
  BY OnlyOne, Zenon DEF StepsAlone, TreeKept
<1>5. TreeHeld(t)
  BY Zenon DEF TreeHeld, TreeKept
<1>6. LifeHeld(t)
  BY <1>1, Zenon DEF LifeHeld, FilesInv
<1>7. StoredHeld(t, k)
  <2>1. SUFFICES ASSUME stored' PROVE StoredHeld(t, k)
    BY Zenon DEF StoredHeld
  <2>2. CASE stored
    BY <1>1, <1>3, <2>2, Zenon DEF FilesInv, StoredInv, StoredHeld, TreeKept
  <2>3. CASE ~job[t].met /\ job[t].op \in {"put", "complete"} /\ job[t].pc # "writer" /\ Object \in tree'
    <3>1. Marker \in tree'
      BY <1>1, <2>3, Zenon DEF JobInv, Writer, TreeKept
    <3>. QED
      BY <2>3, <3>1, Zenon DEF StoredHeld
  <2>. QED
    BY <2>1, <2>2, <2>3, Zenon
<1>8. stray' \/ (GoneInv' /\ TmpHeld(t, k))
  <2>1. SUFFICES ASSUME ~stray PROVE GoneInv' /\ TmpHeld(t, k)
    BY Zenon
  <2>2. Marker \in tree
    <3>1. job[t].op # "createBucket" /\ job[t].op # "deleteBucket"
      BY SMTT(20) DEF BucketOps
    <3>. QED
      BY <2>1, <3>1, MarkerThere, Zenon
  <2>. QED
    BY <2>1, <2>2, Zenon DEF GoneInv, TreeKept, TmpHeld
<1>9. JobInv(k, tree', life', stray')
  BY Zenon
<1>. QED
  BY <1>4, <1>5, <1>6, <1>7, <1>8, <1>9, Steady, Zenon

\* Where the steps of other handlers may lead.
LEMMA Further ==
  ASSUME NEW j, NEW tr, NEW tr2, NEW lf, NEW st, JobInv(j, tr, lf, st),
         NEW k, Onward(j, k), k.pc \notin {"remove", "mark", "read"},
         k.op = "deleteBucket" /\ k.pc = "scanversions" => Tmp \notin tr2,
         k.op \in {"put", "complete"} /\ ~k.met => Marker \in tr2 /\ (Renamed(k) => Object \in tr2)
  PROVE  JobInv(k, tr2, lf, st)
<1>1. JobOK(j) /\ Living(j, lf) /\ DOMAIN k = JobFields /\ k.op = j.op /\ k.up = j.up /\ k.num = j.num /\ k.met = j.met
      /\ k.pc # "idle" /\ Staged(k.op, k.pc)
  BY Zenon DEF JobInv, Onward
<1>2. j.pc # "idle"
  <2>1. k.op # "none"
    BY <1>1, SMTT(20) DEF Staged
  <2>. QED
    BY <1>1, <2>1, IdleJob, Zenon DEF JobOK
<1>3. JobOK(k)
  BY <1>1, <1>2, Zenon DEF JobOK
<1>4. Todo(k)
  BY SMTT(20) DEF Todo
<1>5. Aborting(k, tr2)
  BY <1>1, SMTT(20) DEF Aborting, Staged
<1>6. Living(k, lf)
  BY <1>1, Zenon DEF Living
<1>7. Writer(k, tr2)
  BY Zenon DEF Writer
<1>8. Calmly(k, tr2)
  BY SMTT(20) DEF Calmly
<1>. QED
  BY <1>3, <1>4, <1>5, <1>6, <1>7, <1>8, Zenon DEF JobInv

\* The facts every step starts from.
LEMMA JobFacts ==
  ASSUME MultipartInv, NEW t \in Threads, Busy(t)
  PROVE  /\ JobInv(job[t], tree, life, stray) /\ DOMAIN job = Threads /\ DOMAIN job[t] = JobFields
         /\ Staged(job[t].op, job[t].pc)
         /\ job[t].op \in UploadOps => job[t].up \in Uploads
         /\ job[t].op = "part" => job[t].num \in PartNumbers
         /\ tree \subseteq Nodes
  BY Zenon DEF MultipartInv, JobsInv, FilesInv, JobInv, JobOK, Busy

\* A handler goes on.
LEMMA CalmStep ==
  ASSUME MultipartInv, NEW t \in Threads, Busy(t), job[t].op \notin BucketOps,
         NEW k, job' = [job EXCEPT ![t] = k], UNCHANGED <<life, stray, env>>, TreeKept,
         Onward(job[t], k), k.pc \notin {"remove", "mark", "read"}, job[t].pc # "writer",
         k.op \in {"put", "complete"} /\ Renamed(k) => Renamed(job[t]) \/ Object \in tree',
         stored' => stored \/ (~job[t].met /\ job[t].op \in {"put", "complete"} /\ Object \in tree'),
         stray \/ Nest \in tree \/ (Tmp \in tree' => HasTmp(k) \/ (Tmp \in tree /\ ~HasTmp(job[t])))
  PROVE  MultipartInv'
<1>1. JobInv(job[t], tree, life, stray)
  BY JobFacts
<1>2. k.op = job[t].op /\ k.up = job[t].up /\ k.met = job[t].met /\ k.pc # "idle"
  BY Zenon DEF Onward
<1>3. k.op \in {"put", "complete"} /\ ~k.met => Marker \in tree' /\ (Renamed(k) => Object \in tree')
  BY <1>1, <1>2, SMTT(20) DEF JobInv, Writer, TreeKept
<1>4. k.op # "deleteBucket"
  BY <1>2, SMTT(20) DEF BucketOps
<1>5. JobInv(k, tree', life, stray)
  BY <1>1, <1>3, <1>4, Further, Zenon
<1>. QED
  BY <1>2, <1>5, Calm, Zenon

\* A handler ends.
LEMMA CalmEnd ==
  ASSUME MultipartInv, NEW t \in Threads, Busy(t), job[t].op \notin BucketOps,
         Done(t), UNCHANGED <<life, stray, env>>, TreeKept,
         stored' => stored \/ (~job[t].met /\ job[t].op \in {"put", "complete"} /\ job[t].pc # "writer" /\ Object \in tree'),
         stray \/ Nest \in tree \/ (Tmp \in tree' => Tmp \in tree /\ ~HasTmp(job[t]))
  PROVE  MultipartInv'
<1>1. JobInv(NoJob, tree', life, stray)
  BY IdleJob, Zenon
<1>2. job' = [job EXCEPT ![t] = NoJob]
  BY Zenon DEF Done
<1>. QED
  BY <1>1, <1>2, Calm, Zenon

\* A handler goes on with nothing but its position changed.
LEMMA GotoIs ==
  ASSUME NEW t \in Threads, MultipartInv, Busy(t), NEW x, Goto(t, x), x # "idle", Staged(job[t].op, x)
  PROVE  \E k : job' = [job EXCEPT ![t] = k] /\ Onward(job[t], k) /\ k.pc = x /\ k.todo = job[t].todo
<1>. DEFINE k == [job[t] EXCEPT !.pc = x]
<1>1. DOMAIN job[t] = JobFields
  BY JobFacts, Zenon
<1>2. job' = [job EXCEPT ![t] = k]
  BY Zenon DEF Goto
<1>3. DOMAIN k = JobFields /\ k.op = job[t].op /\ k.up = job[t].up /\ k.num = job[t].num /\ k.met = job[t].met /\ k.pc = x /\ k.todo = job[t].todo
  BY <1>1, SMTT(20) DEF JobFields
<1>4. Onward(job[t], k)
  BY <1>3, Zenon DEF Onward
<1>. HIDE DEF k
<1>. QED
  BY <1>2, <1>3, <1>4, Zenon

\* What making, writing and erasing one path keeps.
LEMMA SameTree ==
  ASSUME tree' = tree, tree \subseteq Nodes
  PROVE  TreeKept
BY Zenon DEF TreeKept

\* create_dir_all, a write and an unlink, as the tree of names sees them.
LEMMA Made ==
  ASSUME NEW ps, fs' = Make(fs, ps)
  PROVE  tree' = tree \cup ps
BY MakeIs, Zenon DEF tree

\* As Made, of a write.
LEMMA Wrote ==
  ASSUME NEW p, NEW x, fs' = Write(fs, p, x)
  PROVE  tree' = tree \cup {p}
BY WriteIs, Zenon DEF tree

\* As Made, of an unlink.
LEMMA Erased ==
  ASSUME NEW ps, fs' = Erase(fs, ps)
  PROVE  tree' = tree \ ps
BY EraseIs, Zenon DEF tree

Plainly == {Object, Tmp, Meta, Version, Tags, Data, Dir, MetaDir, Versions, TagDir, Root}

\* Paths of the bucket's own, and of an upload, are nodes of the tree and no two the same.
LEMMA PlainNodes ==
  ASSUME NEW u, NEW n
  PROVE  /\ Plainly \cup {Marker, <<"uploads">>} \subseteq Nodes
         /\ Upload(u) \notin Plainly /\ Part(u, n) \notin Plainly /\ Info(u) \notin Plainly /\ PartMeta(u, n) \notin Plainly
         /\ Upload(u) # PartMeta(u, n) /\ \A v : Upload(v) # Part(u, n) /\ Upload(v) # PartMeta(u, n) /\ Part(v, n) # PartMeta(u, n)
         /\ u \in Uploads => {Upload(u), Info(u), Parts(u)} \subseteq Nodes
         /\ u \in Uploads /\ n \in PartNumbers => {Part(u, n), PartMeta(u, n)} \subseteq Nodes
<1>1. Plainly \cup {Marker, <<"uploads">>} \subseteq Nodes
  BY SMTT(20) DEF Plainly, Nodes, Files, Dirs
<1>2. Plainly \subseteq Bucketwide
  BY SMTT(20) DEF Plainly, Bucketwide
<1>3. Upload(u) \notin Plainly /\ Part(u, n) \notin Plainly /\ Info(u) \notin Plainly /\ PartMeta(u, n) \notin Plainly
  BY <1>2, NamesOfUploads, SMTT(20)
<1>4. \A v : Upload(v) # Part(u, n) /\ Upload(v) # PartMeta(u, n) /\ Part(v, n) # PartMeta(u, n)
  BY NamesOfUploads, SMTT(20)
<1>5. u \in Uploads => {Upload(u), Info(u), Parts(u)} \subseteq Nodes
  BY SMTT(20) DEF Nodes, Files, Dirs
<1>6. ASSUME u \in Uploads, n \in PartNumbers PROVE {Part(u, n), PartMeta(u, n)} \subseteq Nodes
  <2>. DEFINE S == {Part(u, n), PartMeta(u, n)}
              SS == {{Part(v, m), PartMeta(v, m)} : v \in Uploads, m \in PartNumbers}
  <2>1. S \in SS /\ UNION SS \subseteq Files
    BY <1>6, SMTT(20) DEF Files
  <2>. HIDE DEF S, SS
  <2>2. S \subseteq Nodes
    BY <2>1, Zenon DEF Nodes
  <2>. QED
    BY <2>2, Zenon DEF S
<1>. QED
  BY <1>1, <1>3, <1>4, <1>5, <1>6, Zenon

\* A step that adds paths of the bucket's own keeps what others rely on.
LEMMA TreeGrows ==
  ASSUME tree \subseteq Nodes, NEW ps, ps \subseteq Plainly, tree' = tree \cup ps
  PROVE  TreeKept
BY PlainNodes, SMTT(20) DEF TreeKept

\* So does one that unlinks any of them but the object and the bucket's directory.
LEMMA TreeLoses ==
  ASSUME tree \subseteq Nodes, NEW ps, ps \subseteq Plainly \ {Root, Object}, tree' = tree \ ps
  PROVE  TreeKept
<1>1. Marker \notin Plainly /\ Nest \notin Plainly
  BY NamesOfBucket, SMTT(20) DEF Plainly
<1>2. Root \notin ps /\ Object \notin ps /\ Marker \notin ps /\ Nest \notin ps
  BY <1>1, SMTT(20)
<1>3. \A u, n : Part(u, n) \notin ps
  BY PlainNodes, SMTT(20)
<1>. QED
  BY <1>2, <1>3, SMTT(20) DEF TreeKept

----------------------------------------------------------------------------
(* The object: put_object_writer, finish, delete_object, and its tags. *)

\* put_object_writer: create_dir_all of the key's parent.
LEMMA StepMakeParent ==
  ASSUME MultipartInv, NEW t \in Threads, MakeParent(t)
  PROVE  MultipartInv'
<1>1. Busy(t) /\ job[t].pc = "mkparent"
  BY SMTT(20) DEF MakeParent, Busy
<1>2. job[t].op \in {"put", "complete"} /\ Staged(job[t].op, "open") /\ tree \subseteq Nodes
  BY <1>1, JobFacts, SMTT(20) DEF Staged
<1>3. tree' = tree \cup {Root, Data, Dir} /\ {Root, Data, Dir} \subseteq Plainly
  <2>1. fs' = Make(fs, Upto(Dir))
    BY Zenon DEF MakeParent
  <2>2. tree' = tree \cup Upto(Dir)
    BY <2>1, Made, Zenon
  <2>. QED
    BY <2>2, UptoAll, SMTT(20) DEF Plainly
<1>4. TreeKept
  BY <1>2, <1>3, TreeGrows, Zenon
<1>5. PICK k : job' = [job EXCEPT ![t] = k] /\ Onward(job[t], k) /\ k.pc = "open"
  BY <1>1, <1>2, GotoIs, SMTT(20) DEF MakeParent
<1>6. ~Renamed(k) /\ ~HasTmp(job[t]) /\ (Tmp \in tree' => Tmp \in tree)
  <2>1. Tmp \notin {Root, Data, Dir}
    BY NamesOfBucket, SMTT(20)
  <2>. QED
    BY <1>1, <1>3, <1>5, <2>1, SMTT(20) DEF Renamed, HasTmp
<1>7. UNCHANGED <<life, stray, stored, env>>
  BY Zenon DEF MakeParent, history, uploadHistory
<1>. QED
  <2>1. k.pc \notin {"remove", "mark", "read"} /\ job[t].op \notin BucketOps
    BY <1>2, <1>5, SMTT(20) DEF BucketOps
  <2>. QED
    BY <1>1, <1>4, <1>5, <1>6, <1>7, <2>1, CalmStep, Zenon

\* put_object_writer: the temporary file is opened, if its directory is still there.
LEMMA StepOpenTmp ==
  ASSUME MultipartInv, NEW t \in Threads, OpenTmp(t)
  PROVE  MultipartInv'
<1>1. Busy(t) /\ job[t].pc = "open"
  BY SMTT(20) DEF OpenTmp, Busy
<1>2. job[t].op \in {"put", "complete"} /\ tree \subseteq Nodes /\ job[t].op \notin BucketOps
  BY <1>1, JobFacts, SMTT(20) DEF Staged, BucketOps
<1>3. UNCHANGED <<life, stray, stored, env>>
  BY Zenon DEF OpenTmp, history, uploadHistory
<1>4. ~HasTmp(job[t])
  BY <1>1, SMTT(20) DEF HasTmp
<1>5. CASE Dir \in tree
  <2>1. tree' = tree \cup {Tmp} /\ {Tmp} \subseteq Plainly
    <3>1. fs' = Make(fs, {Tmp})
      BY <1>5, Zenon DEF OpenTmp
    <3>. QED
      BY <3>1, Made, Zenon DEF Plainly
  <2>2. TreeKept
    BY <1>2, <2>1, TreeGrows, Zenon
  <2>. DEFINE x == IF job[t].op = "put" THEN "rename" ELSE "exists"
  <2>3. Goto(t, x)
    BY <1>5, Zenon DEF OpenTmp, Check
  <2>4. x \in {"rename", "exists"} /\ Staged(job[t].op, x)
    BY <1>2, SMTT(20) DEF Staged
  <2>. HIDE DEF x
  <2>5. PICK k : job' = [job EXCEPT ![t] = k] /\ Onward(job[t], k) /\ k.pc = x
    BY <1>1, <2>3, <2>4, GotoIs, SMTT(20)
  <2>6. ~Renamed(k) /\ HasTmp(k) /\ k.pc \notin {"remove", "mark", "read"}
    BY <2>4, <2>5, SMTT(20) DEF Renamed, HasTmp
  <2>. QED
    BY <1>1, <1>2, <1>3, <2>2, <2>5, <2>6, CalmStep, Zenon
<1>6. CASE Dir \notin tree
  <2>1. Done(t) /\ fs' = fs
    BY <1>6, Zenon DEF OpenTmp, Check
  <2>2. TreeKept /\ tree' = tree
    BY <1>2, <2>1, SameTree, Zenon DEF tree
  <2>. QED
    BY <1>1, <1>2, <1>3, <1>4, <2>1, <2>2, CalmEnd, Zenon
<1>. QED
  BY <1>5, <1>6, Zenon

\* finish: the rename that makes the object.
LEMMA StepRename ==
  ASSUME MultipartInv, NEW t \in Threads, Rename(t)
  PROVE  MultipartInv'
<1>1. Busy(t) /\ job[t].pc = "rename"
  BY SMTT(20) DEF Rename, Busy
<1>2. job[t].op \in {"put", "complete"} /\ tree \subseteq Nodes /\ job[t].op \notin BucketOps
  BY <1>1, JobFacts, SMTT(20) DEF Staged, BucketOps
<1>3. UNCHANGED <<life, stray, stored, env>>
  BY Zenon DEF Rename, history, uploadHistory
<1>. DEFINE made == Make(fs, Upto(MetaDir))
            ok == Tmp \in tree /\ Nest \notin tree
<1>4. DOMAIN made = tree \cup {Root, MetaDir}
  <2>1. DOMAIN made = tree \cup Upto(MetaDir)
    BY MakeIs, Zenon DEF tree
  <2>. QED
    BY <2>1, UptoAll, Zenon
<1>. HIDE DEF made
<1>5. CASE ok
  <2>1. fs' = Erase(Write(made, Object, job[t].sum), {Tmp})
    BY <1>5, Zenon DEF Rename, made
  <2>2. tree' = (tree \cup {Root, MetaDir, Object}) \ {Tmp}
    <3>1. DOMAIN Write(made, Object, job[t].sum) = DOMAIN made \cup {Object}
      BY WriteIs, Zenon
    <3>2. tree' = DOMAIN Write(made, Object, job[t].sum) \ {Tmp}
      BY <2>1, EraseIs, Zenon DEF tree
    <3>. QED
      BY <1>4, <3>1, <3>2, SMTT(20)
  <2>3. TreeKept
    <3>1. {Root, MetaDir, Object, Tmp} \subseteq Plainly /\ Tmp \notin {Root, Marker, Object, Nest}
      BY NamesOfBucket, SMTT(20) DEF Plainly
    <3>. QED
      BY <1>2, <2>2, <3>1, PlainNodes, SMTT(20) DEF TreeKept
  <2>4. Goto(t, "finish") /\ Staged(job[t].op, "finish")
    BY <1>2, <1>5, SMTT(20) DEF Rename, Check, Staged
  <2>5. PICK k : job' = [job EXCEPT ![t] = k] /\ Onward(job[t], k) /\ k.pc = "finish"
    BY <1>1, <2>4, GotoIs, SMTT(20)
  <2>6. Object \in tree' /\ Tmp \notin tree'
    BY <2>2, NamesOfBucket, SMTT(20)
  <2>7. k.pc \notin {"remove", "mark", "read"}
    BY <2>5, SMTT(20)
  <2>. QED
    BY <1>1, <1>2, <1>3, <2>3, <2>5, <2>6, <2>7, CalmStep, Zenon
<1>6. CASE ~ok
  <2>1. Done(t) /\ fs' = made
    BY <1>6, Zenon DEF Rename, Check, made
  <2>2. tree' = tree \cup {Root, MetaDir} /\ {Root, MetaDir} \subseteq Plainly
    BY <1>4, <2>1, SMTT(20) DEF tree, Plainly
  <2>3. TreeKept /\ (Nest \in tree \/ Tmp \notin tree')
    <3>1. Tmp \notin {Root, MetaDir}
      BY NamesOfBucket, SMTT(20)
    <3>. QED
      BY <1>2, <1>6, <2>2, <3>1, TreeGrows, Zenon
  <2>. QED
    BY <1>1, <1>2, <1>3, <2>1, <2>3, CalmEnd, Zenon
<1>. QED
  BY <1>5, <1>6, Zenon

\* finish after the rename: version and metadata, and the answer to a PUT.
LEMMA StepFinish ==
  ASSUME MultipartInv, NEW t \in Threads, Finish(t)
  PROVE  MultipartInv'
<1>1. Busy(t) /\ job[t].pc = "finish"
  BY SMTT(20) DEF Finish, Busy
<1>2. job[t].op \in {"put", "complete"} /\ tree \subseteq Nodes /\ job[t].op \notin BucketOps
  BY <1>1, JobFacts, SMTT(20) DEF Staged, BucketOps
<1>3. UNCHANGED <<life, stray, env>>
  BY Zenon DEF Finish, uploadHistory
<1>. DEFINE ok == MetaDir \in tree /\ (env.versioned => Object \in tree)
            kept == CASE env.versioned /\ Object \in tree -> Make(fs, Upto(Version))
                      [] env.versioned /\ Object \notin tree -> Make(fs, Upto(Versions))
                      [] OTHER -> fs
<1>4. \/ DOMAIN kept = tree \cup {Root, Versions, Version}
      \/ DOMAIN kept = tree \cup {Root, Versions}
      \/ DOMAIN kept = tree
  <2>1. DOMAIN Make(fs, Upto(Version)) = tree \cup {Root, Versions, Version}
    <3>1. DOMAIN Make(fs, Upto(Version)) = tree \cup Upto(Version)
      BY MakeIs, Zenon DEF tree
    <3>. QED
      BY <3>1, UptoAll, Zenon
  <2>2. DOMAIN Make(fs, Upto(Versions)) = tree \cup {Root, Versions}
    <3>1. DOMAIN Make(fs, Upto(Versions)) = tree \cup Upto(Versions)
      BY MakeIs, Zenon DEF tree
    <3>. QED
      BY <3>1, UptoAll, Zenon
  <2>3. kept = Make(fs, Upto(Version)) \/ kept = Make(fs, Upto(Versions)) \/ kept = fs
    BY Zenon
  <2>. HIDE DEF kept
  <2>. QED
    BY <2>1, <2>2, <2>3, Zenon DEF tree
<1>5. /\ fs' = IF ok THEN Write(kept, Meta, [of |-> job[t].sum, etag |-> <<"plain", job[t].sum>>]) ELSE kept
      /\ Check(t, ok /\ job[t].op = "complete", "readmeta")
      /\ stored' => stored \/ (job[t].op = "put" /\ ~job[t].met)
  BY Zenon DEF Finish
<1>. HIDE DEF ok, kept
<1>6. tree \subseteq tree' /\ tree' \subseteq tree \cup {Root, Versions, Version, Meta}
  <2>1. tree \subseteq DOMAIN kept /\ DOMAIN kept \subseteq tree \cup {Root, Versions, Version}
    BY <1>4, SMTT(20)
  <2>2. CASE ok
    <3>1. PICK x : fs' = Write(kept, Meta, x)
      BY <1>5, <2>2, Zenon
    <3>2. DOMAIN fs' = DOMAIN kept \cup {Meta}
      BY <3>1, WriteIs, Zenon
    <3>. QED
      BY <2>1, <3>2, SMTT(20) DEF tree
  <2>3. CASE ~ok
    BY <1>5, <2>1, <2>3, SMTT(20) DEF tree
  <2>. QED
    BY <2>2, <2>3, Zenon
<1>7. TreeKept /\ (Tmp \in tree' => Tmp \in tree)
  <2>1. Tmp \notin {Root, Versions, Version, Meta} /\ {Root, Versions, Version, Meta} \subseteq Plainly
    BY NamesOfBucket, SMTT(20) DEF Plainly
  <2>2. tree' = tree \cup (tree' \ tree) /\ tree' \ tree \subseteq Plainly
    BY <1>6, <2>1, SMTT(20)
  <2>3. TreeKept
    BY <1>2, <2>2, TreeGrows, Zenon
  <2>. QED
    BY <1>6, <2>1, <2>3, SMTT(20)
<1>8. job[t].met \/ Object \in tree'
  BY <1>1, <1>2, <1>7, JobFacts, SMTT(20) DEF JobInv, Writer, Renamed, TreeKept
<1>9. ~HasTmp(job[t]) /\ Renamed(job[t])
  BY <1>1, <1>2, SMTT(20) DEF HasTmp, Renamed
<1>10. stored' => stored \/ (~job[t].met /\ job[t].op \in {"put", "complete"} /\ Object \in tree')
  BY <1>2, <1>5, <1>8, SMTT(20)
<1>11. CASE ok /\ job[t].op = "complete"
  <2>1. Goto(t, "readmeta") /\ Staged(job[t].op, "readmeta")
    BY <1>5, <1>11, SMTT(20) DEF Check, Staged
  <2>2. PICK k : job' = [job EXCEPT ![t] = k] /\ Onward(job[t], k) /\ k.pc = "readmeta"
    BY <1>1, <2>1, GotoIs, SMTT(20)
  <2>3. k.pc \notin {"remove", "mark", "read"}
    BY <2>2, SMTT(20)
  <2>. QED
    BY <1>1, <1>2, <1>3, <1>7, <1>9, <1>10, <2>2, <2>3, CalmStep, Zenon
<1>12. CASE ~(ok /\ job[t].op = "complete")
  <2>1. Done(t)
    BY <1>5, <1>12, Zenon DEF Check
  <2>. QED
    BY <1>1, <1>2, <1>3, <1>7, <1>9, <1>10, <2>1, CalmEnd, Zenon
<1>. QED
  BY <1>11, <1>12, Zenon

\* A tree that changes at tags or metadata only.
LEMMA StepMakeTagDir ==
  ASSUME MultipartInv, NEW t \in Threads, MakeTagDir(t)
  PROVE  MultipartInv'
<1>1. Busy(t) /\ job[t].pc = "mktags"
  BY SMTT(20) DEF MakeTagDir, Busy
<1>2. job[t].op = "putTagging" /\ Staged(job[t].op, "writetags") /\ tree \subseteq Nodes /\ job[t].op \notin BucketOps
  BY <1>1, JobFacts, SMTT(20) DEF Staged, BucketOps
<1>3. TreeKept /\ (Tmp \in tree' => Tmp \in tree)
  <2>1. fs' = Make(fs, Upto(TagDir))
    BY Zenon DEF MakeTagDir
  <2>2. tree' = tree \cup Upto(TagDir)
    BY <2>1, Made, Zenon
  <2>3. Upto(TagDir) \subseteq Plainly /\ Tmp \notin Upto(TagDir)
    BY UptoAll, NamesOfBucket, SMTT(20) DEF Plainly
  <2>. QED
    BY <1>2, <2>2, <2>3, TreeGrows, Zenon
<1>4. PICK k : job' = [job EXCEPT ![t] = k] /\ Onward(job[t], k) /\ k.pc = "writetags"
  BY <1>1, <1>2, GotoIs, SMTT(20) DEF MakeTagDir
<1>5. k.pc \notin {"remove", "mark", "read"} /\ ~Renamed(k) /\ ~HasTmp(job[t])
  BY <1>1, <1>4, SMTT(20) DEF Renamed, HasTmp
<1>6. UNCHANGED <<life, stray, stored, env>>
  BY Zenon DEF MakeTagDir, history, uploadHistory
<1>. QED
  BY <1>1, <1>2, <1>3, <1>4, <1>5, <1>6, CalmStep, Zenon

\* put_object_tagging: the tags.
LEMMA StepWriteTags ==
  ASSUME MultipartInv, NEW t \in Threads, WriteTags(t)
  PROVE  MultipartInv'
<1>1. Busy(t) /\ job[t].pc = "writetags"
  BY SMTT(20) DEF WriteTags, Busy
<1>2. tree \subseteq Nodes /\ job[t].op \notin BucketOps /\ ~HasTmp(job[t])
  BY <1>1, JobFacts, SMTT(20) DEF Staged, BucketOps, HasTmp
<1>3. TreeKept /\ (Tmp \in tree' => Tmp \in tree)
  <2>1. CASE TagDir \in tree
    <3>1. fs' = Make(fs, {Tags})
      BY <2>1, Zenon DEF WriteTags
    <3>2. tree' = tree \cup {Tags}
      BY <3>1, Made, Zenon
    <3>3. {Tags} \subseteq Plainly /\ Tmp \notin {Tags}
      BY NamesOfBucket, SMTT(20) DEF Plainly
    <3>. QED
      BY <1>2, <3>2, <3>3, TreeGrows, Zenon
  <2>2. CASE TagDir \notin tree
    <3>1. tree' = tree
      BY <2>2, Zenon DEF WriteTags, tree
    <3>. QED
      BY <1>2, <3>1, SameTree, Zenon
  <2>. QED
    BY <2>1, <2>2, Zenon
<1>4. Done(t) /\ UNCHANGED <<life, stray, stored, env>>
  BY Zenon DEF WriteTags, history, uploadHistory
<1>. QED
  BY <1>1, <1>2, <1>3, <1>4, CalmEnd, Zenon

\* delete_object_tagging.
LEMMA StepUnlinkTags ==
  ASSUME MultipartInv, NEW t \in Threads, UnlinkTags(t)
  PROVE  MultipartInv'
<1>1. Busy(t) /\ job[t].pc = "unlinktags"
  BY SMTT(20) DEF UnlinkTags, Busy
<1>2. tree \subseteq Nodes /\ job[t].op \notin BucketOps /\ ~HasTmp(job[t])
  BY <1>1, JobFacts, SMTT(20) DEF Staged, BucketOps, HasTmp
<1>3. TreeKept /\ (Tmp \in tree' => Tmp \in tree)
  <2>1. fs' = Erase(fs, {Tags})
    BY Zenon DEF UnlinkTags
  <2>2. tree' = tree \ {Tags}
    BY <2>1, Erased, Zenon
  <2>3. {Tags} \subseteq Plainly \ {Root, Object}
    BY NamesOfBucket, SMTT(20) DEF Plainly
  <2>. QED
    BY <1>2, <2>2, <2>3, TreeLoses, Zenon
<1>4. Done(t) /\ UNCHANGED <<life, stray, stored, env>>
  BY Zenon DEF UnlinkTags, history, uploadHistory
<1>. QED
  BY <1>1, <1>2, <1>3, <1>4, CalmEnd, Zenon

\* delete_object: the metadata, and prune_empty_data_dirs.
LEMMA StepPrune ==
  ASSUME MultipartInv, NEW t \in Threads, Prune(t)
  PROVE  MultipartInv'
<1>1. Busy(t) /\ job[t].pc = "prune"
  BY SMTT(20) DEF Prune, Busy
<1>2. tree \subseteq Nodes /\ job[t].op \notin BucketOps /\ ~HasTmp(job[t])
  BY <1>1, JobFacts, SMTT(20) DEF Staged, BucketOps, HasTmp
<1>3. TreeKept /\ (Tmp \in tree' => Tmp \in tree)
  <2>. DEFINE ps == {Meta} \cup (IF Children(Dir) = {} THEN {Dir} ELSE {})
  <2>1. fs' = Erase(fs, ps)
    BY Zenon DEF Prune
  <2>3. ps \subseteq Plainly \ {Root, Object}
    <3>1. ps \subseteq {Meta, Dir}
      BY SMTT(20)
    <3>2. {Meta, Dir} \subseteq Plainly \ {Root, Object}
      BY NamesOfBucket, SMTT(20) DEF Plainly
    <3>. QED
      BY <3>1, <3>2, Zenon
  <2>. HIDE DEF ps
  <2>2. tree' = tree \ ps
    BY <2>1, Erased, Zenon
  <2>. QED
    BY <1>2, <2>2, <2>3, TreeLoses, Zenon
<1>4. Done(t) /\ UNCHANGED <<life, stray, stored, env>>
  BY Zenon DEF Prune, history, uploadHistory
<1>. QED
  BY <1>1, <1>2, <1>3, <1>4, CalmEnd, Zenon

\* complete_multipart: put_object_writer asks for the bucket again. From here on Writer promises it.
LEMMA StepOpenWriter ==
  ASSUME MultipartInv, NEW t \in Threads, OpenWriter(t)
  PROVE  MultipartInv'
<1>1. Busy(t) /\ job[t].pc = "writer"
  BY SMTT(20) DEF OpenWriter, Busy
<1>2. /\ tree \subseteq Nodes /\ job[t].op \notin BucketOps /\ ~HasTmp(job[t])
      /\ job[t].op = "complete" /\ Staged(job[t].op, "mkparent")
  BY <1>1, JobFacts, SMTT(20) DEF Staged, BucketOps, HasTmp
<1>3. TreeKept /\ (Tmp \in tree' => Tmp \in tree)
  BY <1>2, SameTree, Zenon DEF OpenWriter, tree
<1>4. UNCHANGED <<life, stray, stored, env>>
  BY Zenon DEF OpenWriter, history, uploadHistory
<1>5. CASE Marker \in tree
  <2>0. Goto(t, "mkparent")
    BY <1>5, Zenon DEF OpenWriter, Check
  <2>1. PICK k : job' = [job EXCEPT ![t] = k] /\ Onward(job[t], k) /\ k.pc = "mkparent"
    BY <1>1, <1>2, <2>0, GotoIs, SMTT(20)
  <2>2. k.pc \notin {"remove", "mark", "read"} /\ ~Renamed(k)
    BY <2>1, SMTT(20) DEF Renamed
  <2>3. Marker \in tree /\ tree' = tree
    BY <1>5, Zenon DEF OpenWriter, tree
  <2>4. JobInv(k, tree', life, stray)
    <3>1. JobInv(job[t], tree, life, stray)
      BY <1>1, JobFacts, Zenon
    <3>. QED
      BY <2>1, <2>2, <2>3, <3>1, Further, Zenon
  <2>5. k.op = job[t].op /\ k.up = job[t].up /\ k.met = job[t].met /\ k.pc # "idle"
    BY <2>1, Zenon DEF Onward
  <2>. QED
    BY <1>1, <1>2, <1>3, <1>4, <2>1, <2>4, <2>5, Calm, Zenon
<1>6. CASE Marker \notin tree
  <2>1. Done(t)
    BY <1>6, Zenon DEF OpenWriter, Check
  <2>. QED
    BY <1>1, <1>2, <1>3, <1>4, <2>1, CalmEnd, Zenon
<1>. QED
  BY <1>5, <1>6, Zenon

\* complete_multipart: the digest of a part.
LEMMA StepReadDigest ==
  ASSUME MultipartInv, NEW t \in Threads, ReadDigest(t)
  PROVE  MultipartInv'
<1>1. Busy(t) /\ job[t].pc = "digest"
  BY SMTT(20) DEF ReadDigest, Busy
<1>2. /\ tree \subseteq Nodes /\ job[t].op \notin BucketOps /\ HasTmp(job[t])
      /\ job[t].op = "complete" /\ Staged(job[t].op, "exists") /\ DOMAIN job[t] = JobFields
  BY <1>1, JobFacts, SMTT(20) DEF Staged, BucketOps, HasTmp
<1>3. TreeKept
  BY <1>2, SameTree, Zenon DEF ReadDigest, tree
<1>4. UNCHANGED <<life, stray, stored, env>>
  BY Zenon DEF ReadDigest, history, uploadHistory
<1>. DEFINE k == [job[t] EXCEPT !.pc = "exists", !.at = @ + 1,
                                !.md5s = @ \o Block(PartMeta(job[t].up, Listed(t)))]
<1>5. job' = [job EXCEPT ![t] = k]
  BY Zenon DEF ReadDigest
<1>6. DOMAIN k = JobFields /\ k.op = job[t].op /\ k.up = job[t].up /\ k.num = job[t].num /\ k.met = job[t].met /\ k.pc = "exists"
  BY <1>2, SMTT(20) DEF JobFields
<1>. HIDE DEF k
<1>7. Onward(job[t], k) /\ k.pc \notin {"remove", "mark", "read"} /\ ~Renamed(k) /\ HasTmp(k)
  BY <1>2, <1>6, SMTT(20) DEF Onward, Renamed, HasTmp
<1>. QED
  BY <1>1, <1>2, <1>3, <1>4, <1>5, <1>7, CalmStep, Zenon

----------------------------------------------------------------------------
(* Uploads: parts, completion. *)

\* A node of the tree is the bucket's own or of one upload.
LEMMA NodesAre ==
  ASSUME NEW q \in Nodes
  PROVE  \/ q \in Bucketwide
         \/ \E v \in Uploads : q \in {Upload(v), Info(v), Parts(v)}
         \/ \E v \in Uploads : \E n \in PartNumbers : q \in {Part(v, n), PartMeta(v, n)}
<1>. DEFINE SS == {{Part(v, m), PartMeta(v, m)} : v \in Uploads, m \in PartNumbers}
            DD == {{Upload(v), Parts(v)} : v \in Uploads}
<1>1. \A S \in SS : \E v \in Uploads : \E n \in PartNumbers : S = {Part(v, n), PartMeta(v, n)}
  BY SMTT(20)
<1>2. \A S \in DD : \E v \in Uploads : S = {Upload(v), Parts(v)}
  BY SMTT(20)
<1>3. Files = {Marker, Object, Tmp, Meta, Version, Tags} \cup {Info(v) : v \in Uploads} \cup UNION SS
  BY SMTT(20) DEF Files
<1>4. Dirs = {Root, Data, Dir, Nest, MetaDir, Versions, TagDir, <<"uploads">>} \cup UNION DD
  BY Zenon DEF Dirs
<1>. HIDE DEF SS, DD
<1>5. CASE q \in UNION SS
  <2>1. PICK S \in SS : q \in S
    BY <1>5, Zenon
  <2>. QED
    BY <1>1, <2>1, Zenon
<1>6. CASE q \in UNION DD
  <2>1. PICK S \in DD : q \in S
    BY <1>6, Zenon
  <2>. QED
    BY <1>2, <2>1, Zenon
<1>7. CASE q \in {Info(v) : v \in Uploads}
  BY <1>7, Zenon
<1>8. CASE q \in {Marker, Object, Tmp, Meta, Version, Tags, Root, Data, Dir, Nest, MetaDir, Versions, TagDir, <<"uploads">>}
  BY <1>8, Zenon DEF Bucketwide
<1>9. q \in Files \cup Dirs
  BY Zenon DEF Nodes
<1>10. \/ q \in UNION SS \/ q \in UNION DD \/ q \in {Info(v) : v \in Uploads}
       \/ q \in {Marker, Object, Tmp, Meta, Version, Tags, Root, Data, Dir, Nest, MetaDir, Versions, TagDir, <<"uploads">>}
  <2>1. CASE q \in Files
    BY <1>3, <2>1, Zenon
  <2>2. CASE q \in Dirs
    BY <1>4, <2>2, Zenon
  <2>. QED
    BY <1>9, <2>1, <2>2, Zenon
<1>. QED
  BY <1>5, <1>6, <1>7, <1>8, <1>10, Zenon

\* Nothing of an upload lies above a path of the bucket's own.
LEMMA UptoBucketwide ==
  ASSUME NEW q \in Bucketwide
  PROVE  Upto(q) \subseteq Bucketwide
<1>1. CASE q \in {Root, Marker, Data, Dir, Nest, Object, Tmp}
  BY <1>1, UptoAll, SMTT(20) DEF Bucketwide
<1>2. CASE q \in {MetaDir, Meta, Versions, Version, TagDir, Tags, <<"uploads">>}
  BY <1>2, UptoAll, SMTT(20) DEF Bucketwide
<1>. QED
  BY <1>1, <1>2, Zenon DEF Bucketwide

\* What remove_dir_all finds under an upload's directory is of that upload, the directory among it.
LEMMA BelowUpload ==
  ASSUME NEW u \in Uploads, tree \subseteq Nodes
  PROVE  Below(Upload(u)) \subseteq Under(u) /\ (Upload(u) \in tree => Upload(u) \in Below(Upload(u)))
<1>1. ASSUME NEW q \in Nodes, Upload(u) \in Upto(q) PROVE q \in Under(u)
  <2>1. CASE q \in Bucketwide
    <3>1. Upload(u) \in Bucketwide
      BY <1>1, <2>1, UptoBucketwide, Zenon
    <3>2. Upload(u) \notin Bucketwide
      BY NamesOfUploads, Zenon
    <3>. QED
      BY <3>1, <3>2, Zenon
  <2>2. ASSUME NEW v \in Uploads, q \in {Upload(v), Info(v), Parts(v)} PROVE q \in Under(u)
    <3>1. Upto(q) \subseteq {Root, <<"uploads">>, Upload(v), Info(v), Parts(v)}
      BY <2>2, UptoUpload, SMTT(20)
    <3>2. Upload(u) \notin {Root, <<"uploads">>, Info(v), Parts(v)}
      <4>1. Upload(u) \notin Bucketwide
        BY NamesOfUploads, Zenon
      <4>2. Upload(u) # Root /\ Upload(u) # <<"uploads">>
        BY <4>1, Zenon DEF Bucketwide
      <4>. QED
        BY <4>2, NamesOfUploads, Zenon
    <3>3. u = v
      BY <1>1, <3>1, <3>2, NamesOfUploads, Zenon
    <3>. QED
      BY <2>2, <3>3, Zenon DEF Under
  <2>3. ASSUME NEW v \in Uploads, NEW n \in PartNumbers, q \in {Part(v, n), PartMeta(v, n)} PROVE q \in Under(u)
    <3>1. Upto(q) \subseteq {Root, <<"uploads">>, Upload(v), Parts(v), Part(v, n), PartMeta(v, n)}
      BY <2>3, UptoUpload, SMTT(20)
    <3>2. Upload(u) \notin {Root, <<"uploads">>, Parts(v), Part(v, n), PartMeta(v, n)}
      <4>1. Upload(u) \notin Bucketwide
        BY NamesOfUploads, Zenon
      <4>2. Upload(u) # Root /\ Upload(u) # <<"uploads">>
        BY <4>1, Zenon DEF Bucketwide
      <4>. QED
        BY <4>2, NamesOfUploads, Zenon
    <3>3. u = v
      BY <1>1, <3>1, <3>2, NamesOfUploads, Zenon
    <3>4. {Part(u, n), PartMeta(u, n)} \subseteq Under(u)
      BY SMTT(20) DEF Under
    <3>. QED
      BY <2>3, <3>3, <3>4, Zenon
  <2>. QED
    BY <2>1, <2>2, <2>3, NodesAre, Zenon
<1>2. Upload(u) \in Upto(Upload(u))
  BY UptoUpload, SMTT(20)
<1>. QED
  BY <1>1, <1>2, SMTT(20) DEF Below

\* Under(u) is of the tree's nodes.
LEMMA UnderNodes ==
  ASSUME NEW u \in Uploads
  PROVE  Under(u) \subseteq Nodes
<1>1. {Upload(u), Info(u), Parts(u)} \subseteq Nodes
  BY PlainNodes, Zenon
<1>2. \A n \in PartNumbers : {Part(u, n), PartMeta(u, n)} \subseteq Nodes
  BY PlainNodes, Zenon
<1>. QED
  BY <1>1, <1>2, SMTT(20) DEF Under

\* A part or its digest, once written, disturbs no other handler.
LEMMA PartGrows ==
  ASSUME tree \subseteq Nodes, NEW u \in Uploads, NEW n \in PartNumbers,
         tree' = tree \cup {Part(u, n)} \/ tree' = tree \cup {PartMeta(u, n)}
  PROVE  TreeKept /\ (Tmp \in tree' => Tmp \in tree)
<1>1. {Part(u, n), PartMeta(u, n)} \subseteq Nodes
  BY PlainNodes, Zenon
<1>2. \A v : Upload(v) \notin {Part(u, n), PartMeta(u, n)}
  BY NamesOfUploads, SMTT(20)
<1>3. Tmp \notin {Part(u, n), PartMeta(u, n)}
  <2>1. Tmp \in Bucketwide
    BY Zenon DEF Bucketwide
  <2>. QED
    BY <2>1, NamesOfUploads, Zenon
<1>4. PICK p \in {Part(u, n), PartMeta(u, n)} : tree' = tree \cup {p}
  BY Zenon
<1>5. p \in Nodes /\ p # Tmp /\ \A v : Upload(v) # p
  BY <1>1, <1>2, <1>3, Zenon
<1>. QED
  BY <1>4, <1>5, SMTT(20) DEF TreeKept

\* upload_part: the part is truncated, if its upload is still there.
LEMMA StepOpenPart ==
  ASSUME MultipartInv, NEW t \in Threads, OpenPart(t)
  PROVE  MultipartInv'
<1>1. Busy(t) /\ job[t].pc = "openpart"
  BY SMTT(20) DEF OpenPart, Busy
<1>2. /\ tree \subseteq Nodes /\ job[t].op \notin BucketOps /\ ~HasTmp(job[t]) /\ DOMAIN job[t] = JobFields
      /\ job[t].op = "part" /\ Staged(job[t].op, "writepart") /\ job[t].up \in Uploads /\ job[t].num \in PartNumbers
  BY <1>1, JobFacts, SMTT(20) DEF Staged, BucketOps, HasTmp, UploadOps
<1>3. UNCHANGED <<life, stray, stored, env>>
  BY Zenon DEF OpenPart, history, uploadHistory
<1>4. CASE Parts(job[t].up) \in tree
  <2>1. fs' = Write(fs, Part(job[t].up, job[t].num), Empty)
    BY <1>4, Zenon DEF OpenPart
  <2>2. tree' = tree \cup {Part(job[t].up, job[t].num)}
    BY <2>1, Wrote, Zenon
  <2>3. TreeKept /\ (Tmp \in tree' => Tmp \in tree)
    BY <1>2, <2>2, PartGrows, Zenon
  <2>. DEFINE k == [job[t] EXCEPT !.pc = "writepart", !.linked = TRUE]
  <2>4. job' = [job EXCEPT ![t] = k]
    BY <1>4, Zenon DEF OpenPart
  <2>5. DOMAIN k = JobFields /\ k.op = job[t].op /\ k.up = job[t].up /\ k.num = job[t].num /\ k.met = job[t].met /\ k.pc = "writepart"
    BY <1>2, SMTT(20) DEF JobFields
  <2>. HIDE DEF k
  <2>6. Onward(job[t], k) /\ k.pc \notin {"remove", "mark", "read"} /\ ~Renamed(k)
    BY <1>2, <2>5, SMTT(20) DEF Onward, Renamed
  <2>. QED
    BY <1>1, <1>2, <1>3, <2>3, <2>4, <2>6, CalmStep, Zenon
<1>5. CASE Parts(job[t].up) \notin tree
  <2>1. Done(t) /\ tree' = tree
    BY <1>5, Zenon DEF OpenPart, tree
  <2>2. TreeKept
    BY <1>2, <2>1, SameTree, Zenon
  <2>. QED
    BY <1>1, <1>2, <1>3, <2>1, <2>2, CalmEnd, Zenon
<1>. QED
  BY <1>4, <1>5, Zenon

\* upload_part: the body.
LEMMA StepWritePart ==
  ASSUME MultipartInv, NEW t \in Threads, WritePart(t)
  PROVE  MultipartInv'
<1>1. Busy(t) /\ job[t].pc = "writepart"
  BY SMTT(20) DEF WritePart, Busy
<1>2. /\ tree \subseteq Nodes /\ job[t].op \notin BucketOps /\ ~HasTmp(job[t]) /\ DOMAIN job[t] = JobFields
      /\ job[t].op = "part" /\ Staged(job[t].op, "partmeta") /\ job[t].up \in Uploads /\ job[t].num \in PartNumbers
  BY <1>1, JobFacts, SMTT(20) DEF Staged, BucketOps, HasTmp, UploadOps
<1>3. UNCHANGED <<life, stray, stored, env>>
  BY Zenon DEF WritePart, history, uploadHistory
<1>4. TreeKept /\ (Tmp \in tree' => Tmp \in tree)
  <2>1. CASE job[t].linked
    <3>1. fs' = Write(fs, Part(job[t].up, job[t].num), job[t].body)
      BY <2>1, Zenon DEF WritePart
    <3>2. tree' = tree \cup {Part(job[t].up, job[t].num)}
      BY <3>1, Wrote, Zenon
    <3>. QED
      BY <1>2, <3>2, PartGrows, Zenon
  <2>2. CASE ~job[t].linked
    <3>1. tree' = tree
      BY <2>2, Zenon DEF WritePart, tree
    <3>. QED
      BY <1>2, <3>1, SameTree, Zenon
  <2>. QED
    BY <2>1, <2>2, Zenon
<1>. DEFINE k == [job[t] EXCEPT !.pc = "partmeta", !.linked = FALSE]
<1>5. job' = [job EXCEPT ![t] = k]
  BY Zenon DEF WritePart
<1>6. DOMAIN k = JobFields /\ k.op = job[t].op /\ k.up = job[t].up /\ k.num = job[t].num /\ k.met = job[t].met /\ k.pc = "partmeta"
  BY <1>2, SMTT(20) DEF JobFields
<1>. HIDE DEF k
<1>7. Onward(job[t], k) /\ k.pc \notin {"remove", "mark", "read"} /\ ~Renamed(k)
  BY <1>2, <1>6, SMTT(20) DEF Onward, Renamed
<1>. QED
  BY <1>1, <1>2, <1>3, <1>4, <1>5, <1>7, CalmStep, Zenon

\* upload_part: digest and answer.
LEMMA StepWritePartMeta ==
  ASSUME MultipartInv, NEW t \in Threads, WritePartMeta(t)
  PROVE  MultipartInv'
<1>1. Busy(t) /\ job[t].pc = "partmeta"
  BY SMTT(20) DEF WritePartMeta, Busy
<1>2. /\ tree \subseteq Nodes /\ job[t].op \notin BucketOps /\ ~HasTmp(job[t])
      /\ job[t].op = "part" /\ job[t].up \in Uploads /\ job[t].num \in PartNumbers
  BY <1>1, JobFacts, SMTT(20) DEF Staged, BucketOps, HasTmp, UploadOps
<1>3. UNCHANGED <<life, stray, stored, env>> /\ Done(t)
  BY Zenon DEF WritePartMeta
<1>4. TreeKept /\ (Tmp \in tree' => Tmp \in tree)
  <2>1. CASE Parts(job[t].up) \in tree
    <3>1. fs' = Write(fs, PartMeta(job[t].up, job[t].num), job[t].body)
      BY <2>1, Zenon DEF WritePartMeta
    <3>2. tree' = tree \cup {PartMeta(job[t].up, job[t].num)}
      BY <3>1, Wrote, Zenon
    <3>. QED
      BY <1>2, <3>2, PartGrows, Zenon
  <2>2. CASE Parts(job[t].up) \notin tree
    <3>1. tree' = tree
      BY <2>2, Zenon DEF WritePartMeta, tree
    <3>. QED
      BY <1>2, <3>1, SameTree, Zenon
  <2>. QED
    BY <2>1, <2>2, Zenon
<1>. QED
  BY <1>1, <1>2, <1>3, <1>4, CalmEnd, Zenon

\* complete_multipart: a part is copied, or has gone since it was looked for.
LEMMA StepReadPart ==
  ASSUME MultipartInv, NEW t \in Threads, ReadPart(t)
  PROVE  MultipartInv'
<1>1. Busy(t) /\ job[t].pc = "read"
  BY SMTT(20) DEF ReadPart, Busy
<1>2. /\ tree \subseteq Nodes /\ job[t].op \notin BucketOps /\ HasTmp(job[t]) /\ DOMAIN job[t] = JobFields
      /\ job[t].op = "complete" /\ Staged(job[t].op, "digest")
  BY <1>1, JobFacts, SMTT(20) DEF Staged, BucketOps, HasTmp, UploadOps
<1>3. UNCHANGED <<life, stray, stored, env>> /\ TreeKept
  BY <1>2, SameTree, Zenon DEF ReadPart, history, uploadHistory, tree
<1>4. CASE Part(job[t].up, Listed(t)) \in tree
  <2>. DEFINE k == [job[t] EXCEPT !.pc = "digest", !.sum = @ \o Block(Part(job[t].up, Listed(t)))]
  <2>1. job' = [job EXCEPT ![t] = k]
    BY <1>4, Zenon DEF ReadPart
  <2>2. DOMAIN k = JobFields /\ k.op = job[t].op /\ k.up = job[t].up /\ k.num = job[t].num /\ k.met = job[t].met /\ k.pc = "digest"
    BY <1>2, SMTT(20) DEF JobFields
  <2>. HIDE DEF k
  <2>3. Onward(job[t], k) /\ k.pc \notin {"remove", "mark", "read"} /\ ~Renamed(k) /\ HasTmp(k)
    BY <1>2, <2>2, SMTT(20) DEF Onward, Renamed, HasTmp
  <2>. QED
    BY <1>1, <1>2, <1>3, <2>1, <2>3, CalmStep, Zenon
<1>5. CASE Part(job[t].up, Listed(t)) \notin tree
  <2>1. Done(t)
    BY <1>5, Zenon DEF ReadPart
  <2>2. stray
    BY <1>1, <1>5, JobFacts, Zenon DEF JobInv, Calmly, Listed
  <2>. QED
    BY <1>1, <1>2, <1>3, <2>1, <2>2, CalmEnd, Zenon
<1>. QED
  BY <1>4, <1>5, Zenon

\* complete_multipart: the next part is looked for; a missing one aborts the writer.
LEMMA StepPartExists ==
  ASSUME MultipartInv, NEW t \in Threads, PartExists(t)
  PROVE  MultipartInv'
<1>. DEFINE ok == PartsLeft(t) => Part(job[t].up, Listed(t)) \in tree
<1>1. Busy(t) /\ job[t].pc = "exists"
  BY SMTT(20) DEF PartExists, Busy
<1>2. /\ tree \subseteq Nodes /\ job[t].op \notin BucketOps /\ HasTmp(job[t]) /\ DOMAIN job[t] = JobFields
      /\ job[t].op = "complete" /\ Staged(job[t].op, "read") /\ Staged(job[t].op, "rename")
  BY <1>1, JobFacts, SMTT(20) DEF Staged, BucketOps, HasTmp, UploadOps
<1>3. UNCHANGED <<life, stray, stored, env>>
  BY Zenon DEF PartExists, history, uploadHistory
<1>4. CASE ok /\ PartsLeft(t)
  <2>1. Goto(t, "read") /\ tree' = tree
    BY <1>4, Zenon DEF PartExists, Check, tree
  <2>. DEFINE k == [job[t] EXCEPT !.pc = "read"]
  <2>2. job' = [job EXCEPT ![t] = k]
    BY <2>1, Zenon DEF Goto
  <2>3. DOMAIN k = JobFields /\ k.op = job[t].op /\ k.up = job[t].up /\ k.met = job[t].met /\ k.pc = "read"
        /\ k.list = job[t].list /\ k.at = job[t].at
    BY <1>2, SMTT(20) DEF JobFields
  <2>. HIDE DEF k
  <2>4. JobInv(k, tree', life, stray)
    <3>1. JobInv(job[t], tree, life, stray)
      BY <1>1, JobFacts, Zenon
    <3>2. JobOK(k)
      BY <1>2, <2>3, <3>1, <1>1, SMTT(20) DEF JobInv, JobOK, UploadOps
    <3>3. Todo(k) /\ Aborting(k, tree') /\ Living(k, life)
      BY <1>2, <2>3, <3>1, SMTT(20) DEF JobInv, Todo, Aborting, Living
    <3>4. Writer(k, tree')
      BY <1>1, <1>2, <2>1, <2>3, <3>1, SMTT(20) DEF JobInv, Writer, Renamed
    <3>5. Calmly(k, tree')
      BY <1>2, <1>4, <2>1, <2>3, SMTT(20) DEF Calmly, Listed
    <3>. QED
      BY <3>2, <3>3, <3>4, <3>5, Zenon DEF JobInv
  <2>5. TreeKept
    BY <1>2, <2>1, SameTree, Zenon
  <2>6. HasTmp(k) /\ k.pc # "idle"
    BY <2>3, SMTT(20) DEF HasTmp
  <2>. QED
    BY <1>1, <1>2, <1>3, <2>2, <2>3, <2>4, <2>5, <2>6, Calm, Zenon
<1>5. CASE ok /\ ~PartsLeft(t)
  <2>1. Goto(t, "rename") /\ tree' = tree
    BY <1>5, Zenon DEF PartExists, Check, tree
  <2>2. PICK k : job' = [job EXCEPT ![t] = k] /\ Onward(job[t], k) /\ k.pc = "rename"
    BY <1>1, <1>2, <2>1, GotoIs, SMTT(20)
  <2>3. k.pc \notin {"remove", "mark", "read"} /\ ~Renamed(k) /\ HasTmp(k)
    BY <2>2, SMTT(20) DEF Renamed, HasTmp
  <2>4. TreeKept
    BY <1>2, <2>1, SameTree, Zenon
  <2>. QED
    BY <1>1, <1>2, <1>3, <2>2, <2>3, <2>4, CalmStep, Zenon
<1>6. CASE ~ok
  <2>1. Done(t) /\ fs' = Erase(fs, {Tmp})
    BY <1>6, Zenon DEF PartExists, Check
  <2>2. tree' = tree \ {Tmp}
    BY <2>1, Erased, Zenon
  <2>3. {Tmp} \subseteq Plainly \ {Root, Object}
    BY NamesOfBucket, SMTT(20) DEF Plainly
  <2>4. TreeKept /\ Tmp \notin tree'
    BY <1>2, <2>2, <2>3, TreeLoses, Zenon
  <2>. QED
    BY <1>1, <1>2, <1>3, <2>1, <2>4, CalmEnd, Zenon
<1>. QED
  BY <1>4, <1>5, <1>6, Zenon

\* complete_multipart turns to the removal of the upload.
LEMMA Turning ==
  ASSUME MultipartInv, NEW t \in Threads, Busy(t), job[t].op = "complete", Renamed(job[t]),
         job' = [job EXCEPT ![t].pc = "remove", ![t].todo = Below(Upload(job[t].up))],
         UNCHANGED <<life, stray, stored, env>>, TreeKept, Tmp \in tree' => Tmp \in tree
  PROVE  MultipartInv'
<1>. DEFINE k == [job[t] EXCEPT !.pc = "remove", !.todo = Below(Upload(job[t].up))]
<1>1. /\ tree \subseteq Nodes /\ job[t].op \notin BucketOps /\ DOMAIN job[t] = JobFields
      /\ Staged(job[t].op, "remove") /\ job[t].up \in Uploads /\ JobInv(job[t], tree, life, stray)
  BY JobFacts, SMTT(20) DEF Staged, BucketOps, UploadOps
<1>2. job' = [job EXCEPT ![t] = k]
  BY Zenon
<1>3. DOMAIN k = JobFields /\ k.op = job[t].op /\ k.up = job[t].up /\ k.met = job[t].met /\ k.pc = "remove"
      /\ k.todo = Below(Upload(job[t].up))
  BY <1>1, SMTT(20) DEF JobFields
<1>. HIDE DEF k
<1>4. k.todo \subseteq Under(k.up) /\ k.todo \subseteq Nodes
  <2>1. Below(Upload(job[t].up)) \subseteq Under(job[t].up) /\ Under(job[t].up) \subseteq Nodes
    BY <1>1, BelowUpload, UnderNodes, Zenon
  <2>. QED
    BY <1>3, <2>1, Zenon
<1>5. JobInv(k, tree', life, stray)
  <2>1. JobOK(k)
    BY <1>1, <1>3, SMTT(20) DEF JobInv, JobOK
  <2>2. Todo(k)
    BY <1>4, Zenon DEF Todo
  <2>3. Aborting(k, tree') /\ Living(k, life) /\ Calmly(k, tree')
    BY <1>1, <1>3, SMTT(20) DEF JobInv, Aborting, Living, Calmly
  <2>4. Writer(k, tree')
    BY <1>1, <1>3, SMTT(20) DEF JobInv, Writer, Renamed, TreeKept
  <2>. QED
    BY <2>1, <2>2, <2>3, <2>4, Zenon DEF JobInv
<1>6. k.pc # "idle" /\ ~HasTmp(job[t])
  BY <1>3, SMTT(20) DEF HasTmp, Renamed
<1>. QED
  BY <1>1, <1>2, <1>3, <1>5, <1>6, Calm, Zenon

\* rewrite_meta_etag: the metadata is read.
LEMMA StepRewriteRead ==
  ASSUME MultipartInv, NEW t \in Threads, RewriteRead(t)
  PROVE  MultipartInv'
<1>1. Busy(t) /\ job[t].pc = "readmeta"
  BY SMTT(20) DEF RewriteRead, Busy
<1>2. /\ tree \subseteq Nodes /\ job[t].op \notin BucketOps /\ ~HasTmp(job[t]) /\ DOMAIN job[t] = JobFields
      /\ job[t].op = "complete" /\ Staged(job[t].op, "rewrite") /\ Renamed(job[t])
  BY <1>1, JobFacts, SMTT(20) DEF Staged, BucketOps, HasTmp, Renamed
<1>3. UNCHANGED <<life, stray, stored, env>> /\ TreeKept /\ tree' = tree
  BY <1>2, SameTree, Zenon DEF RewriteRead, history, uploadHistory, tree
<1>4. CASE Meta \in tree
  <2>. DEFINE k == [job[t] EXCEPT !.pc = "rewrite", !.seen = fs[Meta].of]
  <2>1. job' = [job EXCEPT ![t] = k]
    BY <1>4, Zenon DEF RewriteRead
  <2>2. DOMAIN k = JobFields /\ k.op = job[t].op /\ k.up = job[t].up /\ k.num = job[t].num /\ k.met = job[t].met /\ k.pc = "rewrite"
    BY <1>2, SMTT(20) DEF JobFields
  <2>. HIDE DEF k
  <2>3. Onward(job[t], k) /\ k.pc \notin {"remove", "mark", "read"}
    BY <1>2, <2>2, SMTT(20) DEF Onward
  <2>. QED
    BY <1>1, <1>2, <1>3, <2>1, <2>3, CalmStep, Zenon
<1>5. CASE Meta \notin tree
  <2>1. job' = [job EXCEPT ![t].pc = "remove", ![t].todo = Below(Upload(job[t].up))]
    BY <1>5, Zenon DEF RewriteRead
  <2>. QED
    BY <1>1, <1>2, <1>3, <2>1, Turning, Zenon
<1>. QED
  BY <1>4, <1>5, Zenon

\* rewrite_meta_etag: the metadata is written.
LEMMA StepRewriteWrite ==
  ASSUME MultipartInv, NEW t \in Threads, RewriteWrite(t)
  PROVE  MultipartInv'
<1>1. Busy(t) /\ job[t].pc = "rewrite"
  BY SMTT(20) DEF RewriteWrite, Busy
<1>2. /\ tree \subseteq Nodes /\ job[t].op = "complete" /\ Renamed(job[t])
  BY <1>1, JobFacts, SMTT(20) DEF Staged, Renamed
<1>3. UNCHANGED <<life, stray, stored, env>>
  BY Zenon DEF RewriteWrite, history, uploadHistory
<1>4. TreeKept /\ (Tmp \in tree' => Tmp \in tree)
  <2>1. CASE MetaDir \in tree
    <3>1. PICK x : fs' = Write(fs, Meta, x)
      BY <2>1, Zenon DEF RewriteWrite
    <3>2. tree' = tree \cup {Meta}
      BY <3>1, Wrote, Zenon
    <3>3. {Meta} \subseteq Plainly /\ Tmp \notin {Meta}
      BY NamesOfBucket, SMTT(20) DEF Plainly
    <3>. QED
      BY <1>2, <3>2, <3>3, TreeGrows, Zenon
  <2>2. CASE MetaDir \notin tree
    <3>1. tree' = tree
      BY <2>2, Zenon DEF RewriteWrite, tree
    <3>. QED
      BY <1>2, <3>1, SameTree, Zenon
  <2>. QED
    BY <2>1, <2>2, Zenon
<1>5. job' = [job EXCEPT ![t].pc = "remove", ![t].todo = Below(Upload(job[t].up))]
  BY Zenon DEF RewriteWrite
<1>. QED
  BY <1>1, <1>2, <1>3, <1>4, <1>5, Turning, Zenon

----------------------------------------------------------------------------
(* The bucket. *)

\* With the bucket there after the step nothing is asked of its remains.
LEMMA MarkerStays ==
  ASSUME Marker \in tree'
  PROVE  GoneInv'
BY Zenon DEF GoneInv

\* A step that writes one thread's record leaves the others'.
LEMMA Others ==
  ASSUME MultipartInv, NEW t \in Threads, Busy(t), NEW k, job' = [job EXCEPT ![t] = k],
         k = NoJob \/ (k.op = job[t].op /\ k.up = job[t].up /\ k.met = job[t].met /\ k.pc # "idle"),
         env' = env, tree' \subseteq Nodes, stray => stray'
  PROVE  StepsAlone(t, k)
BY OnlyOne, Zenon DEF StepsAlone

\* A step that leaves the clients' view of the uploads alone keeps what is promised of it.
LEMMA SameLife ==
  ASSUME MultipartInv, life' = life, NEW t
  PROVE  LifeHeld(t)
<1>1. DOMAIN life = Uploads
  BY Zenon DEF MultipartInv, FilesInv
<1>. QED
  BY <1>1, Zenon DEF LifeHeld

\* TreeKept is the stronger of the two frames.
LEMMA KeptHeld ==
  ASSUME TreeKept, NEW t
  PROVE  TreeHeld(t)
BY Zenon DEF TreeHeld, TreeKept

\* A handler that is not at the temporary file, and brings none, leaves it as it was.
LEMMA TmpLeft ==
  ASSUME TreeKept, Tmp \in tree' => Tmp \in tree, NEW t, ~HasTmp(job[t]), NEW k
  PROVE  TmpHeld(t, k)
BY Zenon DEF TmpHeld, TreeKept

\* create_bucket: the directories.
LEMMA StepMakeBucket ==
  ASSUME MultipartInv, NEW t \in Threads, MakeBucket(t)
  PROVE  MultipartInv'
<1>1. Busy(t) /\ job[t].pc = "mkbucket"
  BY SMTT(20) DEF MakeBucket, Busy
<1>2. /\ tree \subseteq Nodes /\ job[t].op = "createBucket" /\ Staged(job[t].op, "mark") /\ ~HasTmp(job[t])
      /\ DOMAIN job[t] = JobFields
  BY <1>1, JobFacts, SMTT(20) DEF Staged, HasTmp
<1>3. UNCHANGED <<life, stray, stored, env>>
  BY Zenon DEF MakeBucket, history, uploadHistory
<1>4. tree' = tree \cup {Root, Data, MetaDir}
  BY Made, Zenon DEF MakeBucket
<1>5. {Root, Data, MetaDir} \subseteq Plainly /\ Tmp \notin {Root, Data, MetaDir} /\ Root \in {Root, Data, MetaDir}
  BY NamesOfBucket, SMTT(20) DEF Plainly
<1>6. TreeKept /\ (Tmp \in tree' => Tmp \in tree) /\ Root \in tree'
  BY <1>2, <1>4, <1>5, TreeGrows, Zenon
<1>7. PICK k : job' = [job EXCEPT ![t] = k] /\ Onward(job[t], k) /\ k.pc = "mark"
  BY <1>1, <1>2, GotoIs, SMTT(20) DEF MakeBucket
<1>8. k.op = "createBucket" /\ k.pc # "idle" /\ k.op = job[t].op /\ k.up = job[t].up /\ k.met = job[t].met
  BY <1>2, <1>7, Zenon DEF Onward
<1>9. JobInv(k, tree', life', stray')
  <2>1. JobOK(k)
    BY <1>2, <1>7, <1>8, SMTT(20) DEF JobOK, Onward, UploadOps
  <2>2. Todo(k) /\ Aborting(k, tree') /\ Living(k, life') /\ Writer(k, tree') /\ Calmly(k, tree')
    BY <1>6, <1>7, <1>8, SMTT(20) DEF Todo, Aborting, Living, Writer, Calmly
  <2>. QED
    BY <2>1, <2>2, Zenon DEF JobInv
<1>10. StepsAlone(t, k)
  BY <1>1, <1>3, <1>6, <1>7, <1>8, Others, Zenon DEF TreeKept
<1>11. TreeHeld(t) /\ LifeHeld(t)
  BY <1>3, <1>6, KeptHeld, SameLife, Zenon
<1>12. StoredHeld(t, k)
  <2>1. StoredInv
    BY Zenon DEF MultipartInv, FilesInv
  <2>. QED
    BY <1>3, <1>6, <1>8, <2>1, SMTT(20) DEF StoredHeld, StoredInv, TreeKept
<1>13. stray \/ GoneInv'
  <2>1. SUFFICES ASSUME ~stray, Marker \notin tree' PROVE GoneInv'
    BY MarkerStays, Zenon
  <2>2. Alone /\ GoneInv /\ Marker \notin tree
    BY <1>6, <2>1, Zenon DEF MultipartInv, FilesInv, StrayInv, TreeKept
  <2>3. \A q \in Threads : job[q].op # "deleteBucket"
    BY <1>1, <1>2, <2>2, SMTT(20) DEF Alone, Removers
  <2>4. tree \subseteq {Root, Data, MetaDir} /\ \A q \in Threads : Busy(q) => job[q].op = "createBucket"
    BY <2>2, <2>3, Zenon DEF GoneInv
  <2>5. tree' \subseteq {Root, Data, MetaDir}
    BY <1>4, <2>4, Zenon
  <2>6. job'[t] = k /\ \A q \in Threads \ {t} : job'[q] = job[q]
    BY <1>7, OnlyOne, Zenon
  <2>7. \A q \in Threads : job'[q].pc # "idle" => job'[q].op = "createBucket"
    BY <1>8, <2>4, <2>6, Zenon DEF Busy
  <2>. QED
    BY <1>7, <2>5, <2>6, <2>7, Zenon DEF GoneInv, Busy
<1>14. TmpHeld(t, k)
  BY <1>2, <1>6, TmpLeft, Zenon
<1>. QED
  BY <1>3, <1>9, <1>10, <1>11, <1>12, <1>13, <1>14, Steady, Zenon

\* create_bucket: the marker, if nobody has removed the directory.
LEMMA StepMarkBucket ==
  ASSUME MultipartInv, NEW t \in Threads, MarkBucket(t)
  PROVE  MultipartInv'
<1>1. Busy(t) /\ job[t].pc = "mark"
  BY SMTT(20) DEF MarkBucket, Busy
<1>2. tree \subseteq Nodes /\ job[t].op = "createBucket" /\ ~HasTmp(job[t])
  BY <1>1, JobFacts, SMTT(20) DEF Staged, HasTmp
<1>3. UNCHANGED <<life, stray, stored, env>>
  BY Zenon DEF MarkBucket, history, uploadHistory
<1>4. TreeKept /\ (Tmp \in tree' => Tmp \in tree) /\ (Root \in tree => Marker \in tree')
  <2>1. CASE Root \in tree
    <3>1. tree' = tree \cup {Marker}
      BY <2>1, Made, Zenon DEF MarkBucket
    <3>2. Marker \in Nodes /\ Tmp # Marker /\ \A u, n : Upload(u) # Marker /\ Part(u, n) # Marker
      <4>1. Marker \in Bucketwide
        BY Zenon DEF Bucketwide
      <4>2. Marker \in Nodes
        BY PlainNodes, SMTT(20)
      <4>. QED
        BY <4>1, <4>2, NamesOfUploads, NamesOfBucket, Zenon
    <3>. QED
      BY <1>2, <3>1, <3>2, SMTT(20) DEF TreeKept
  <2>2. CASE Root \notin tree
    <3>1. tree' = tree
      BY <2>2, Zenon DEF MarkBucket, tree
    <3>. QED
      BY <1>2, <2>2, <3>1, SameTree, Zenon
  <2>. QED
    BY <2>1, <2>2, Zenon
<1>5. job' = [job EXCEPT ![t] = NoJob]
  BY Zenon DEF MarkBucket, Done
<1>6. JobInv(NoJob, tree', life', stray') /\ NoJob.op = "none"
  BY IdleJob, Zenon
<1>7. StepsAlone(t, NoJob)
  BY <1>1, <1>3, <1>4, <1>5, Others, Zenon DEF TreeKept
<1>8. TreeHeld(t) /\ LifeHeld(t)
  BY <1>3, <1>4, KeptHeld, SameLife, Zenon
<1>9. StoredHeld(t, NoJob)
  <2>1. StoredInv
    BY Zenon DEF MultipartInv, FilesInv
  <2>. QED
    BY <1>3, <1>4, <1>6, <2>1, SMTT(20) DEF StoredHeld, StoredInv, TreeKept
<1>10. stray \/ GoneInv'
  <2>1. stray \/ Root \in tree
    BY <1>1, JobFacts, Zenon DEF JobInv, Calmly
  <2>. QED
    BY <1>4, <2>1, MarkerStays, Zenon
<1>11. TmpHeld(t, NoJob)
  BY <1>2, <1>4, TmpLeft, Zenon
<1>. QED
  BY <1>3, <1>6, <1>7, <1>8, <1>9, <1>10, <1>11, Steady, Zenon

\* The steps of delete_bucket before it removes anything.
LEMMA Scanning ==
  ASSUME MultipartInv, NEW t \in Threads, Busy(t), job[t].op = "deleteBucket", job[t].pc # "remove",
         NEW k, job' = [job EXCEPT ![t] = k], UNCHANGED <<life, stray, stored, env>>, tree' = tree,
         k = NoJob \/ (k.op = job[t].op /\ k.up = job[t].up /\ k.met = job[t].met /\ k.pc # "idle" /\ ~stored),
         JobInv(k, tree', life', stray')
  PROVE  MultipartInv'
<1>1. tree \subseteq Nodes /\ ~HasTmp(job[t]) /\ StoredInv
  <2>1. Staged(job[t].op, job[t].pc) /\ tree \subseteq Nodes
    BY JobFacts, Zenon
  <2>2. ~HasTmp(job[t])
    BY <2>1, SMTT(20) DEF Staged, HasTmp
  <2>. QED
    BY <2>1, <2>2, Zenon DEF MultipartInv, FilesInv
<1>2. StepsAlone(t, k)
  BY <1>1, Others, Zenon
<1>3. TreeHeld(t) /\ LifeHeld(t)
  BY <1>1, SameTree, KeptHeld, SameLife, Zenon
<1>4. NoJob.op = "none"
  BY IdleJob, Zenon
<1>5. stored => k.op = "none"
  BY <1>4, Zenon
<1>6. StoredHeld(t, k)
  BY <1>1, <1>5, SMTT(20) DEF StoredHeld, StoredInv
<1>7. stray \/ Marker \in tree
  BY MarkerThere, SMTT(20)
<1>8. TmpHeld(t, k)
  BY <1>1, SameTree, TmpLeft, Zenon
<1>. QED
  BY <1>2, <1>3, <1>6, <1>7, <1>8, MarkerStays, Steady, Zenon

\* has_any_file finds the object and the temporary file, however deep they lie.
LEMMA DataHasObject ==
  ASSUME Object \in tree \/ Tmp \in tree
  PROVE  HasAnyFile(Data)
<1>1. Object \in Files /\ Tmp \in Files
  BY SMTT(20) DEF Files
<1>2. Data \in Upto(Object) /\ Data \in Upto(Tmp)
  BY UptoAll, SMTT(20)
<1>. QED
  BY <1>1, <1>2, SMTT(20) DEF HasAnyFile, Below

\* delete_bucket: has_any_file of data/.
LEMMA StepScanData ==
  ASSUME MultipartInv, NEW t \in Threads, ScanData(t)
  PROVE  MultipartInv'
<1>1. Busy(t) /\ job[t].pc = "scandata"
  BY SMTT(20) DEF ScanData, Busy
<1>2. /\ tree \subseteq Nodes /\ job[t].op = "deleteBucket" /\ Staged(job[t].op, "scanversions") /\ job[t].pc # "remove"
      /\ StoredInv
  BY <1>1, JobFacts, SMTT(20) DEF Staged, MultipartInv, FilesInv
<1>3. UNCHANGED <<life, stray, stored, env>> /\ tree' = tree
  BY Zenon DEF ScanData, history, uploadHistory, tree
<1>4. CASE HasAnyFile(Data)
  <2>1. job' = [job EXCEPT ![t] = NoJob]
    BY <1>4, Zenon DEF ScanData, Check, Done
  <2>2. JobInv(NoJob, tree', life', stray')
    BY IdleJob, Zenon
  <2>. QED
    BY <1>1, <1>2, <1>3, <2>1, <2>2, Scanning, Zenon
<1>5. CASE ~HasAnyFile(Data)
  <2>1. ~stored /\ Tmp \notin tree
    BY <1>2, <1>5, DataHasObject, Zenon DEF StoredInv
  <2>2. PICK k : job' = [job EXCEPT ![t] = k] /\ Onward(job[t], k) /\ k.pc = "scanversions"
    BY <1>1, <1>2, <1>5, GotoIs, SMTT(20) DEF ScanData, Check
  <2>3. JobInv(k, tree', life', stray')
    <3>1. k.pc \notin {"remove", "mark", "read"} /\ k.op = "deleteBucket"
      BY <1>2, <2>2, SMTT(20) DEF Onward
    <3>2. JobInv(job[t], tree, life, stray)
      BY <1>1, JobFacts, Zenon
    <3>3. JobInv(k, tree', life, stray)
      BY <1>3, <2>1, <2>2, <3>1, <3>2, Further, SMTT(20)
    <3>. QED
      BY <1>3, <3>3, Zenon
  <2>. QED
    BY <1>1, <1>2, <1>3, <2>1, <2>2, <2>3, Scanning, Zenon DEF Onward
<1>. QED
  BY <1>4, <1>5, Zenon

\* remove_dir_all of a bucket finds all of its tree.
LEMMA BelowRoot ==
  ASSUME tree \subseteq Nodes
  PROVE  Below(Root) = tree
<1>1. ASSUME NEW q \in Nodes PROVE Root \in Upto(q)
  <2>1. q \in Bucketwide => Root \in Upto(q)
    <3>1. CASE q \in {Root, Marker, Data, Dir, Nest, Object, Tmp}
      BY <3>1, UptoAll, SMTT(20)
    <3>2. CASE q \in {MetaDir, Meta, Versions, Version, TagDir, Tags, <<"uploads">>}
      BY <3>2, UptoAll, SMTT(20)
    <3>. QED
      BY <3>1, <3>2, Zenon DEF Bucketwide
  <2>2. ASSUME NEW v \in Uploads, q \in {Upload(v), Info(v), Parts(v)} PROVE Root \in Upto(q)
    BY <2>2, UptoUpload, SMTT(20)
  <2>3. ASSUME NEW v \in Uploads, NEW n \in PartNumbers, q \in {Part(v, n), PartMeta(v, n)} PROVE Root \in Upto(q)
    <3>1. Root \in Upto(Part(v, n)) /\ Root \in Upto(PartMeta(v, n))
      <4>1. /\ Upto(Part(v, n)) = {Root, <<"uploads">>, Upload(v), Parts(v), Part(v, n)}
            /\ Upto(PartMeta(v, n)) = {Root, <<"uploads">>, Upload(v), Parts(v), PartMeta(v, n)}
        BY UptoUpload, Zenon
      <4>. QED
        BY <4>1, SMTT(20)
    <3>. QED
      BY <2>3, <3>1, Zenon
  <2>. QED
    BY <2>1, <2>2, <2>3, NodesAre, Zenon
<1>. QED
  BY <1>1, Zenon DEF Below

\* delete_bucket: has_any_file of versions/; the removal begins.
LEMMA StepScanVersions ==
  ASSUME MultipartInv, NEW t \in Threads, ScanVersions(t)
  PROVE  MultipartInv'
<1>1. Busy(t) /\ job[t].pc = "scanversions"
  BY SMTT(20) DEF ScanVersions, Busy
<1>2. /\ tree \subseteq Nodes /\ job[t].op = "deleteBucket" /\ Staged(job[t].op, "remove") /\ job[t].pc # "remove"
      /\ StoredInv /\ DOMAIN job[t] = JobFields
  BY <1>1, JobFacts, SMTT(20) DEF Staged, MultipartInv, FilesInv
<1>3. UNCHANGED <<life, stray, stored, env>> /\ tree' = tree
  BY Zenon DEF ScanVersions, history, uploadHistory, tree
<1>4. CASE HasAnyFile(Versions)
  <2>1. job' = [job EXCEPT ![t] = NoJob]
    BY <1>4, Zenon DEF ScanVersions, Done
  <2>2. JobInv(NoJob, tree', life', stray')
    BY IdleJob, Zenon
  <2>. QED
    BY <1>1, <1>2, <1>3, <2>1, <2>2, Scanning, Zenon
<1>5. CASE ~HasAnyFile(Versions)
  <2>1. ~stored
    BY <1>1, <1>2, SMTT(20) DEF StoredInv
  <2>. DEFINE k == [job[t] EXCEPT !.pc = "remove", !.todo = Below(Root)]
  <2>2. job' = [job EXCEPT ![t] = k]
    BY <1>5, Zenon DEF ScanVersions
  <2>3. DOMAIN k = JobFields /\ k.op = job[t].op /\ k.up = job[t].up /\ k.met = job[t].met /\ k.pc = "remove"
        /\ k.todo = Below(Root)
    BY <1>2, SMTT(20) DEF JobFields
  <2>. HIDE DEF k
  <2>4. k.todo = tree
    BY <1>2, <2>3, BelowRoot, Zenon
  <2>5. JobInv(k, tree', life', stray')
    <3>1. JobOK(k)
      BY <1>2, <2>3, SMTT(20) DEF JobOK, UploadOps
    <3>2. Todo(k)
      BY <1>2, <2>3, <2>4, SMTT(20) DEF Todo
    <3>3. Aborting(k, tree') /\ Living(k, life') /\ Writer(k, tree')
      BY <1>2, <2>3, SMTT(20) DEF Aborting, Living, Writer
    <3>4. stray \/ Tmp \notin tree
      BY <1>1, <1>2, JobFacts, SMTT(20) DEF JobInv, Calmly
    <3>5. stray' \/ Calmly(k, tree')
      BY <1>2, <1>3, <2>3, <2>4, <3>4, SMTT(20) DEF Calmly
    <3>. QED
      BY <3>1, <3>2, <3>3, <3>5, Zenon DEF JobInv
  <2>6. k.pc # "idle"
    BY <2>3, SMTT(20)
  <2>. QED
    BY <1>1, <1>2, <1>3, <2>1, <2>2, <2>3, <2>5, <2>6, Scanning, Zenon
<1>. QED
  BY <1>4, <1>5, Zenon

----------------------------------------------------------------------------
(* remove_dir_all. *)

\* No path is of two uploads.
LEMMA UnderApart ==
  ASSUME NEW u, NEW v, NEW q, q \in Under(u), q \in Under(v)
  PROVE  u = v
<1>1. \A x \in Under(u) : x \in {Upload(u), Info(u), Parts(u)} \/ \E n \in PartNumbers : x \in {Part(u, n), PartMeta(u, n)}
  BY SMTT(20) DEF Under
<1>2. \A x \in Under(v) : x \in {Upload(v), Info(v), Parts(v)} \/ \E n \in PartNumbers : x \in {Part(v, n), PartMeta(v, n)}
  BY SMTT(20) DEF Under
<1>3. CASE q \in {Upload(u), Info(u), Parts(u)}
  <2>1. CASE q \in {Upload(v), Info(v), Parts(v)}
    BY <1>3, <2>1, NamesOfUploads, SMTT(20)
  <2>2. ASSUME NEW n \in PartNumbers, q \in {Part(v, n), PartMeta(v, n)} PROVE FALSE
    <3>1. Upload(u) \notin {Part(v, n), PartMeta(v, n)} /\ Info(u) \notin {Part(v, n), PartMeta(v, n)}
          /\ Parts(u) \notin {Part(v, n), PartMeta(v, n)}
      BY NamesOfUploads, SMTT(20)
    <3>. QED
      BY <1>3, <2>2, <3>1, Zenon
  <2>. QED
    BY <1>2, <2>1, <2>2, Zenon
<1>4. ASSUME NEW n \in PartNumbers, q \in {Part(u, n), PartMeta(u, n)} PROVE u = v
  <2>1. CASE q \in {Upload(v), Info(v), Parts(v)}
    BY <1>4, <2>1, NamesOfUploads, SMTT(20)
  <2>2. ASSUME NEW m \in PartNumbers, q \in {Part(v, m), PartMeta(v, m)} PROVE u = v
    BY <1>4, <2>2, NamesOfUploads, SMTT(20)
  <2>. QED
    BY <1>2, <2>1, <2>2, Zenon
<1>. QED
  BY <1>1, <1>3, <1>4, Zenon

\* No path of an upload is the bucket's own.
LEMMA UnderNotBucketwide ==
  ASSUME NEW u
  PROVE  Under(u) \cap Bucketwide = {}
<1>1. \A x \in Under(u) : x \in {Upload(u), Info(u), Parts(u)} \/ \E n \in PartNumbers : x \in {Part(u, n), PartMeta(u, n)}
  BY SMTT(20) DEF Under
<1>2. \A n : {Upload(u), Info(u), Parts(u), Part(u, n), PartMeta(u, n)} \cap Bucketwide = {}
  BY NamesOfUploads, Zenon
<1>3. \A x \in {Upload(u), Info(u), Parts(u)} : x \notin Bucketwide
  BY <1>2, Zenon
<1>. QED
  BY <1>1, <1>2, <1>3, Zenon

\* NodesAre, in the terms of the last two lemmas.
LEMMA NodesUnder ==
  ASSUME NEW q \in Nodes
  PROVE  q \in Bucketwide \/ \E v \in Uploads : q \in Under(v)
<1>1. \A v : {Upload(v), Info(v), Parts(v)} \subseteq Under(v)
  BY Zenon DEF Under
<1>2. \A v : \A n \in PartNumbers : {Part(v, n), PartMeta(v, n)} \subseteq Under(v)
  BY SMTT(20) DEF Under
<1>. QED
  <2>1. CASE \E v \in Uploads : q \in {Upload(v), Info(v), Parts(v)}
    BY <1>1, <2>1, Zenon
  <2>2. CASE \E v \in Uploads : \E n \in PartNumbers : q \in {Part(v, n), PartMeta(v, n)}
    BY <1>2, <2>2, Zenon
  <2>. QED
    BY <2>1, <2>2, NodesAre, Zenon

\* Above a path of an upload lie its directories, uploads/ and the bucket.
LEMMA UptoUnder ==
  ASSUME NEW v, NEW q \in Under(v)
  PROVE  Upto(q) \subseteq {Root, <<"uploads">>} \cup Under(v)
<1>1. {Upload(v), Info(v), Parts(v)} \subseteq Under(v)
  BY Zenon DEF Under
<1>2. \A n \in PartNumbers : {Part(v, n), PartMeta(v, n)} \subseteq Under(v)
  BY SMTT(20) DEF Under
<1>3. CASE q \in {Upload(v), Info(v), Parts(v)}
  BY <1>1, <1>3, UptoUpload, SMTT(20)
<1>4. ASSUME NEW n \in PartNumbers, q \in {Part(v, n), PartMeta(v, n)} PROVE Upto(q) \subseteq {Root, <<"uploads">>} \cup Under(v)
  <2>1. Upto(Part(v, n)) \subseteq {Root, <<"uploads">>} \cup Under(v)
    BY <1>1, <1>2, UptoUpload, SMTT(20)
  <2>2. Upto(PartMeta(v, n)) \subseteq {Root, <<"uploads">>} \cup Under(v)
    BY <1>1, <1>2, UptoUpload, SMTT(20)
  <2>. QED
    BY <1>4, <2>1, <2>2, Zenon
<1>5. q \in {Upload(v), Info(v), Parts(v)} \/ \E n \in PartNumbers : q \in {Part(v, n), PartMeta(v, n)}
  BY SMTT(20) DEF Under
<1>. QED
  BY <1>3, <1>4, <1>5, Zenon

\* What lies below an entry of an upload lies in that upload.
LEMMA BelowUnder ==
  ASSUME NEW u \in Uploads, NEW p \in Under(u), tree \subseteq Nodes
  PROVE  Below(p) \subseteq Under(u)
<1>1. p \notin Bucketwide
  BY UnderNotBucketwide, Zenon
<1>2. ASSUME NEW q \in Nodes, p \in Upto(q) PROVE q \in Under(u)
  <2>1. q \notin Bucketwide
    BY <1>1, <1>2, UptoBucketwide, Zenon
  <2>2. PICK v \in Uploads : q \in Under(v)
    BY <2>1, NodesUnder, Zenon
  <2>3. p \in Under(v)
    <3>1. p \in {Root, <<"uploads">>} \cup Under(v)
      BY <1>2, <2>2, UptoUnder, Zenon
    <3>2. {Root, <<"uploads">>} \subseteq Bucketwide
      BY Zenon DEF Bucketwide
    <3>. QED
      BY <1>1, <3>1, <3>2, Zenon
  <2>. QED
    BY <2>2, <2>3, UnderApart, Zenon
<1>. QED
  BY <1>2, SMTT(20) DEF Below

\* What is below a path, itself apart, exists and is below it.
LEMMA ChildrenIn ==
  ASSUME NEW p
  PROVE  Children(p) \subseteq Below(p) /\ Children(p) \subseteq tree
BY Zenon DEF Children, Below

\* What a remover may be at.
LEMMA RemoverIs ==
  ASSUME MultipartInv, NEW t \in Threads, job[t].pc = "remove"
  PROVE  /\ Busy(t) /\ job[t].op \in Removers /\ ~HasTmp(job[t]) /\ DOMAIN job[t] = JobFields /\ tree \subseteq Nodes
         /\ job[t].todo \subseteq Nodes
         /\ job[t].op \in {"complete", "abort"} => job[t].up \in Uploads /\ job[t].todo \subseteq Under(job[t].up)
         /\ job[t].op = "deleteBucket" => ~stored
         /\ stray \/ (job[t].op \in {"complete", "abort"} => Marker \in tree)
         /\ stray \/ (job[t].op = "deleteBucket" => tree \subseteq job[t].todo /\ Tmp \notin tree)
<1>1. Busy(t) /\ ~HasTmp(job[t])
  BY SMTT(20) DEF Busy, HasTmp
<1>2. DOMAIN job[t] = JobFields /\ tree \subseteq Nodes /\ Staged(job[t].op, job[t].pc) /\ JobInv(job[t], tree, life, stray)
      /\ (job[t].op \in UploadOps => job[t].up \in Uploads)
  BY <1>1, JobFacts, Zenon
<1>3. job[t].op \in Removers
  BY <1>2, SMTT(20) DEF Staged, Removers
<1>4. job[t].op \in {"complete", "abort"} => job[t].up \in Uploads
  BY <1>2, SMTT(20) DEF UploadOps
<1>5. job[t].todo \subseteq Nodes /\ (job[t].op \in {"complete", "abort"} => job[t].todo \subseteq Under(job[t].up))
  BY <1>2, Zenon DEF JobInv, Todo
<1>6. job[t].op = "deleteBucket" => ~stored
  BY SMTT(20) DEF MultipartInv, FilesInv, StoredInv
<1>7. stray \/ (job[t].op \in {"complete", "abort"} => Marker \in tree)
  <2>1. SUFFICES ASSUME ~stray, job[t].op \in {"complete", "abort"} PROVE Marker \in tree
    BY Zenon
  <2>2. job[t].op # "createBucket" /\ job[t].op # "deleteBucket"
    BY <2>1, SMTT(20)
  <2>. QED
    BY <1>1, <2>1, <2>2, MarkerThere, Zenon
<1>8. stray \/ (job[t].op = "deleteBucket" => tree \subseteq job[t].todo /\ Tmp \notin tree)
  BY <1>2, SMTT(20) DEF JobInv, Calmly
<1>. QED
  BY <1>1, <1>2, <1>3, <1>4, <1>5, <1>6, <1>7, <1>8, Zenon

\* A remover's step that lets the tree keep all but entries of its own.
LEMMA Removing ==
  ASSUME MultipartInv, NEW t \in Threads, job[t].pc = "remove", NEW k, StepsAlone(t, k),
         UNCHANGED <<life, stray, stored>>, tree' \subseteq tree,
         job[t].op \in {"complete", "abort"} => tree \ tree' \subseteq Under(job[t].up),
         JobInv(k, tree', life, stray),
         (k.op = "deleteBucket" /\ k.pc = "remove") \/ job[t].op \in {"complete", "abort"} \/ stray
  PROVE  MultipartInv'
<1>1. job[t].op \in Removers /\ ~HasTmp(job[t]) /\ (job[t].op = "deleteBucket" => ~stored)
      /\ (stray \/ (job[t].op \in {"complete", "abort"} => Marker \in tree))
      /\ (stray \/ (job[t].op = "deleteBucket" => Tmp \notin tree))
  BY RemoverIs, Zenon
<1>2. job[t].op = "deleteBucket" \/ job[t].op \in {"complete", "abort"}
  BY <1>1, SMTT(20) DEF Removers
<1>3. job[t].op \in {"complete", "abort"} =>
          (Marker \in tree => Marker \in tree') /\ (Object \in tree => Object \in tree') /\ (Nest \in tree => Nest \in tree')
  <2>1. Marker \notin Under(job[t].up) /\ Object \notin Under(job[t].up) /\ Nest \notin Under(job[t].up)
    <3>1. Marker \in Bucketwide /\ Object \in Bucketwide /\ Nest \in Bucketwide
      BY Zenon DEF Bucketwide
    <3>. QED
      BY <3>1, UnderNotBucketwide, Zenon
  <2>. QED
    BY <2>1, Zenon
<1>4. TreeHeld(t)
  BY <1>1, <1>2, <1>3, SMTT(20) DEF TreeHeld, Deletions
<1>5. LifeHeld(t)
  BY SameLife, Zenon
<1>6. StoredHeld(t, k)
  <2>1. SUFFICES ASSUME stored PROVE StoredHeld(t, k)
    BY Zenon DEF StoredHeld
  <2>2. StoredInv /\ NoJob.op = "none"
    BY IdleJob, Zenon DEF MultipartInv, FilesInv
  <2>3. Object \in tree' /\ Marker \in tree' /\ job[t].op \in {"complete", "abort"}
    BY <1>1, <1>2, <1>3, <2>1, <2>2, Zenon DEF StoredInv
  <2>4. k.op # "deleteBucket"
    <3>1. k.op = "none" \/ k.op = job[t].op
      BY <2>2, Zenon DEF StepsAlone
    <3>. QED
      BY <2>3, <3>1, SMTT(20)
  <2>. QED
    BY <2>1, <2>3, <2>4, Zenon DEF StoredHeld
<1>7. stray' \/ (GoneInv' /\ TmpHeld(t, k))
  <2>1. SUFFICES ASSUME ~stray PROVE GoneInv' /\ TmpHeld(t, k)
    BY Zenon
  <2>2. TmpHeld(t, k)
    BY <1>1, <1>2, <1>3, <2>1, Zenon DEF TmpHeld
  <2>3. CASE k.op = "deleteBucket" /\ k.pc = "remove"
    BY <2>2, <2>3, Zenon DEF StepsAlone, GoneInv
  <2>4. CASE job[t].op \in {"complete", "abort"}
    BY <1>1, <1>3, <2>1, <2>2, <2>4, MarkerStays, Zenon
  <2>. QED
    BY <2>1, <2>3, <2>4, Zenon
<1>8. JobInv(k, tree', life', stray')
  BY Zenon
<1>. QED
  BY <1>4, <1>5, <1>6, <1>7, <1>8, Steady, Zenon

\* A thread whose open part lost its name notices nothing of what the invariant speaks of.
LEMMA Unlinked ==
  ASSUME NEW j, DOMAIN j = JobFields, NEW y, j = NoJob \/ j.pc # "idle"
  PROVE  Alike(j, [j EXCEPT !.linked = @ /\ y])
<1>. DEFINE k == [j EXCEPT !.linked = @ /\ y]
<1>1. /\ DOMAIN k = DOMAIN j /\ k.pc = j.pc /\ k.op = j.op /\ k.up = j.up /\ k.num = j.num /\ k.list = j.list /\ k.at = j.at
      /\ k.todo = j.todo /\ k.met = j.met
  BY SMTT(20) DEF JobFields
<1>2. ASSUME j = NoJob PROVE k = NoJob
  <2>1. j.linked = FALSE
    BY <1>2, SMTT(20) DEF NoJob
  <2>2. (j.linked /\ y) = FALSE
    BY <2>1, Zenon
  <2>3. k = [j EXCEPT !.linked = FALSE]
    BY <2>2, Zenon
  <2>4. j = [x \in DOMAIN j |-> j[x]]
    <3>1. NoJob = [x \in DOMAIN NoJob |-> NoJob[x]]
      BY Zenon DEF NoJob
    <3>. QED
      BY <1>2, <3>1, Zenon
  <2>5. "linked" \in DOMAIN j
    BY SMTT(20) DEF JobFields
  <2>6. [j EXCEPT !.linked = FALSE] = j
    BY <2>1, <2>4, <2>5, Zenon
  <2>. QED
    BY <1>2, <2>3, <2>6, Zenon
<1>. HIDE DEF k
<1>3. Alike(j, k)
  BY <1>1, <1>2, Zenon DEF Alike
<1>. QED
  BY <1>3, Zenon DEF k

\* remove_dir_all unlinks an entry that has none below it.
LEMMA StepUnlink ==
  ASSUME MultipartInv, NEW t \in Threads, job[t].pc = "remove", NEW p \in job[t].todo, Children(p) = {}, Unlink(t, p),
         UNCHANGED <<env, life, stray, stored>>
  PROVE  MultipartInv'
<1>1. /\ Busy(t) /\ DOMAIN job[t] = JobFields /\ tree \subseteq Nodes
      /\ job[t].todo \subseteq Nodes /\ job[t].op \in Removers
      /\ job[t].op \in {"complete", "abort"} => job[t].up \in Uploads /\ job[t].todo \subseteq Under(job[t].up)
      /\ stray \/ (job[t].op = "deleteBucket" => tree \subseteq job[t].todo /\ Tmp \notin tree)
      /\ DOMAIN job = Threads /\ \A q \in Threads : JobInv(job[q], tree, life, stray)
  BY RemoverIs, Zenon DEF MultipartInv, JobsInv
<1>2. tree' = tree \ {p}
  BY Erased, Zenon DEF Unlink
<1>. DEFINE k == [job[t] EXCEPT !.todo = @ \ {p}]
<1>3. DOMAIN job' = Threads /\ job'[t] = k
  BY Zenon DEF Unlink
<1>4. \A q \in Threads \ {t} : Alike(job[q], job'[q])
  <2>1. ASSUME NEW q \in Threads \ {t} PROVE Alike(job[q], job'[q])
    <3>1. DOMAIN job[q] = JobFields /\ (job[q] = NoJob \/ job[q].pc # "idle")
      BY <1>1, Zenon DEF JobInv, JobOK
    <3>2. job'[q] = [job[q] EXCEPT !.linked = @ /\ p # Part(job[q].up, job[q].num)]
      BY Zenon DEF Unlink
    <3>3. \A y : Alike(job[q], [job[q] EXCEPT !.linked = @ /\ y])
      BY <3>1, Unlinked, Zenon
    <3>. QED
      BY <3>2, <3>3, Zenon
  <2>. QED
    BY <2>1, Zenon
<1>5. DOMAIN k = JobFields /\ k.op = job[t].op /\ k.up = job[t].up /\ k.met = job[t].met /\ k.pc = "remove" /\ k.todo = job[t].todo \ {p}
  BY <1>1, SMTT(20) DEF JobFields
<1>. HIDE DEF k
<1>6. StepsAlone(t, k)
  <2>1. k.pc # "idle"
    BY <1>5, SMTT(20)
  <2>. QED
    BY <1>1, <1>2, <1>3, <1>4, <1>5, <2>1, Zenon DEF StepsAlone
<1>7. job[t].op \in {"complete", "abort"} => tree \ tree' \subseteq Under(job[t].up)
  BY <1>1, <1>2, SMTT(20)
<1>8. JobInv(k, tree', life, stray)
  <2>1. JobInv(job[t], tree, life, stray)
    BY <1>1, Zenon
  <2>2. JobOK(k)
    BY <1>1, <1>5, <2>1, SMTT(20) DEF JobInv, JobOK, Staged
  <2>3. Todo(k)
    BY <1>1, <1>5, SMTT(20) DEF Todo
  <2>4. Aborting(k, tree')
    BY <1>2, <1>5, <2>1, SMTT(20) DEF JobInv, Aborting
  <2>5. Living(k, life)
    BY <1>5, <2>1, Zenon DEF JobInv, Living
  <2>6. Writer(k, tree')
    <3>1. p \in Under(job[t].up) => p # Marker /\ p # Object
      <4>1. Marker \in Bucketwide /\ Object \in Bucketwide
        BY Zenon DEF Bucketwide
      <4>. QED
        BY <4>1, UnderNotBucketwide, Zenon
    <3>2. Writer(job[t], tree)
      BY <2>1, Zenon DEF JobInv
    <3>3. CASE job[t].op = "complete"
      <4>1. p # Marker /\ p # Object
        BY <1>1, <3>1, <3>3, SMTT(20)
      <4>. QED
        BY <1>2, <1>5, <3>2, <3>3, <4>1, SMTT(20) DEF Writer, Renamed
    <3>4. CASE job[t].op # "complete"
      BY <1>1, <1>5, <3>4, SMTT(20) DEF Writer, Removers
    <3>. QED
      BY <3>3, <3>4, Zenon
  <2>7. stray \/ Calmly(k, tree')
    BY <1>1, <1>2, <1>5, SMTT(20) DEF Calmly
  <2>. QED
    BY <2>2, <2>3, <2>4, <2>5, <2>6, <2>7, Zenon DEF JobInv
<1>9. tree' \subseteq tree
  BY <1>2, Zenon
<1>10. (k.op = "deleteBucket" /\ k.pc = "remove") \/ job[t].op \in {"complete", "abort"} \/ stray
  BY <1>1, <1>5, SMTT(20) DEF Removers
<1>. QED
  BY <1>6, <1>7, <1>8, <1>9, <1>10, Removing, Zenon

\* remove_dir_all, one entry of it: unlinked, or found to hold new entries, or given up for them.
LEMMA StepRemove ==
  ASSUME MultipartInv, NEW t \in Threads, Remove(t)
  PROVE  MultipartInv'
<1>1. job[t].pc = "remove" /\ UNCHANGED <<env, life, stray, stored>>
  BY Zenon DEF Remove, history, uploadHistory
<1>2. /\ Busy(t) /\ DOMAIN job[t] = JobFields /\ tree \subseteq Nodes
      /\ job[t].todo \subseteq Nodes /\ job[t].op \in Removers
      /\ job[t].op \in {"complete", "abort"} => job[t].up \in Uploads /\ job[t].todo \subseteq Under(job[t].up)
      /\ stray \/ (job[t].op = "deleteBucket" => tree \subseteq job[t].todo)
      /\ JobInv(job[t], tree, life, stray)
  BY <1>1, RemoverIs, Zenon DEF MultipartInv, JobsInv
<1>3. PICK p \in job[t].todo :
        /\ Children(p) \cap job[t].todo = {}
        /\ \/ Children(p) = {} /\ Unlink(t, p)
           \/ Children(p) # {} /\ job' = [job EXCEPT ![t].todo = @ \cup Children(p)] /\ fs' = fs
           \/ Children(p) # {} /\ job[t].op = "complete" /\ job' = [job EXCEPT ![t].todo = {}] /\ fs' = fs
           \/ Children(p) # {} /\ job[t].op # "complete" /\ Done(t) /\ fs' = fs
  BY Zenon DEF Remove
<1>4. CASE Children(p) = {} /\ Unlink(t, p)
  BY <1>1, <1>4, StepUnlink, Zenon
\* More is found, or the walk is given up: the tree stays.
<1>5. CASE Children(p) # {} /\ fs' = fs
  <2>1. tree' = tree
    BY <1>5, Zenon DEF tree
  <2>2. tree' \subseteq tree /\ (job[t].op \in {"complete", "abort"} => tree \ tree' \subseteq Under(job[t].up))
    BY <2>1, Zenon
  <2>3. stray \/ job[t].op \in {"complete", "abort"}
    <3>1. Children(p) \subseteq tree
      BY ChildrenIn, Zenon
    <3>2. stray \/ job[t].op # "deleteBucket"
      BY <1>2, <1>3, <1>5, <3>1, Zenon
    <3>. QED
      BY <1>2, <3>2, SMTT(20) DEF Removers
  <2>4. ASSUME NEW new, new \subseteq Nodes, job[t].op \in {"complete", "abort"} => new \subseteq Under(job[t].up),
               job[t].op = "abort" => job[t].todo \subseteq new, stray \/ job[t].op \in {"complete", "abort"},
               job' = [job EXCEPT ![t].todo = new]
        PROVE  MultipartInv'
    <3>. DEFINE k == [job[t] EXCEPT !.todo = new]
    <3>1. job' = [job EXCEPT ![t] = k]
      BY <2>4, Zenon
    <3>2. DOMAIN k = JobFields /\ k.op = job[t].op /\ k.up = job[t].up /\ k.met = job[t].met /\ k.pc = "remove" /\ k.todo = new
      BY <1>1, <1>2, SMTT(20) DEF JobFields
    <3>. HIDE DEF k
    <3>3. k.pc # "idle"
      BY <3>2, SMTT(20)
    <3>4. StepsAlone(t, k)
      BY <1>1, <1>2, <2>1, <3>1, <3>2, <3>3, Others, Zenon
    <3>5. JobInv(k, tree', life, stray)
      <4>1. JobOK(k)
        BY <1>1, <1>2, <3>2, SMTT(20) DEF JobInv, JobOK, Staged
      <4>2. Todo(k)
        BY <2>4, <3>2, Zenon DEF Todo
      <4>3. Aborting(k, tree') /\ Living(k, life)
        BY <1>2, <2>1, <2>4, <3>2, SMTT(20) DEF JobInv, Aborting, Living
      <4>4. Writer(k, tree')
        BY <1>1, <1>2, <2>1, <3>2, SMTT(20) DEF JobInv, Writer, Renamed
      <4>5. stray \/ Calmly(k, tree')
        BY <2>4, <3>2, SMTT(20) DEF Calmly
      <4>. QED
        BY <4>1, <4>2, <4>3, <4>4, <4>5, Zenon DEF JobInv
    <3>. QED
      BY <1>1, <2>2, <2>3, <3>4, <3>5, Removing, Zenon
  <2>5. CASE job' = [job EXCEPT ![t].todo = @ \cup Children(p)]
    <3>. DEFINE new == job[t].todo \cup Children(p)
    <3>1. job' = [job EXCEPT ![t].todo = new]
      BY <2>5, Zenon
    <3>2. new \subseteq Nodes
      BY <1>2, ChildrenIn, Zenon
    <3>3. job[t].op \in {"complete", "abort"} => new \subseteq Under(job[t].up)
      BY <1>2, ChildrenIn, BelowUnder, Zenon
    <3>4. job[t].todo \subseteq new
      BY Zenon
    <3>. HIDE DEF new
    <3>. QED
      BY <2>3, <2>4, <3>1, <3>2, <3>3, <3>4, Zenon
  <2>6. CASE job[t].op = "complete" /\ job' = [job EXCEPT ![t].todo = {}]
    <3>. DEFINE new == {}
    <3>1. new \subseteq Nodes /\ new \subseteq Under(job[t].up) /\ job[t].op # "abort"
      BY <2>6, SMTT(20)
    <3>2. job' = [job EXCEPT ![t].todo = new]
      BY <2>6, Zenon
    <3>. HIDE DEF new
    <3>. QED
      BY <2>3, <2>4, <3>1, <3>2, Zenon
  <2>7. CASE Done(t)
    <3>1. job' = [job EXCEPT ![t] = NoJob]
      BY <2>7, Zenon DEF Done
    <3>2. StepsAlone(t, NoJob)
      BY <1>1, <1>2, <2>1, <3>1, Others, Zenon
    <3>3. JobInv(NoJob, tree', life, stray)
      BY IdleJob, Zenon
    <3>. QED
      BY <1>1, <2>2, <2>3, <3>2, <3>3, Removing, Zenon
  <2>. QED
    BY <1>3, <1>5, <2>5, <2>6, <2>7, Zenon
<1>. QED
  BY <1>3, <1>4, <1>5, Zenon

\* remove_dir_all has come to its end: the request is answered. An abort is acknowledged here.
LEMMA StepRemoved ==
  ASSUME MultipartInv, NEW t \in Threads, Removed(t)
  PROVE  MultipartInv'
<1>1. /\ job[t].pc = "remove" /\ job[t].todo = {} /\ UNCHANGED <<env, stray>> /\ tree' = tree
      /\ life' = IF job[t].op = "abort" THEN [life EXCEPT ![job[t].up] = "aborted"] ELSE life
      /\ stored' = (stored \/ (job[t].op = "complete" /\ ~job[t].met))
      /\ job' = [job EXCEPT ![t] = NoJob]
  BY Zenon DEF Removed, Done, tree
<1>2. /\ Busy(t) /\ tree \subseteq Nodes /\ job[t].op \in Removers /\ ~HasTmp(job[t])
      /\ job[t].op \in {"complete", "abort"} => job[t].up \in Uploads
      /\ stray \/ (job[t].op \in {"complete", "abort"} => Marker \in tree)
      /\ stray \/ (job[t].op = "deleteBucket" => tree \subseteq job[t].todo)
      /\ JobInv(job[t], tree, life, stray) /\ DOMAIN life = Uploads /\ StoredInv
      /\ job[t].op = "deleteBucket" => ~stored
  BY <1>1, RemoverIs, Zenon DEF MultipartInv, JobsInv, FilesInv
<1>3. JobInv(NoJob, tree', life', stray') /\ NoJob.op = "none" /\ NoJob.pc = "idle"
  BY IdleJob, Zenon
<1>4. StepsAlone(t, NoJob)
  BY <1>1, <1>2, Others, Zenon
<1>5. TreeHeld(t)
  <2>1. TreeKept
    BY <1>1, <1>2, SameTree, Zenon
  <2>. QED
    BY <2>1, KeptHeld, Zenon
<1>6. LifeHeld(t)
  <2>1. CASE job[t].op = "abort"
    <3>1. Upload(job[t].up) \notin tree /\ job[t].up \in Uploads
      BY <1>1, <1>2, <2>1, SMTT(20) DEF JobInv, Aborting
    <3>2. life' = [life EXCEPT ![job[t].up] = "aborted"]
      BY <1>1, <2>1, Zenon
    <3>3. DOMAIN life' = Uploads /\ life'[job[t].up] = "aborted" /\ \A u \in Uploads \ {job[t].up} : life'[u] = life[u]
      BY <1>2, <3>1, <3>2, Zenon
    <3>. QED
      BY <1>1, <2>1, <3>1, <3>3, SMTT(20) DEF LifeHeld
  <2>2. CASE job[t].op # "abort"
    BY <1>1, <2>2, SameLife, Zenon
  <2>. QED
    BY <2>1, <2>2, Zenon
<1>7. StoredHeld(t, NoJob)
  <2>1. CASE stored
    BY <1>1, <1>2, <1>3, <2>1, SMTT(20) DEF StoredHeld, StoredInv
  <2>2. CASE job[t].op = "complete" /\ ~job[t].met
    <3>1. Object \in tree /\ Marker \in tree
      BY <1>1, <1>2, <2>2, SMTT(20) DEF JobInv, Writer, Renamed
    <3>. QED
      BY <1>1, <2>2, <3>1, SMTT(20) DEF StoredHeld
  <2>. QED
    BY <1>1, <2>1, <2>2, Zenon DEF StoredHeld
<1>8. stray' \/ (GoneInv' /\ TmpHeld(t, NoJob))
  <2>1. SUFFICES ASSUME ~stray PROVE GoneInv' /\ TmpHeld(t, NoJob)
    BY <1>1, Zenon
  <2>2. TmpHeld(t, NoJob)
    BY <1>1, <1>2, Zenon DEF TmpHeld
  <2>3. CASE job[t].op \in {"complete", "abort"}
    BY <1>1, <1>2, <2>1, <2>2, <2>3, MarkerStays, Zenon
  <2>4. CASE job[t].op = "deleteBucket"
    <3>1. tree' = {}
      BY <1>1, <1>2, <2>1, <2>4, SMTT(20)
    <3>2. Alone
      BY <2>1, Zenon DEF MultipartInv, FilesInv, StrayInv
    <3>3. \A q \in Threads \ {t} : job[q].pc = "idle"
      BY <1>2, <3>2, Zenon DEF Alone, Busy
    <3>4. \A q \in Threads : job'[q].pc = "idle"
      BY <1>1, <1>3, <3>3, OnlyOne, Zenon
    <3>. QED
      BY <2>2, <3>1, <3>4, Zenon DEF GoneInv, Busy
  <2>5. job[t].op \in {"complete", "abort"} \/ job[t].op = "deleteBucket"
    BY <1>2, SMTT(20) DEF Removers
  <2>. QED
    BY <2>3, <2>4, <2>5, Zenon
<1>. QED
  BY <1>3, <1>4, <1>5, <1>6, <1>7, <1>8, Steady, Zenon

\* delete_object: the object's file.
LEMMA StepUnlinkObject ==
  ASSUME MultipartInv, NEW t \in Threads, UnlinkObject(t)
  PROVE  MultipartInv'
<1>1. Busy(t) /\ job[t].pc = "unlink"
  BY SMTT(20) DEF UnlinkObject, Busy
<1>2. /\ tree \subseteq Nodes /\ job[t].op = "delete" /\ Staged(job[t].op, "prune") /\ ~HasTmp(job[t])
      /\ JobInv(job[t], tree, life, stray)
  BY <1>1, JobFacts, SMTT(20) DEF Staged, HasTmp
<1>3. UNCHANGED <<life, stray, stored, env>>
  BY Zenon DEF UnlinkObject, history, uploadHistory
<1>4. tree' = tree \ {Object}
  BY Erased, Zenon DEF UnlinkObject
<1>5. PICK k : job' = [job EXCEPT ![t] = k] /\ Onward(job[t], k) /\ k.pc = "prune"
  BY <1>1, <1>2, GotoIs, SMTT(20) DEF UnlinkObject
<1>6. k.op = "delete" /\ k.pc # "idle" /\ k.op = job[t].op /\ k.up = job[t].up /\ k.met = job[t].met
  BY <1>2, <1>5, Zenon DEF Onward
<1>7. JobInv(k, tree', life', stray')
  <2>1. k.pc \notin {"remove", "mark", "read"} /\ k.op \notin {"put", "complete"}
    BY <1>5, <1>6, SMTT(20)
  <2>2. JobInv(k, tree', life, stray)
    BY <1>2, <1>5, <2>1, Further, Zenon
  <2>. QED
    BY <1>3, <2>2, Zenon
<1>8. StepsAlone(t, k)
  <2>1. tree' \subseteq Nodes
    BY <1>2, <1>4, Zenon
  <2>. QED
    BY <1>1, <1>3, <1>5, <1>6, <2>1, Others, Zenon
<1>9. Object \notin {Root, Marker, Nest} /\ \A u, n : Part(u, n) # Object
  BY PlainNodes, NamesOfBucket, SMTT(20) DEF Plainly
<1>10. TreeHeld(t) /\ LifeHeld(t)
  <2>1. TreeHeld(t)
    BY <1>2, <1>4, <1>9, SMTT(20) DEF TreeHeld, Deletions
  <2>. QED
    BY <1>3, <2>1, SameLife, Zenon
<1>11. StoredHeld(t, k)
  <2>1. ~stored
    BY <1>2, Zenon DEF MultipartInv, FilesInv, StoredInv
  <2>. QED
    BY <1>3, <2>1, Zenon DEF StoredHeld
<1>12. stray' \/ (GoneInv' /\ TmpHeld(t, k))
  <2>1. stray \/ Marker \in tree
    BY <1>1, <1>2, MarkerThere, SMTT(20)
  <2>2. Marker \in tree => Marker \in tree'
    BY <1>4, <1>9, SMTT(20)
  <2>3. TmpHeld(t, k)
    BY <1>2, <1>4, <1>9, SMTT(20) DEF TmpHeld
  <2>. QED
    BY <1>3, <2>1, <2>2, <2>3, MarkerStays, Zenon
<1>. QED
  BY <1>7, <1>8, <1>10, <1>11, <1>12, Steady, Zenon

----------------------------------------------------------------------------
(* create_multipart, and handlers that stop. *)

\* A step of create_multipart, which makes the directory of an upload nobody knows.
LEMMA Creating ==
  ASSUME MultipartInv, NEW t \in Threads, Busy(t), job[t].op = "createUpload", NEW k, StepsAlone(t, k),
         UNCHANGED <<env, stray, stored>>, TreeHeld(t), LifeHeld(t), JobInv(k, tree', life', stray'),
         {Object, Nest} \cap tree \subseteq tree', Tmp \in tree' => Tmp \in tree
  PROVE  MultipartInv'
<1>1. ~HasTmp(job[t]) /\ StoredInv /\ NoJob.op = "none"
  <2>1. Staged(job[t].op, job[t].pc)
    BY JobFacts, Zenon
  <2>2. ~HasTmp(job[t])
    BY <2>1, SMTT(20) DEF Staged, HasTmp
  <2>. QED
    BY <2>2, IdleJob, Zenon DEF MultipartInv, FilesInv
<1>2. Marker \in tree => Marker \in tree'
  BY SMTT(20) DEF TreeHeld
<1>3. k.op # "deleteBucket"
  <2>1. k.op = "none" \/ k.op = job[t].op
    BY <1>1, Zenon DEF StepsAlone
  <2>. QED
    BY <2>1, SMTT(20)
<1>4. StoredHeld(t, k)
  BY <1>1, <1>2, <1>3, Zenon DEF StoredHeld, StoredInv
<1>5. stray \/ Marker \in tree
  BY MarkerThere, SMTT(20)
<1>6. TmpHeld(t, k)
  BY <1>1, Zenon DEF TmpHeld
<1>. QED
  BY <1>2, <1>4, <1>5, <1>6, MarkerStays, Steady, Zenon

\* create_multipart: the directories of an upload no client knows yet.
LEMMA StepMakeUpload ==
  ASSUME MultipartInv, NEW t \in Threads, MakeUpload(t)
  PROVE  MultipartInv'
<1>1. Busy(t) /\ job[t].pc = "mkupload"
  BY SMTT(20) DEF MakeUpload, Busy
<1>2. /\ tree \subseteq Nodes /\ job[t].op = "createUpload" /\ Staged(job[t].op, "info") /\ job[t].up \in Uploads
      /\ JobInv(job[t], tree, life, stray)
  BY <1>1, JobFacts, SMTT(20) DEF Staged, UploadOps
<1>3. UNCHANGED <<life, stray, stored, env>>
  BY Zenon DEF MakeUpload, history, uploadHistory
<1>. DEFINE u == job[t].up  ps == {Root, <<"uploads">>, Upload(u), Parts(u)}
<1>4. tree' = tree \cup ps
  <2>1. tree' = tree \cup Upto(Parts(u))
    BY Made, Zenon DEF MakeUpload
  <2>2. Upto(Parts(u)) = ps
    BY UptoUpload, Zenon
  <2>. QED
    BY <2>1, <2>2, Zenon
<1>5. ps \subseteq Nodes /\ Tmp \notin ps /\ \A v : Upload(v) \in ps => v = u
  <2>1. {Root, <<"uploads">>} \subseteq Nodes
    BY PlainNodes, SMTT(20) DEF Plainly
  <2>2. ps \subseteq Nodes
    BY <1>2, <2>1, PlainNodes, Zenon
  <2>3. Tmp \notin {Root, <<"uploads">>}
    BY NamesOfBucket, SMTT(20)
  <2>4. Tmp # Upload(u) /\ Tmp # Parts(u)
    <3>1. Tmp \in Bucketwide
      BY Zenon DEF Bucketwide
    <3>. QED
      BY <3>1, NamesOfUploads, Zenon
  <2>5. \A v : Upload(v) \notin {Root, <<"uploads">>, Parts(u)}
    <3>1. {Root, <<"uploads">>} \subseteq Bucketwide
      BY Zenon DEF Bucketwide
    <3>2. \A v : Upload(v) \notin Bucketwide /\ Upload(v) # Parts(u)
      BY NamesOfUploads, Zenon
    <3>. QED
      BY <3>1, <3>2, Zenon
  <2>6. \A v : Upload(v) = Upload(u) => v = u
    BY NamesOfUploads, Zenon
  <2>. QED
    BY <2>2, <2>3, <2>4, <2>5, <2>6, Zenon
<1>. HIDE DEF u, ps
<1>6. life[u] = "none"
  BY <1>2, Zenon DEF JobInv, Living, u
<1>7. PICK k : job' = [job EXCEPT ![t] = k] /\ Onward(job[t], k) /\ k.pc = "info"
  BY <1>1, <1>2, GotoIs, SMTT(20) DEF MakeUpload
<1>8. k.op = job[t].op /\ k.pc # "idle" /\ k.up = job[t].up /\ k.met = job[t].met
  BY <1>7, Zenon DEF Onward
<1>9. JobInv(k, tree', life', stray')
  <2>1. k.pc \notin {"remove", "mark", "read"} /\ k.op \notin {"put", "complete"}
    BY <1>2, <1>7, <1>8, SMTT(20)
  <2>2. JobInv(k, tree', life, stray)
    BY <1>2, <1>7, <2>1, Further, Zenon
  <2>. QED
    BY <1>3, <2>2, Zenon
<1>10. StepsAlone(t, k)
  <2>1. tree' \subseteq Nodes
    BY <1>2, <1>4, <1>5, Zenon
  <2>. QED
    BY <1>1, <1>3, <1>7, <1>8, <2>1, Others, Zenon
<1>11. TreeHeld(t) /\ LifeHeld(t)
  <2>1. TreeHeld(t)
    BY <1>4, <1>5, <1>6, SMTT(20) DEF TreeHeld
  <2>. QED
    BY <1>3, <2>1, SameLife, Zenon
<1>12. {Object, Nest} \cap tree \subseteq tree' /\ (Tmp \in tree' => Tmp \in tree)
  BY <1>4, <1>5, Zenon
<1>. QED
  BY <1>1, <1>2, <1>3, <1>9, <1>10, <1>11, <1>12, Creating, Zenon

\* create_multipart: .info, and the answer that makes the upload known.
LEMMA StepWriteInfo ==
  ASSUME MultipartInv, NEW t \in Threads, WriteInfo(t)
  PROVE  MultipartInv'
<1>1. Busy(t) /\ job[t].pc = "info"
  BY SMTT(20) DEF WriteInfo, Busy
<1>2. /\ tree \subseteq Nodes /\ job[t].op = "createUpload" /\ job[t].up \in Uploads
      /\ JobInv(job[t], tree, life, stray) /\ DOMAIN life = Uploads
  BY <1>1, JobFacts, SMTT(20) DEF Staged, UploadOps, MultipartInv, FilesInv
<1>3. UNCHANGED <<stray, stored, env>> /\ job' = [job EXCEPT ![t] = NoJob]
  BY Zenon DEF WriteInfo, Done
<1>4. CASE Upload(job[t].up) \in tree
  <2>. DEFINE u == job[t].up
  <2>1. tree' = tree \cup {Info(u)} /\ life' = [life EXCEPT ![u] = "known"]
    BY <1>4, Made, Zenon DEF WriteInfo
  <2>2. Info(u) \in Nodes /\ Info(u) # Tmp /\ \A v : Info(u) # Upload(v)
    <3>1. Tmp \in Bucketwide
      BY Zenon DEF Bucketwide
    <3>2. Info(u) \in Nodes
      BY <1>2, PlainNodes, Zenon
    <3>3. \A v : Upload(v) # Info(u)
      BY NamesOfUploads, SMTT(20)
    <3>. QED
      BY <3>1, <3>2, <3>3, NamesOfUploads, Zenon
  <2>. HIDE DEF u
  <2>3. TreeHeld(t)
    BY <2>1, <2>2, SMTT(20) DEF TreeHeld
  <2>4. LifeHeld(t)
    <3>1. DOMAIN life' = Uploads /\ life'[u] = "known" /\ \A v \in Uploads \ {u} : life'[v] = life[v]
      BY <1>2, <2>1, Zenon DEF u
    <3>. QED
      BY <1>2, <3>1, SMTT(20) DEF LifeHeld, u
  <2>5. StepsAlone(t, NoJob)
    <3>1. tree' \subseteq Nodes
      BY <1>2, <2>1, <2>2, Zenon
    <3>. QED
      BY <1>1, <1>3, <3>1, Others, Zenon
  <2>6. JobInv(NoJob, tree', life', stray')
    BY IdleJob, Zenon
  <2>7. {Object, Nest} \cap tree \subseteq tree' /\ (Tmp \in tree' => Tmp \in tree)
    BY <2>1, <2>2, Zenon
  <2>. QED
    BY <1>1, <1>2, <1>3, <2>3, <2>4, <2>5, <2>6, <2>7, Creating, Zenon
<1>5. CASE Upload(job[t].up) \notin tree
  <2>1. tree' = tree /\ life' = life
    BY <1>5, Zenon DEF WriteInfo, tree
  <2>2. TreeHeld(t) /\ LifeHeld(t)
    BY <1>2, <2>1, SameTree, KeptHeld, SameLife, Zenon
  <2>3. StepsAlone(t, NoJob)
    BY <1>1, <1>2, <1>3, <2>1, Others, Zenon
  <2>4. JobInv(NoJob, tree', life', stray')
    BY IdleJob, Zenon
  <2>. QED
    BY <1>1, <1>2, <1>3, <2>1, <2>2, <2>3, <2>4, Creating, Zenon
<1>. QED
  BY <1>4, <1>5, Zenon

\* A handler stops anywhere; what it has done stays.
LEMMA StepAbandon ==
  ASSUME MultipartInv, NEW t \in Threads, Abandon(t)
  PROVE  MultipartInv'
<1>1. /\ Busy(t) /\ stray' /\ UNCHANGED <<env, stored, life>> /\ tree' = tree /\ job' = [job EXCEPT ![t] = NoJob]
      /\ tree \subseteq Nodes /\ StoredInv
  BY Zenon DEF Abandon, Done, tree, uploadHistory, MultipartInv, FilesInv
<1>2. JobInv(NoJob, tree', life', stray') /\ NoJob.op = "none"
  BY IdleJob, Zenon
<1>3. TreeHeld(t) /\ LifeHeld(t)
  BY <1>1, SameTree, KeptHeld, SameLife, Zenon
<1>4. StepsAlone(t, NoJob)
  BY <1>1, Others, Zenon
<1>5. StoredHeld(t, NoJob)
  BY <1>1, <1>2, SMTT(20) DEF StoredHeld, StoredInv
<1>. QED
  BY <1>1, <1>2, <1>3, <1>4, <1>5, Steady, Zenon

----------------------------------------------------------------------------
(* Requests arrive. *)

\* A request whose first checks pass.
Arrives(t, r, next) ==
    LET others == {q \in Threads : Busy(q)} IN
    /\ ~Busy(t)
    /\ job' = [q \in Threads |->
          IF q = t THEN [r EXCEPT !.pc = next, !.met = Active(Deletions) # {}]
          ELSE IF Busy(q) THEN [job[q] EXCEPT !.met = @ \/ r.op \in Deletions]
          ELSE job[q]]
    /\ stray' = (stray \/ (others # {} /\ (r.op \in Removers \/ Active(Removers) # {})))

\* What it asks for, and where it starts.
Startable(r, next) ==
    /\ DOMAIN r = JobFields /\ Staged(r.op, next)
    /\ next \notin {"idle", "mark", "read", "finish", "readmeta", "rewrite"}
    /\ r.op = "deleteBucket" => next = "scandata"
    /\ r.op \in UploadOps => r.up \in Uploads
    /\ r.op = "part" => r.num \in PartNumbers
    /\ Living(r, life)
    /\ r.op = "createUpload" => \A q \in Threads : job[q].op = "createUpload" => job[q].up # r.up
    /\ next = "remove" => r.op = "abort" /\ tree' = tree /\ r.todo = Below(Upload(r.up))
    /\ \/ Marker \in tree
       \/ r.op = "createBucket" /\ tree' = tree
       \/ Upload(r.up) \in tree /\ r.op \in {"part", "complete", "abort"} /\ (r.op = "complete" => next = "writer")

\* A request arrives and its first checks pass: the invariant holds with one more handler at work.
LEMMA Arrived ==
  ASSUME MultipartInv, NEW t \in Threads, NEW r, NEW next, Arrives(t, r, next), Startable(r, next),
         UNCHANGED <<life, env>>, TreeKept, Tmp \in tree' => Tmp \in tree,
         stored' => stored /\ r.op # "delete"
  PROVE  MultipartInv'
<1>1. JobsInv /\ FilesInv /\ DOMAIN job = Threads /\ \A q \in Threads : JobInv(job[q], tree, life, stray)
  BY Zenon DEF MultipartInv, JobsInv
<1>2. \A q \in Threads : /\ DOMAIN job[q] = JobFields
                         /\ job[q].pc = "idle" => job[q] = NoJob
                         /\ job[q].pc # "idle" => Staged(job[q].op, job[q].pc)
  BY <1>1, Zenon DEF JobInv, JobOK
<1>3. \A q \in Threads : job[q].op # "none" => Busy(q)
  <2>1. NoJob.op = "none"
    BY IdleJob, Zenon
  <2>. QED
    BY <1>2, <2>1, SMTT(20) DEF Busy
<1>. DEFINE k == [r EXCEPT !.pc = next, !.met = Active(Deletions) # {}]
<1>4. DOMAIN job' = Threads /\ job'[t] = k /\ ~Busy(t)
  BY Zenon DEF Arrives
<1>5. ASSUME NEW q \in Threads \ {t}
      PROVE  /\ Alike(job[q], job'[q])
             /\ Busy(q) /\ r.op \in Deletions => job'[q].met
  <2>1. CASE Busy(q)
    <3>. DEFINE j == job[q]  m == (j.met \/ r.op \in Deletions)
    <3>1. job'[q] = [j EXCEPT !.met = m]
      BY <2>1, Zenon DEF Arrives
    <3>2. DOMAIN j = JobFields /\ j # NoJob
      <4>1. NoJob.pc = "idle"
        BY IdleJob, Zenon
      <4>. QED
        BY <1>2, <2>1, <4>1, Zenon DEF Busy
    <3>3. (j.met => m) /\ (r.op \in Deletions => m)
      BY Zenon
    <3>. HIDE DEF j, m
    <3>4. /\ DOMAIN job'[q] = JobFields /\ job'[q].pc = j.pc /\ job'[q].op = j.op /\ job'[q].up = j.up /\ job'[q].num = j.num
          /\ job'[q].list = j.list /\ job'[q].at = j.at /\ job'[q].todo = j.todo /\ job'[q].met = m
      BY <3>1, <3>2, SMTT(20) DEF JobFields
    <3>. QED
      BY <3>2, <3>3, <3>4, Zenon DEF Alike, j
  <2>2. CASE ~Busy(q)
    <3>1. job'[q] = job[q]
      BY <2>2, Zenon DEF Arrives
    <3>. QED
      BY <2>2, <3>1, Zenon DEF Alike
  <2>. QED
    BY <2>1, <2>2, Zenon
<1>6. /\ DOMAIN k = JobFields /\ k.pc = next /\ k.op = r.op /\ k.up = r.up /\ k.num = r.num /\ k.todo = r.todo
      /\ k.met = (Active(Deletions) # {})
  BY SMTT(20) DEF Startable, JobFields
<1>. HIDE DEF k
<1>7. next # "idle" /\ tree' \subseteq Nodes /\ tree \subseteq Nodes
  BY <1>1, SMTT(20) DEF Startable, FilesInv, TreeKept
<1>8. JobInv(k, tree', life', stray')
  <2>1. JobOK(k)
    BY <1>6, <1>7, Zenon DEF JobOK, Startable
  <2>2. CASE next = "remove"
    <3>1. r.op = "abort" /\ tree' = tree /\ r.todo = Below(Upload(r.up)) /\ r.up \in Uploads
      BY <2>2, SMTT(20) DEF Startable, UploadOps
    <3>2. Below(Upload(r.up)) \subseteq Under(r.up) /\ Under(r.up) \subseteq Nodes
          /\ (Upload(r.up) \in tree => Upload(r.up) \in Below(Upload(r.up)))
      BY <1>7, <3>1, BelowUpload, UnderNodes, Zenon
    <3>3. Todo(k)
      BY <1>6, <3>1, <3>2, Zenon DEF Todo
    <3>4. Aborting(k, tree')
      BY <1>6, <3>1, <3>2, Zenon DEF Aborting
    <3>5. Writer(k, tree') /\ Calmly(k, tree')
      BY <1>6, <2>2, <3>1, SMTT(20) DEF Writer, Calmly
    <3>6. Living(k, life')
      BY <1>6, Zenon DEF Living, Startable
    <3>. QED
      BY <2>1, <3>3, <3>4, <3>5, <3>6, Zenon DEF JobInv
  <2>3. CASE next # "remove"
    <3>1. Todo(k)
      BY <1>6, <2>3, Zenon DEF Todo
    <3>2. Aborting(k, tree')
      BY <1>6, <2>3, SMTT(20) DEF Aborting, Startable, Staged
    <3>3. Living(k, life')
      BY <1>6, Zenon DEF Living, Startable
    <3>4. Writer(k, tree')
      BY <1>6, <2>3, SMTT(20) DEF Writer, Renamed, Startable, TreeKept
    <3>5. Calmly(k, tree')
      BY <1>6, <2>3, SMTT(20) DEF Calmly, Startable
    <3>. QED
      BY <2>1, <3>1, <3>2, <3>3, <3>4, <3>5, Zenon DEF JobInv
  <2>. QED
    BY <2>2, <2>3, Zenon
<1>9. stray' \/ (/\ ~stray
                 /\ r.op \in Removers => \A q \in Threads : ~Busy(q)
                 /\ \A q \in Threads : job[q].op \notin Removers)
  <2>1. SUFFICES ASSUME ~stray' PROVE /\ ~stray
                                      /\ r.op \in Removers => \A q \in Threads : ~Busy(q)
                                      /\ \A q \in Threads : job[q].op \notin Removers
    BY Zenon
  <2>2. ~stray /\ ({q \in Threads : Busy(q)} = {} \/ (r.op \notin Removers /\ Active(Removers) = {}))
    BY <2>1, Zenon DEF Arrives
  <2>3. ASSUME NEW q \in Threads, job[q].op \in Removers PROVE FALSE
    <3>1. Busy(q)
      BY <1>3, <2>3, SMTT(20) DEF Removers
    <3>2. q \in Active(Removers) /\ q \in {s \in Threads : Busy(s)}
      BY <2>3, <3>1, Zenon DEF Active
    <3>. QED
      BY <2>2, <3>2, Zenon
  <2>4. r.op \in Removers => \A q \in Threads : ~Busy(q)
    BY <2>2, Zenon
  <2>. QED
    BY <2>2, <2>3, <2>4, Zenon
<1>10. ASSUME NEW q \in Threads \ {t} PROVE JobInv(job'[q], tree', life', stray')
  <2>1. JobInv(job[q], tree, life, stray) /\ Alike(job[q], job'[q])
    BY <1>1, <1>5, Zenon
  <2>2. CASE Busy(q)
    <3>1. Living(job[q], life')
      BY <2>1, Zenon DEF JobInv
    <3>2. job[q].op = "abort" => (Upload(job[q].up) \in tree' => Upload(job[q].up) \in tree)
      <4>1. SUFFICES ASSUME job[q].op = "abort" PROVE Upload(job[q].up) \in tree' => Upload(job[q].up) \in tree
        BY Zenon
      <4>2. job[q].op \in UploadOps
        BY <4>1, SMTT(20) DEF UploadOps
      <4>. QED
        BY <2>1, <2>2, <4>2, Zenon DEF JobInv, JobOK, Busy, TreeKept
    <3>3. (Marker \in tree => Marker \in tree') /\ (Object \in tree => Object \in tree')
          /\ (Root \in tree => Root \in tree') /\ \A u, n : Part(u, n) \in tree => Part(u, n) \in tree'
      BY Zenon DEF TreeKept
    <3>4. stray' \/ job[q].op # "deleteBucket"
      BY <1>9, SMTT(20) DEF Removers
    <3>5. stray => stray'
      BY <1>9, Zenon
    <3>. QED
      BY <2>1, <3>1, <3>2, <3>3, <3>4, <3>5, Bystander, SMTT(20)
  <2>3. CASE ~Busy(q)
    <3>1. job'[q] = NoJob
      BY <1>2, <2>1, <2>3, SMTT(20) DEF Busy, Alike
    <3>. QED
      BY <3>1, IdleJob, Zenon
  <2>. QED
    BY <2>2, <2>3, Zenon
<1>11. JobsInv'
  <2>1. \A q \in Threads : JobInv(job'[q], tree', life', stray')
    BY <1>4, <1>8, <1>10, Zenon
  <2>. QED
    BY <1>4, <2>1, Zenon DEF JobsInv
<1>12. env' \in Worlds /\ DOMAIN life' = Uploads /\ AbortedGone'
  BY <1>1, Zenon DEF FilesInv, TreeKept, AbortedGone
<1>13. Unique'
  <2>1. SUFFICES ASSUME NEW q \in Threads, NEW s \in Threads, q # s,
                        job'[q].op = "createUpload", job'[s].op = "createUpload"
                 PROVE job'[q].up # job'[s].up
    BY Zenon DEF Unique
  <2>2. CASE q = t
    BY <1>4, <1>5, <1>6, <2>1, <2>2, SMTT(20) DEF Startable, Alike
  <2>3. CASE s = t
    BY <1>4, <1>5, <1>6, <2>1, <2>3, SMTT(20) DEF Startable, Alike
  <2>4. CASE q # t /\ s # t
    BY <1>1, <1>5, <2>1, <2>4, SMTT(20) DEF Alike, FilesInv, Unique
  <2>. QED
    BY <2>2, <2>3, <2>4, Zenon
<1>14. MetInv'
  <2>1. SUFFICES ASSUME NEW q \in Threads, NEW s \in Threads, q # s, job'[q].op \in Deletions, job'[s].pc # "idle"
                 PROVE job'[s].met
    BY Zenon DEF MetInv, Busy
  <2>2. CASE q = t
    <3>1. Busy(s) /\ r.op \in Deletions
      BY <1>4, <1>5, <1>6, <2>1, <2>2, Zenon DEF Alike, Busy
    <3>. QED
      BY <1>5, <2>1, <2>2, <3>1, Zenon
  <2>3. CASE s = t
    <3>1. job[q].op \in Deletions
      BY <1>5, <2>1, <2>3, Zenon DEF Alike
    <3>2. q \in Active(Deletions)
      <4>1. job[q].op # "none"
        BY <3>1, SMTT(20) DEF Deletions
      <4>. QED
        BY <1>3, <3>1, <4>1, Zenon DEF Active
    <3>. QED
      BY <1>4, <1>6, <2>3, <3>2, Zenon
  <2>4. CASE q # t /\ s # t
    <3>1. job[q].op \in Deletions /\ Busy(s) /\ (job[s].met => job'[s].met)
      BY <1>5, <2>1, <2>4, Zenon DEF Alike, Busy
    <3>. QED
      BY <1>1, <2>1, <3>1, Zenon DEF FilesInv, MetInv
  <2>. QED
    BY <2>2, <2>3, <2>4, Zenon
<1>15. StoredInv'
  <2>1. SUFFICES ASSUME stored' PROVE StoredInv'
    BY Zenon DEF StoredInv
  <2>2. stored /\ r.op # "delete" /\ StoredInv
    BY <1>1, <2>1, Zenon DEF FilesInv
  <2>3. Object \in tree' /\ Marker \in tree'
    BY <2>2, Zenon DEF StoredInv, TreeKept
  <2>4. \A q \in Threads \ {t} : job'[q].op # "delete" /\ (job'[q].op = "deleteBucket" => job'[q].pc = "scandata")
    BY <1>5, <2>2, Zenon DEF StoredInv, Alike
  <2>5. job'[t].op # "delete" /\ (job'[t].op = "deleteBucket" => job'[t].pc = "scandata")
    BY <1>4, <1>6, <2>2, Zenon DEF Startable
  <2>. QED
    BY <2>3, <2>4, <2>5, Zenon DEF StoredInv
<1>16. StrayInv'
  <2>1. SUFFICES ASSUME ~stray' PROVE Alone' /\ GoneInv' /\ TmpInv'
    BY Zenon DEF StrayInv
  <2>2. ~stray /\ (r.op \in Removers => \A q \in Threads : ~Busy(q)) /\ \A q \in Threads : job[q].op \notin Removers
    BY <1>9, <2>1, Zenon
  <2>3. Alone /\ GoneInv /\ TmpInv
    BY <1>1, <2>2, Zenon DEF FilesInv, StrayInv
  <2>4. Alone'
    <3>1. SUFFICES ASSUME NEW q \in Threads, NEW s \in Threads, q # s, job'[q].op \in Removers PROVE job'[s].pc = "idle"
      BY Zenon DEF Alone, Busy
    <3>2. q = t
      BY <1>5, <2>2, <3>1, Zenon DEF Alike
    <3>3. ~Busy(s) /\ s # t
      BY <1>4, <1>6, <2>2, <3>1, <3>2, Zenon
    <3>. QED
      BY <1>5, <3>3, Zenon DEF Alike, Busy
  <2>5. TmpInv'
    <3>1. SUFFICES ASSUME Tmp \in tree', Nest \notin tree' PROVE \E q \in Threads : HasTmp(job'[q])
      BY Zenon DEF TmpInv
    <3>2. PICK q \in Threads : HasTmp(job[q])
      BY <2>3, <3>1, Zenon DEF TmpInv, TreeKept
    <3>3. Busy(q)
      BY <3>2, SMTT(20) DEF HasTmp, Busy
    <3>4. HasTmp(job'[q])
      BY <1>4, <1>5, <3>2, <3>3, Zenon DEF HasTmp, Alike
    <3>. QED
      BY <3>4, Zenon
  <2>6. GoneInv'
    <3>1. CASE Marker \in tree
      BY <3>1, MarkerStays, Zenon DEF TreeKept
    <3>2. CASE Marker \notin tree
      <4>0. \A u : Upload(u) \notin {Root, Data, MetaDir}
        BY PlainNodes, SMTT(20) DEF Plainly
      <4>2. \A q \in Threads : job[q].op # "deleteBucket"
        BY <2>2, SMTT(20) DEF Removers
      <4>3. /\ tree \subseteq {Root, Data, MetaDir}
            /\ \A q \in Threads : Busy(q) => job[q].op = "createBucket"
            /\ (\A q \in Threads : job[q].pc # "mark") => tree = {}
        BY <2>3, <3>2, <4>2, Zenon DEF GoneInv
      <4>1. r.op = "createBucket" /\ tree' = tree
        BY <3>2, <4>0, <4>3, Zenon DEF Startable
      <4>4. \A q \in Threads : job'[q].pc # "idle" => job'[q].op = "createBucket"
        <5>1. job'[t].op = "createBucket"
          BY <1>4, <1>6, <4>1, Zenon
        <5>2. ASSUME NEW q \in Threads \ {t}, job'[q].pc # "idle" PROVE job'[q].op = "createBucket"
          BY <1>5, <4>3, <5>2, Zenon DEF Alike, Busy
        <5>. QED
          BY <5>1, <5>2, Zenon
      <4>5. (\A q \in Threads : job'[q].pc # "mark") => tree = {}
        <5>1. job[t].pc # "mark"
          BY <1>4, SMTT(20) DEF Busy
        <5>. QED
          BY <1>5, <4>3, <5>1, Zenon DEF Alike
      <4>. QED
        BY <4>1, <4>3, <4>4, <4>5, Zenon DEF GoneInv, Busy
    <3>. QED
      BY <3>1, <3>2, Zenon
  <2>. QED
    BY <2>1, <2>4, <2>5, <2>6, Zenon
<1>. QED
  BY <1>7, <1>11, <1>12, <1>13, <1>14, <1>15, <1>16, Zenon DEF MultipartInv, FilesInv

\* Only requests to come and what clients know of parts change.
LEMMA Unmoved ==
  ASSUME MultipartInv, UNCHANGED <<job, stray, life, env>>, tree' = tree, stored' => stored
  PROVE  MultipartInv'
<1>1. JobsInv'
  BY SMTT(20) DEF MultipartInv, JobsInv
<1>2. FilesInv
  BY Zenon DEF MultipartInv
<1>3. env' \in Worlds /\ DOMAIN life' = Uploads /\ tree' \subseteq Nodes
  BY <1>2, Zenon DEF FilesInv
<1>4. Unique' /\ AbortedGone'
  BY <1>2, SMTT(20) DEF FilesInv, Unique, AbortedGone
<1>5. MetInv' /\ StoredInv'
  BY <1>2, SMTT(20) DEF FilesInv, MetInv, StoredInv, Busy
<1>6. StrayInv'
  <2>1. SUFFICES ASSUME ~stray' PROVE Alone' /\ GoneInv' /\ TmpInv'
    BY Zenon DEF StrayInv
  <2>2. Alone /\ GoneInv /\ TmpInv
    BY <1>2, <2>1, Zenon DEF FilesInv, StrayInv
  <2>3. Alone'
    BY <2>2, SMTT(20) DEF Alone, Busy
  <2>4. GoneInv'
    BY <2>2, SMTT(20) DEF GoneInv, Busy
  <2>5. TmpInv'
    BY <2>2, SMTT(20) DEF TmpInv
  <2>. QED
    BY <2>3, <2>4, <2>5, Zenon
<1>. QED
  BY <1>1, <1>3, <1>4, <1>5, <1>6, Zenon DEF MultipartInv, FilesInv

\* The record of a request for the bucket or the object.
LEMMA PlainIs ==
  ASSUME NEW op
  PROVE  DOMAIN Plain(op) = JobFields /\ Plain(op).op = op /\ Plain(op).todo = {}
BY SMTT(20) DEF Plain, NoJob, JobFields

\* The record of a request for an upload.
LEMMA OnUploadIs ==
  ASSUME NEW op, NEW u
  PROVE  DOMAIN OnUpload(op, u) = JobFields /\ OnUpload(op, u).op = op /\ OnUpload(op, u).up = u
<1>1. DOMAIN Plain(op) = JobFields /\ Plain(op).op = op
  BY PlainIs, Zenon
<1>. QED
  BY <1>1, SMTT(20) DEF OnUpload, JobFields

\* Whoever asks for a bucket to be made, or finds it there, may start.
LEMMA Starts ==
  ASSUME NEW r, NEW next, DOMAIN r = JobFields, Staged(r.op, next), r.op \notin UploadOps,
         next \notin {"mark", "remove", "finish"}, r.op = "deleteBucket" => next = "scandata",
         Marker \in tree \/ (r.op = "createBucket" /\ tree' = tree)
  PROVE  Startable(r, next)
<1>1. next \notin {"idle", "read", "readmeta", "rewrite", "remove"}
  BY SMTT(20) DEF Staged, UploadOps
<1>2. r.op \notin {"createUpload", "part", "complete", "abort"}
  BY SMTT(20) DEF UploadOps
<1>3. Living(r, life)
  BY <1>2, SMTT(20) DEF Living
<1>. QED
  BY <1>1, <1>2, <1>3, SMTT(20) DEF Startable

\* A request that has only been checked has changed no file.
LEMMA TreeSame ==
  ASSUME MultipartInv, tree' = tree
  PROVE  TreeKept /\ (Tmp \in tree' => Tmp \in tree)
<1>1. tree \subseteq Nodes
  BY Zenon DEF MultipartInv, FilesInv
<1>. QED
  BY <1>1, SameTree, Zenon

\* CreateBucket arrives.
LEMMA StepCreateBucket ==
  ASSUME MultipartInv, NEW t \in Threads, CreateBucket(t)
  PROVE  MultipartInv'
<1>1. UNCHANGED <<life, env, stored>> /\ tree' = tree
  BY Zenon DEF CreateBucket, uploadHistory, tree
<1>2. CASE Marker \in tree
  <2>1. UNCHANGED <<job, stray>>
    BY <1>2, Zenon DEF CreateBucket, Begin
  <2>. QED
    BY <1>1, <2>1, Unmoved, Zenon
<1>3. CASE Marker \notin tree
  <2>. DEFINE r == Plain("createBucket")
  <2>1. Arrives(t, r, "mkbucket")
    BY <1>3, Zenon DEF CreateBucket, Begin, Arrives
  <2>2. DOMAIN r = JobFields /\ r.op = "createBucket"
    BY PlainIs, Zenon
  <2>. HIDE DEF r
  <2>3. Staged(r.op, "mkbucket") /\ r.op \notin UploadOps /\ "mkbucket" \notin {"mark", "remove", "finish"} /\ r.op # "deleteBucket"
        /\ r.op # "delete"
    BY <2>2, SMTT(20) DEF Staged, UploadOps
  <2>4. Startable(r, "mkbucket")
    BY <1>1, <2>2, <2>3, Starts, Zenon
  <2>. QED
    BY <1>1, <2>1, <2>3, <2>4, TreeSame, Arrived, Zenon
<1>. QED
  BY <1>2, <1>3, Zenon

\* DeleteBucket arrives.
LEMMA StepDeleteBucket ==
  ASSUME MultipartInv, NEW t \in Threads, DeleteBucket(t)
  PROVE  MultipartInv'
<1>1. UNCHANGED <<life, env, stored>> /\ tree' = tree
  BY Zenon DEF DeleteBucket, uploadHistory, tree
<1>2. CASE Marker \notin tree
  <2>1. UNCHANGED <<job, stray>>
    BY <1>2, Zenon DEF DeleteBucket, Begin
  <2>. QED
    BY <1>1, <2>1, Unmoved, Zenon
<1>3. CASE Marker \in tree
  <2>. DEFINE r == Plain("deleteBucket")
  <2>1. Arrives(t, r, "scandata")
    BY <1>3, Zenon DEF DeleteBucket, Begin, Arrives
  <2>2. DOMAIN r = JobFields /\ r.op = "deleteBucket"
    BY PlainIs, Zenon
  <2>. HIDE DEF r
  <2>3. Staged(r.op, "scandata") /\ r.op \notin UploadOps /\ "scandata" \notin {"mark", "remove", "finish"} /\ r.op # "delete"
    BY <2>2, SMTT(20) DEF Staged, UploadOps
  <2>4. Startable(r, "scandata")
    BY <1>3, <2>2, <2>3, Starts, Zenon
  <2>. QED
    BY <1>1, <2>1, <2>3, <2>4, TreeSame, Arrived, Zenon
<1>. QED
  BY <1>2, <1>3, Zenon

\* PutObject arrives.
LEMMA StepPut ==
  ASSUME MultipartInv, NEW t \in Threads, Put(t)
  PROVE  MultipartInv'
<1>1. UNCHANGED <<life, env, stored>> /\ tree' = tree
  BY Zenon DEF Put, uploadHistory, tree
<1>2. PICK b \in env.bodies : Begin(t, [Plain("put") EXCEPT !.sum = <<b>>], Marker \in tree, "mkparent")
  BY Zenon DEF Put
<1>3. CASE Marker \notin tree
  <2>1. UNCHANGED <<job, stray>>
    BY <1>2, <1>3, Zenon DEF Begin
  <2>. QED
    BY <1>1, <2>1, Unmoved, Zenon
<1>4. CASE Marker \in tree
  <2>. DEFINE r == [Plain("put") EXCEPT !.sum = <<b>>]
  <2>1. Arrives(t, r, "mkparent")
    BY <1>2, <1>4, Zenon DEF Begin, Arrives
  <2>2. DOMAIN r = JobFields /\ r.op = "put"
    <3>1. DOMAIN Plain("put") = JobFields /\ Plain("put").op = "put"
      BY PlainIs, Zenon
    <3>. QED
      BY <3>1, SMTT(20) DEF JobFields
  <2>. HIDE DEF r
  <2>3. Staged(r.op, "mkparent") /\ r.op \notin UploadOps /\ "mkparent" \notin {"mark", "remove", "finish"} /\ r.op # "delete"
        /\ r.op # "deleteBucket"
    BY <2>2, SMTT(20) DEF Staged, UploadOps
  <2>4. Startable(r, "mkparent")
    BY <1>4, <2>2, <2>3, Starts, Zenon
  <2>. QED
    BY <1>1, <2>1, <2>3, <2>4, TreeSame, Arrived, Zenon
<1>. QED
  BY <1>3, <1>4, Zenon

\* DeleteObject arrives; with versions its delete marker is made at once.
LEMMA StepDeleteObject ==
  ASSUME MultipartInv, NEW t \in Threads, DeleteObject(t)
  PROVE  MultipartInv'
<1>1. UNCHANGED <<life, env>> /\ ~stored'
  BY Zenon DEF DeleteObject, uploadHistory
<1>. DEFINE gone == ~env.versioned /\ Object \notin tree
<1>2. CASE ~(Marker \in tree /\ ~gone)
  <2>1. UNCHANGED <<job, stray>> /\ fs' = fs
    BY <1>2, Zenon DEF DeleteObject, Begin
  <2>2. tree' = tree
    BY <2>1, Zenon DEF tree
  <2>. QED
    BY <1>1, <2>1, <2>2, Unmoved, Zenon
<1>3. CASE Marker \in tree /\ ~gone
  <2>. DEFINE r == Plain("delete")
  <2>1. Arrives(t, r, "unlink")
    BY <1>3, Zenon DEF DeleteObject, Begin, Arrives
  <2>2. DOMAIN r = JobFields /\ r.op = "delete"
    BY PlainIs, Zenon
  <2>. HIDE DEF r
  <2>3. Staged(r.op, "unlink") /\ r.op \notin UploadOps /\ "unlink" \notin {"mark", "remove", "finish"} /\ r.op # "deleteBucket"
    BY <2>2, SMTT(20) DEF Staged, UploadOps
  <2>4. Startable(r, "unlink")
    BY <1>3, <2>2, <2>3, Starts, Zenon
  <2>5. TreeKept /\ (Tmp \in tree' => Tmp \in tree)
    <3>1. CASE fs' = fs
      <4>1. tree' = tree
        BY <3>1, Zenon DEF tree
      <4>. QED
        BY <4>1, TreeSame, Zenon
    <3>2. CASE fs' = Make(fs, Upto(Version))
      <4>1. tree' = tree \cup Upto(Version)
        BY <3>2, Made, Zenon
      <4>2. Upto(Version) \subseteq Plainly /\ Tmp \notin Upto(Version)
        BY UptoAll, NamesOfBucket, SMTT(20) DEF Plainly
      <4>3. tree \subseteq Nodes
        BY Zenon DEF MultipartInv, FilesInv
      <4>. QED
        BY <4>1, <4>2, <4>3, TreeGrows, Zenon
    <3>. QED
      BY <3>1, <3>2, Zenon DEF DeleteObject
  <2>. QED
    BY <1>1, <2>1, <2>4, <2>5, Arrived, Zenon
<1>. QED
  BY <1>2, <1>3, Zenon

\* PutObjectTagging arrives.
LEMMA StepPutTagging ==
  ASSUME MultipartInv, NEW t \in Threads, PutTagging(t)
  PROVE  MultipartInv'
<1>1. UNCHANGED <<life, env, stored>> /\ tree' = tree
  BY Zenon DEF PutTagging, uploadHistory, tree
<1>2. CASE Marker \notin tree
  <2>1. UNCHANGED <<job, stray>>
    BY <1>2, Zenon DEF PutTagging, Begin
  <2>. QED
    BY <1>1, <2>1, Unmoved, Zenon
<1>3. CASE Marker \in tree
  <2>. DEFINE r == Plain("putTagging")
  <2>1. Arrives(t, r, "mktags")
    BY <1>3, Zenon DEF PutTagging, Begin, Arrives
  <2>2. DOMAIN r = JobFields /\ r.op = "putTagging"
    BY PlainIs, Zenon
  <2>. HIDE DEF r
  <2>3. Staged(r.op, "mktags") /\ r.op \notin UploadOps /\ "mktags" \notin {"mark", "remove", "finish"} /\ r.op # "delete"
        /\ r.op # "deleteBucket"
    BY <2>2, SMTT(20) DEF Staged, UploadOps
  <2>4. Startable(r, "mktags")
    BY <1>3, <2>2, <2>3, Starts, Zenon
  <2>. QED
    BY <1>1, <2>1, <2>3, <2>4, TreeSame, Arrived, Zenon
<1>. QED
  BY <1>2, <1>3, Zenon

\* DeleteObjectTagging arrives.
LEMMA StepDeleteTagging ==
  ASSUME MultipartInv, NEW t \in Threads, DeleteTagging(t)
  PROVE  MultipartInv'
<1>1. UNCHANGED <<life, env, stored>> /\ tree' = tree
  BY Zenon DEF DeleteTagging, uploadHistory, tree
<1>2. CASE Marker \notin tree
  <2>1. UNCHANGED <<job, stray>>
    BY <1>2, Zenon DEF DeleteTagging, Begin
  <2>. QED
    BY <1>1, <2>1, Unmoved, Zenon
<1>3. CASE Marker \in tree
  <2>. DEFINE r == Plain("deleteTagging")
  <2>1. Arrives(t, r, "unlinktags")
    BY <1>3, Zenon DEF DeleteTagging, Begin, Arrives
  <2>2. DOMAIN r = JobFields /\ r.op = "deleteTagging"
    BY PlainIs, Zenon
  <2>. HIDE DEF r
  <2>3. Staged(r.op, "unlinktags") /\ r.op \notin UploadOps /\ "unlinktags" \notin {"mark", "remove", "finish"} /\ r.op # "delete"
        /\ r.op # "deleteBucket"
    BY <2>2, SMTT(20) DEF Staged, UploadOps
  <2>4. Startable(r, "unlinktags")
    BY <1>3, <2>2, <2>3, Starts, Zenon
  <2>. QED
    BY <1>1, <2>1, <2>3, <2>4, TreeSame, Arrived, Zenon
<1>. QED
  BY <1>2, <1>3, Zenon

\* A request for an upload that is known, with its directory there.
LEMMA UploadStarts ==
  ASSUME NEW r, NEW next, DOMAIN r = JobFields, r.up \in Uploads, Known(r.up), Upload(r.up) \in tree, tree' = tree,
         \/ r.op = "part" /\ next = "openpart" /\ r.num \in PartNumbers
         \/ r.op = "complete" /\ next = "writer"
         \/ r.op = "abort" /\ next = "remove" /\ r.todo = Below(Upload(r.up))
  PROVE  Startable(r, next) /\ r.op # "delete"
<1>1. Living(r, life)
  BY SMTT(20) DEF Living, Known
<1>2. Staged(r.op, next)
  BY SMTT(20) DEF Staged
<1>3. r.op # "delete"
  BY SMTT(20)
<1>. QED
  BY <1>1, <1>2, <1>3, SMTT(20) DEF Startable

\* CreateMultipartUpload arrives.
LEMMA StepCreateUpload ==
  ASSUME MultipartInv, NEW t \in Threads, CreateUpload(t)
  PROVE  MultipartInv'
<1>1. UNCHANGED <<life, env, stored>> /\ tree' = tree
  BY Zenon DEF CreateUpload, uploadHistory, tree
<1>2. PICK u \in Uploads : /\ ~Known(u)
                           /\ \A o \in Active({"createUpload"}) : job[o].up # u
                           /\ Begin(t, OnUpload("createUpload", u), Marker \in tree, "mkupload")
  BY Zenon DEF CreateUpload
<1>3. CASE Marker \notin tree
  <2>1. UNCHANGED <<job, stray>>
    BY <1>2, <1>3, Zenon DEF Begin
  <2>. QED
    BY <1>1, <2>1, Unmoved, Zenon
<1>4. CASE Marker \in tree
  <2>. DEFINE r == OnUpload("createUpload", u)
  <2>1. Arrives(t, r, "mkupload")
    BY <1>2, <1>4, Zenon DEF Begin, Arrives
  <2>2. DOMAIN r = JobFields /\ r.op = "createUpload" /\ r.up = u
    BY OnUploadIs, Zenon
  <2>. HIDE DEF r
  <2>3. \A q \in Threads : job[q].op = "createUpload" => job[q].up # u
    <3>1. SUFFICES ASSUME NEW q \in Threads, job[q].op = "createUpload" PROVE job[q].up # u
      BY Zenon
    <3>2. Busy(q)
      <4>1. NoJob.op = "none" /\ JobOK(job[q])
        BY IdleJob, Zenon DEF MultipartInv, JobsInv, JobInv
      <4>. QED
        BY <3>1, <4>1, SMTT(20) DEF JobOK, Busy
    <3>. QED
      BY <1>2, <3>1, <3>2, Zenon DEF Active
  <2>4. Living(r, life)
    BY <1>2, <2>2, SMTT(20) DEF Living, Known
  <2>5. Startable(r, "mkupload") /\ r.op # "delete"
    BY <1>4, <2>2, <2>3, <2>4, SMTT(20) DEF Startable, Staged
  <2>. QED
    BY <1>1, <2>1, <2>5, TreeSame, Arrived, Zenon
<1>. QED
  BY <1>3, <1>4, Zenon

\* UploadPart arrives.
LEMMA StepUploadPart ==
  ASSUME MultipartInv, NEW t \in Threads, UploadPart(t)
  PROVE  MultipartInv'
<1>1. UNCHANGED <<life, env, stored>> /\ tree' = tree
  BY Zenon DEF UploadPart, tree
<1>2. PICK u \in Uploads, n \in env.parts, b \in env.bodies :
        Known(u) /\ Begin(t, [OnUpload("part", u) EXCEPT !.num = n, !.body = b], Upload(u) \in tree, "openpart")
  BY Zenon DEF UploadPart
<1>3. n \in PartNumbers
  <2>1. env \in World
    BY WorldAssumption, Zenon DEF MultipartInv, FilesInv
  <2>2. env.parts \in SUBSET PartNumbers
    BY <2>1, SMTT(20) DEF World
  <2>. QED
    BY <2>2, Zenon
<1>4. CASE Upload(u) \notin tree
  <2>1. UNCHANGED <<job, stray>>
    BY <1>2, <1>4, Zenon DEF Begin
  <2>. QED
    BY <1>1, <2>1, Unmoved, Zenon
<1>5. CASE Upload(u) \in tree
  <2>. DEFINE r == [OnUpload("part", u) EXCEPT !.num = n, !.body = b]
  <2>1. Arrives(t, r, "openpart")
    BY <1>2, <1>5, Zenon DEF Begin, Arrives
  <2>2. DOMAIN r = JobFields /\ r.op = "part" /\ r.up = u /\ r.num = n
    <3>1. DOMAIN OnUpload("part", u) = JobFields /\ OnUpload("part", u).op = "part" /\ OnUpload("part", u).up = u
      BY OnUploadIs, Zenon
    <3>. QED
      BY <3>1, SMTT(20) DEF JobFields
  <2>. HIDE DEF r
  <2>3. Startable(r, "openpart") /\ r.op # "delete"
    BY <1>1, <1>2, <1>3, <1>5, <2>2, UploadStarts, Zenon
  <2>. QED
    BY <1>1, <2>1, <2>3, TreeSame, Arrived, Zenon
<1>. QED
  BY <1>4, <1>5, Zenon

\* CompleteMultipartUpload arrives.
LEMMA StepComplete ==
  ASSUME MultipartInv, NEW t \in Threads, Complete(t)
  PROVE  MultipartInv'
<1>1. UNCHANGED <<life, env, stored>> /\ tree' = tree
  BY Zenon DEF Complete, uploadHistory, tree
<1>2. PICK u \in Uploads, list \in env.lists :
        Known(u) /\ Begin(t, [OnUpload("complete", u) EXCEPT !.list = list], Upload(u) \in tree, "writer")
  BY Zenon DEF Complete
<1>4. CASE Upload(u) \notin tree
  <2>1. UNCHANGED <<job, stray>>
    BY <1>2, <1>4, Zenon DEF Begin
  <2>. QED
    BY <1>1, <2>1, Unmoved, Zenon
<1>5. CASE Upload(u) \in tree
  <2>. DEFINE r == [OnUpload("complete", u) EXCEPT !.list = list]
  <2>1. Arrives(t, r, "writer")
    BY <1>2, <1>5, Zenon DEF Begin, Arrives
  <2>2. DOMAIN r = JobFields /\ r.op = "complete" /\ r.up = u
    <3>1. DOMAIN OnUpload("complete", u) = JobFields /\ OnUpload("complete", u).op = "complete" /\ OnUpload("complete", u).up = u
      BY OnUploadIs, Zenon
    <3>. QED
      BY <3>1, SMTT(20) DEF JobFields
  <2>. HIDE DEF r
  <2>3. Startable(r, "writer") /\ r.op # "delete"
    BY <1>1, <1>2, <1>5, <2>2, UploadStarts, Zenon
  <2>. QED
    BY <1>1, <2>1, <2>3, TreeSame, Arrived, Zenon
<1>. QED
  BY <1>4, <1>5, Zenon

\* AbortMultipartUpload arrives; what it finds of the upload it will remove.
LEMMA StepAbort ==
  ASSUME MultipartInv, NEW t \in Threads, Abort(t)
  PROVE  MultipartInv'
<1>1. UNCHANGED <<life, env, stored>> /\ tree' = tree
  BY Zenon DEF Abort, uploadHistory, tree
<1>2. PICK u \in Uploads :
        Known(u) /\ Begin(t, [OnUpload("abort", u) EXCEPT !.todo = Below(Upload(u))], Upload(u) \in tree, "remove")
  BY Zenon DEF Abort
<1>4. CASE Upload(u) \notin tree
  <2>1. UNCHANGED <<job, stray>>
    BY <1>2, <1>4, Zenon DEF Begin
  <2>. QED
    BY <1>1, <2>1, Unmoved, Zenon
<1>5. CASE Upload(u) \in tree
  <2>. DEFINE r == [OnUpload("abort", u) EXCEPT !.todo = Below(Upload(u))]
  <2>1. Arrives(t, r, "remove")
    BY <1>2, <1>5, Zenon DEF Begin, Arrives
  <2>2. DOMAIN r = JobFields /\ r.op = "abort" /\ r.up = u /\ r.todo = Below(Upload(u))
    <3>1. DOMAIN OnUpload("abort", u) = JobFields /\ OnUpload("abort", u).op = "abort" /\ OnUpload("abort", u).up = u
      BY OnUploadIs, Zenon
    <3>. QED
      BY <3>1, SMTT(20) DEF JobFields
  <2>. HIDE DEF r
  <2>3. Startable(r, "remove") /\ r.op # "delete"
    BY <1>1, <1>2, <1>5, <2>2, UploadStarts, Zenon
  <2>. QED
    BY <1>1, <2>1, <2>3, TreeSame, Arrived, Zenon
<1>. QED
  BY <1>4, <1>5, Zenon

----------------------------------------------------------------------------
(* The theorems. *)

\* What a behaviour may start from: nothing, or a bucket with its marker and no temporary file.
LEMMA FoundIs ==
  ASSUME env \in Worlds
  PROVE  /\ Found(env.start) \subseteq Nodes /\ Tmp \notin Found(env.start)
         /\ Marker \notin Found(env.start) => Found(env.start) = {}
<1>. DEFINE bucket == {Root, Marker, Data, MetaDir}
            nested == {Dir, Nest}
            sets == {Upto(Parts(u)) \cup {Info(u)} : u \in Uploads}
<1>1. env.start \in {"nothing", "bucket", "uploads", "nested"}
  <2>1. env \in World
    BY WorldAssumption, Zenon
  <2>. QED
    BY <2>1, SMTT(20) DEF World
<1>2. /\ env.start = "nothing" => Found(env.start) = {}
      /\ env.start = "bucket" => Found(env.start) = bucket
      /\ env.start = "uploads" => Found(env.start) = bucket \cup UNION sets
      /\ env.start = "nested" => Found(env.start) = bucket \cup nested
  <2>1. CASE env.start = "nothing"
    BY <2>1, SMTT(20) DEF Found
  <2>2. CASE env.start = "bucket"
    BY <2>2, SMTT(20) DEF Found
  <2>3. CASE env.start = "uploads"
    BY <2>3, SMTT(20) DEF Found
  <2>4. CASE env.start = "nested"
    BY <2>4, SMTT(20) DEF Found
  <2>. QED
    BY <1>1, <2>1, <2>2, <2>3, <2>4, SMTT(20)
<1>3. \A s \in sets : s \subseteq Nodes /\ Tmp \notin s
  <2>1. ASSUME NEW u \in Uploads PROVE Upto(Parts(u)) \cup {Info(u)} \subseteq Nodes /\ Tmp \notin Upto(Parts(u)) \cup {Info(u)}
    <3>1. Upto(Parts(u)) = {Root, <<"uploads">>, Upload(u), Parts(u)}
      BY UptoUpload, Zenon
    <3>2. {Root, <<"uploads">>} \subseteq Nodes /\ Tmp \notin {Root, <<"uploads">>}
      BY PlainNodes, NamesOfBucket, SMTT(20) DEF Plainly
    <3>3. {Upload(u), Info(u), Parts(u)} \subseteq Nodes
      BY PlainNodes, Zenon
    <3>4. Tmp # Upload(u) /\ Tmp # Info(u) /\ Tmp # Parts(u)
      <4>1. Tmp \in Bucketwide
        BY Zenon DEF Bucketwide
      <4>. QED
        BY <4>1, NamesOfUploads, Zenon
    <3>. QED
      BY <3>1, <3>2, <3>3, <3>4, SMTT(20)
  <2>. QED
    BY <2>1, Zenon
<1>4. bucket \subseteq Nodes /\ Tmp \notin bucket /\ Marker \in bucket
  BY PlainNodes, NamesOfBucket, SMTT(20) DEF Plainly
<1>9. nested \subseteq Nodes /\ Tmp \notin nested
  BY NamesOfBucket, SMTT(20) DEF Nodes, Dirs
<1>. HIDE DEF bucket, nested, sets
<1>5. UNION sets \subseteq Nodes /\ Tmp \notin UNION sets
  BY <1>3, Zenon
<1>6. CASE env.start = "nothing"
  BY <1>2, <1>6, SMTT(20)
<1>7. CASE env.start = "bucket"
  BY <1>2, <1>4, <1>7, SMTT(20)
<1>8. CASE env.start = "uploads"
  BY <1>2, <1>4, <1>5, <1>8, SMTT(20)
<1>10. CASE env.start = "nested"
  BY <1>2, <1>4, <1>9, <1>10, SMTT(20)
<1>. QED
  BY <1>1, <1>6, <1>7, <1>8, <1>10, SMTT(20)

\* The invariant holds at first.
LEMMA MultipartInit ==
  ASSUME Init
  PROVE  MultipartInv
<1>1. /\ env \in Worlds /\ tree = Found(env.start) /\ ~stray /\ ~stored
      /\ DOMAIN job = Threads /\ \A t \in Threads : job[t] = NoJob
      /\ DOMAIN life = Uploads /\ \A u \in Uploads : life[u] # "aborted"
  <2>1. env \in Worlds /\ ~stray /\ ~stored /\ job = [t \in Threads |-> NoJob]
        /\ fs = [p \in Found(env.start) |-> Empty]
        /\ life = [u \in Uploads |-> IF env.start = "uploads" THEN "known" ELSE "none"]
    BY Zenon DEF Init
  <2>2. DOMAIN life = Uploads /\ \A u \in Uploads : life[u] # "aborted"
    BY <2>1, SMTT(20)
  <2>3. DOMAIN job = Threads /\ \A t \in Threads : job[t] = NoJob
    BY <2>1, SMTT(20)
  <2>4. tree = Found(env.start)
    BY <2>1, Zenon DEF tree
  <2>. QED
    BY <2>1, <2>2, <2>3, <2>4, Zenon
<1>2. tree \subseteq Nodes /\ Tmp \notin tree /\ (Marker \notin tree => tree = {})
  BY <1>1, FoundIs, Zenon
<1>3. NoJob.op = "none" /\ NoJob.pc = "idle" /\ JobInv(NoJob, tree, life, stray)
  BY IdleJob, Zenon
<1>4. JobsInv
  BY <1>1, <1>3, Zenon DEF JobsInv
<1>5. \A t \in Threads : job[t].op = "none" /\ job[t].pc = "idle"
  BY <1>1, <1>3, Zenon
<1>6. Unique /\ MetInv /\ StoredInv /\ AbortedGone
  BY <1>1, <1>5, SMTT(20) DEF Unique, MetInv, StoredInv, AbortedGone, Busy
<1>7. Alone
  BY <1>5, Zenon DEF Alone, Busy
<1>8. GoneInv
  BY <1>2, <1>5, Zenon DEF GoneInv, Busy
<1>9. TmpInv
  BY <1>2, Zenon DEF TmpInv
<1>. QED
  BY <1>1, <1>2, <1>4, <1>6, <1>7, <1>8, <1>9, Zenon DEF MultipartInv, FilesInv, StrayInv

\* Every step keeps it: one case for each action.
LEMMA MultipartStep ==
  ASSUME MultipartInv, [Next]_vars
  PROVE  MultipartInv'
<1>1. CASE UNCHANGED vars
  <2>1. UNCHANGED <<job, stray, life, env, stored>> /\ tree' = tree
    BY <1>1, Zenon DEF vars, history, uploadHistory, tree
  <2>. QED
    BY <2>1, Unmoved, Zenon
<1>2. ASSUME NEW t \in Threads, Arrive(t) PROVE MultipartInv'
  BY <1>2, StepCreateBucket, StepDeleteBucket, StepPut, StepDeleteObject, StepPutTagging, StepDeleteTagging,
     StepCreateUpload, StepUploadPart, StepComplete, StepAbort, Zenon DEF Arrive
<1>3. ASSUME NEW t \in Threads, Handle(t) PROVE MultipartInv'
  <2>1. CASE MakeBucket(t) \/ MarkBucket(t) \/ ScanData(t) \/ ScanVersions(t) \/ Remove(t) \/ Removed(t)
    BY <2>1, StepMakeBucket, StepMarkBucket, StepScanData, StepScanVersions, StepRemove, StepRemoved, Zenon
  <2>2. CASE MakeParent(t) \/ OpenTmp(t) \/ Rename(t) \/ Finish(t) \/ UnlinkObject(t) \/ Prune(t)
    BY <2>2, StepMakeParent, StepOpenTmp, StepRename, StepFinish, StepUnlinkObject, StepPrune, Zenon
  <2>3. CASE MakeTagDir(t) \/ WriteTags(t) \/ UnlinkTags(t) \/ MakeUpload(t) \/ WriteInfo(t)
    BY <2>3, StepMakeTagDir, StepWriteTags, StepUnlinkTags, StepMakeUpload, StepWriteInfo, Zenon
  <2>4. CASE OpenPart(t) \/ WritePart(t) \/ WritePartMeta(t) \/ OpenWriter(t) \/ PartExists(t)
    BY <2>4, StepOpenPart, StepWritePart, StepWritePartMeta, StepOpenWriter, StepPartExists, Zenon
  <2>5. CASE ReadPart(t) \/ ReadDigest(t) \/ RewriteRead(t) \/ RewriteWrite(t)
    BY <2>5, StepReadPart, StepReadDigest, StepRewriteRead, StepRewriteWrite, Zenon
  <2>. QED
    BY <1>3, <2>1, <2>2, <2>3, <2>4, <2>5, Zenon DEF Handle
<1>4. ASSUME NEW t \in Threads, Abandon(t) PROVE MultipartInv'
  BY <1>4, StepAbandon, Zenon
<1>. QED
  BY <1>1, <1>2, <1>3, <1>4, Zenon DEF Next

\* The inductive invariant holds in every world the specification admits, with any number of
\* threads, uploads and parts.
THEOREM MultipartInvariant == Spec => []MultipartInv
<1>1. Init => MultipartInv
  BY MultipartInit
<1>2. MultipartInv /\ [Next]_vars => MultipartInv'
  BY MultipartStep
<1>. QED
  BY <1>1, <1>2, PTL DEF Spec

\* An upload whose abort (abort_multipart) was acknowledged stays gone: no handler of upload_part or
\* complete_multipart that was on its way makes its directory again.
THEOREM AbortsLast == Spec => []AbortedGone
<1>1. MultipartInv => AbortedGone
  BY Zenon DEF MultipartInv, FilesInv
<1>. QED
  BY <1>1, MultipartInvariant, PTL

\* An object acknowledged by put_object or complete_multipart that no deletion overlapped is there, in a bucket
\* that is there, until its deletion is asked for.
THEOREM AcknowledgedStays == Spec => []StoredStays
<1>1. MultipartInv => StoredStays
  <2>1. SUFFICES ASSUME MultipartInv, stored PROVE Object \in tree /\ Marker \in tree
    BY SMTT(20) DEF StoredStays
  <2>. QED
    BY <2>1, Zenon DEF MultipartInv, FilesInv, StoredInv
<1>. QED
  BY <1>1, MultipartInvariant, PTL

\* A bucket delete_bucket has removed leaves nothing behind that a new one of its name would show.
THEOREM DeletedIsGone == Spec => []GoneIsGone
<1>1. MultipartInv => GoneIsGone
  <2>1. SUFFICES ASSUME MultipartInv, Quiescent, ~stray, Marker \notin tree PROVE tree = {}
    BY Zenon DEF GoneIsGone
  <2>2. \A t \in Threads : job[t].pc = "idle"
    BY <2>1, Zenon DEF Quiescent, Busy
  <2>3. \A t \in Threads : job[t].pc # "remove" /\ job[t].pc # "mark"
    BY <2>2, SMTT(20)
  <2>. QED
    BY <2>1, <2>3, Zenon DEF MultipartInv, FilesInv, StrayInv, GoneInv
<1>. QED
  BY <1>1, MultipartInvariant, PTL

\* data/ and the directories below it are no files.
LEMMA NoFiles ==
  Data \notin Files /\ Dir \notin Files /\ Nest \notin Files
<1>. DEFINE SS == {{Part(v, m), PartMeta(v, m)} : v \in Uploads, m \in PartNumbers}
<1>1. \A S \in SS : \E v \in Uploads : \E n \in PartNumbers : S = {Part(v, n), PartMeta(v, n)}
  BY SMTT(20)
<1>2. Files = {Marker, Object, Tmp, Meta, Version, Tags} \cup {Info(v) : v \in Uploads} \cup UNION SS
  BY SMTT(20) DEF Files
<1>. HIDE DEF SS
<1>3. ASSUME NEW p \in Bucketwide, p \in Files PROVE p \in {Marker, Object, Tmp, Meta, Version, Tags}
  <2>1. \A v : p # Info(v)
    BY <1>3, NamesOfUploads, Zenon
  <2>2. \A v, n : p # Part(v, n) /\ p # PartMeta(v, n)
    BY <1>3, NamesOfUploads, Zenon
  <2>3. p \notin UNION SS
    BY <1>1, <2>2, SMTT(20)
  <2>. QED
    BY <1>2, <1>3, <2>1, <2>3, SMTT(20)
<1>4. Data \in Bucketwide /\ Dir \in Bucketwide /\ Nest \in Bucketwide
  BY Zenon DEF Bucketwide
<1>5. {Data, Dir, Nest} \cap {Marker, Object, Tmp, Meta, Version, Tags} = {}
  BY SMTT(20) DEF Data, Dir, Nest, Marker, Object, Tmp, Meta, Version, Tags
<1>. QED
  BY <1>3, <1>4, <1>5, Zenon

\* The files of data/ are the object and the temporary file.
LEMMA DataHolds ==
  ASSUME NEW p \in Files, Data \in Upto(p)
  PROVE  p \in {Object, Tmp}
<1>1. p \in Nodes
  BY Zenon DEF Nodes
<1>2. Data \notin {Root, <<"uploads">>} /\ Data \in Bucketwide
  BY NamesOfBucket, SMTT(20) DEF Bucketwide
<1>3. ASSUME NEW v, p \in Under(v) PROVE FALSE
  BY <1>2, <1>3, UptoUnder, UnderNotBucketwide, Zenon
<1>4. p \in Bucketwide
  BY <1>1, <1>3, NodesUnder, Zenon
<1>5. p \notin {Data, Dir, Nest}
  BY NoFiles, Zenon
<1>6. CASE p \in {Root, Marker, MetaDir, Meta}
  BY <1>2, <1>6, UptoAll, NamesOfBucket, SMTT(20)
<1>7. CASE p \in {Versions, Version, TagDir, Tags, <<"uploads">>}
  BY <1>2, <1>7, UptoAll, NamesOfBucket, SMTT(20)
<1>. QED
  BY <1>4, <1>5, <1>6, <1>7, Zenon DEF Bucketwide

\* When all is quiet, nothing was abandoned and no remover met another request, a bucket without objects
\* and versions is one delete_bucket accepts, unless a directory has the object's name: a PUT of it
\* failed at the rename and left its temporary file.
THEOREM RequestsLeaveNoDebris == Spec => []NoDebris
<1>1. MultipartInv => NoDebris
  <2>1. SUFFICES ASSUME MultipartInv, Quiescent, ~stray, {Object, Version, Nest} \cap tree = {} PROVE ~HasAnyFile(Data)
    BY Zenon DEF NoDebris
  <2>2. \A t \in Threads : job[t].pc = "idle"
    BY <2>1, Zenon DEF Quiescent, Busy
  <2>3. \A t \in Threads : ~HasTmp(job[t])
    BY <2>2, SMTT(20) DEF HasTmp
  <2>4. Tmp \notin tree
    BY <2>1, <2>3, Zenon DEF MultipartInv, FilesInv, StrayInv, TmpInv
  <2>5. ASSUME NEW p \in Files, Data \in Upto(p) PROVE p \in {Object, Tmp}
    BY <2>5, DataHolds, Zenon
  <2>. QED
    BY <2>1, <2>4, <2>5, SMTT(20) DEF HasAnyFile, Below
<1>. QED
  BY <1>1, MultipartInvariant, PTL

----------------------------------------------------------------------------
(* Types.                                                                  *)

\* What a path may hold: the object and its metadata sequences of blocks, the others one
\* body or none.
Fits(p, x) ==
    /\ p = Object => x \in Contents
    /\ p = Meta => x.of \in Contents /\ x.etag \in {"plain", "multi"} \X Contents
    /\ p \notin {Object, Meta} => x \in Bodies \cup {Empty}
Fitting(f) == \A p \in DOMAIN f : Fits(p, f[p])

\* The fields of a thread's record; at is a position in the list while a part is read.
TypedRecord(j, ops) ==
    /\ j.pc # "idle" => j.op \in ops
    /\ j.sum \in Contents /\ j.md5s \in Contents /\ j.seen \in Contents
    /\ j.todo \subseteq Nodes
    /\ j.list \in Lists \cup {<<>>} /\ j.at \in 1..(Len(j.list) + 1)
    /\ j.pc \in {"read", "digest"} => j.at <= Len(j.list)
    /\ j.op = "part" => j.body \in Bodies

\* What clients know, and the history.
HistoryOK ==
    /\ stray \in BOOLEAN /\ stored \in BOOLEAN
    /\ life \in [Uploads -> {"none", "known", "aborted"}]
    /\ acked \in [Uploads -> [PartNumbers -> Bodies \cup {Empty}]]
    /\ settled \in [Uploads -> [PartNumbers -> BOOLEAN]]

\* The types that are inductive next to MultipartInv.
TypeInv ==
    /\ Fitting(fs) /\ left \in 0..env.requests /\ HistoryOK
    /\ \A t \in Threads : TypedRecord(job[t], env.ops)

\* What a step leaves of other threads' records.
SameType(j, k) ==
    /\ k.pc = j.pc /\ k.op = j.op /\ k.sum = j.sum /\ k.md5s = j.md5s /\ k.seen = j.seen
    /\ k.todo = j.todo /\ k.list = j.list /\ k.at = j.at /\ k.body = j.body

\* create_dir_all and File::create make no object and no metadata.
LEMMA MakeFits ==
  ASSUME NEW f, Fitting(f), NEW ps, Object \notin ps, Meta \notin ps
  PROVE  Fitting(Make(f, ps))
<1>1. PICK g : g = Make(f, ps)
  BY Zenon
<1>2. DOMAIN g = DOMAIN f \cup ps /\ (\A p \in DOMAIN f : g[p] = f[p]) /\ \A p \in ps \ DOMAIN f : g[p] = Empty
  BY <1>1, MakeIs, Zenon
<1>3. \A p \in ps : Fits(p, Empty)
  BY Zenon DEF Fits
<1>4. ASSUME NEW p \in DOMAIN g PROVE Fits(p, g[p])
  <2>1. CASE p \in DOMAIN f
    BY <1>2, <2>1, SMTT(20) DEF Fitting
  <2>2. CASE p \notin DOMAIN f
    BY <1>2, <1>3, <1>4, <2>2, SMTT(20)
  <2>. QED
    BY <2>1, <2>2, Zenon
<1>. QED
  BY <1>1, <1>4, Zenon DEF Fitting

\* A write is of what fits.
LEMMA WriteFits ==
  ASSUME NEW f, Fitting(f), NEW p, NEW x, Fits(p, x)
  PROVE  Fitting(Write(f, p, x))
<1>1. PICK g : g = Write(f, p, x)
  BY Zenon
<1>2. DOMAIN g = DOMAIN f \cup {p} /\ g[p] = x /\ \A q \in DOMAIN f \ {p} : g[q] = f[q]
  BY <1>1, SMTT(20) DEF Write
<1>3. ASSUME NEW q \in DOMAIN g PROVE Fits(q, g[q])
  <2>1. CASE q = p
    BY <1>2, <2>1, Zenon
  <2>2. CASE q # p
    BY <1>2, <1>3, <2>2, SMTT(20) DEF Fitting
  <2>. QED
    BY <2>1, <2>2, Zenon
<1>. QED
  BY <1>1, <1>3, Zenon DEF Fitting

\* What stays fits.
LEMMA EraseFits ==
  ASSUME NEW f, Fitting(f), NEW ps
  PROVE  Fitting(Erase(f, ps))
<1>1. PICK g : g = Erase(f, ps)
  BY Zenon
<1>2. DOMAIN g = DOMAIN f \ ps /\ \A q \in DOMAIN f \ ps : g[q] = f[q]
  BY <1>1, EraseIs, Zenon
<1>3. ASSUME NEW q \in DOMAIN g PROVE Fits(q, g[q])
  BY <1>2, <1>3, SMTT(20) DEF Fitting
<1>. QED
  BY <1>1, <1>3, Zenon DEF Fitting

\* The paths a step makes.
LEMMA MadePaths ==
  /\ Object \notin {Root, Data, MetaDir} /\ Object \notin {Marker} /\ Object \notin {Tmp} /\ Object \notin {Tags}
  /\ Meta \notin {Root, Data, MetaDir} /\ Meta \notin {Marker} /\ Meta \notin {Tmp} /\ Meta \notin {Tags}
  /\ Object \notin Upto(Dir) /\ Object \notin Upto(MetaDir) /\ Object \notin Upto(Version)
  /\ Object \notin Upto(Versions) /\ Object \notin Upto(TagDir)
  /\ Meta \notin Upto(Dir) /\ Meta \notin Upto(MetaDir) /\ Meta \notin Upto(Version)
  /\ Meta \notin Upto(Versions) /\ Meta \notin Upto(TagDir)
  /\ \A u : /\ Object \notin Upto(Parts(u)) /\ Meta \notin Upto(Parts(u))
            /\ Object \notin {Info(u)} /\ Meta \notin {Info(u)}
<1>1. Object # Meta /\ \A x \in {Root, Marker, Data, Dir, Tmp, MetaDir, Versions, Version, TagDir, Tags, <<"uploads">>} :
         x # Object /\ x # Meta
  BY NamesOfBucket, SMTT(20)
<1>2. /\ Object \notin {Root, Data, MetaDir} /\ Object \notin {Marker} /\ Object \notin {Tmp} /\ Object \notin {Tags}
      /\ Meta \notin {Root, Data, MetaDir} /\ Meta \notin {Marker} /\ Meta \notin {Tmp} /\ Meta \notin {Tags}
  BY <1>1, Zenon
<1>4. Object \notin Upto(Dir) /\ Meta \notin Upto(Dir)
  BY <1>1, UptoAll, Zenon
<1>5. Object \notin Upto(MetaDir) /\ Meta \notin Upto(MetaDir)
  BY <1>1, UptoAll, Zenon
<1>6. Object \notin Upto(Version) /\ Meta \notin Upto(Version)
  BY <1>1, UptoAll, Zenon
<1>7. Object \notin Upto(Versions) /\ Meta \notin Upto(Versions)
  BY <1>1, UptoAll, Zenon
<1>8. Object \notin Upto(TagDir) /\ Meta \notin Upto(TagDir)
  BY <1>1, UptoAll, Zenon
<1>3. ASSUME NEW u
      PROVE  /\ Object \notin Upto(Parts(u)) /\ Meta \notin Upto(Parts(u))
             /\ Object \notin {Info(u)} /\ Meta \notin {Info(u)}
  <2>1. Upto(Parts(u)) = {Root, <<"uploads">>, Upload(u), Parts(u)}
    BY UptoUpload, Zenon
  <2>2. Object \in Bucketwide /\ Meta \in Bucketwide
    BY Zenon DEF Bucketwide
  <2>3. Object # Upload(u) /\ Object # Info(u) /\ Object # Parts(u)
    BY <2>2, NamesOfUploads, Zenon
  <2>4. Meta # Upload(u) /\ Meta # Info(u) /\ Meta # Parts(u)
    BY <2>2, NamesOfUploads, Zenon
  <2>. QED
    BY <1>1, <2>1, <2>3, <2>4, Zenon
<1>. QED
  BY <1>2, <1>3, <1>4, <1>5, <1>6, <1>7, <1>8, Zenon

\* Of a part and its digest.
LEMMA PartFits ==
  ASSUME NEW u, NEW n, NEW x, x \in Bodies \cup {Empty}
  PROVE  Fits(Part(u, n), x) /\ Fits(PartMeta(u, n), x)
<1>1. Object \in Bucketwide /\ Meta \in Bucketwide
  BY Zenon DEF Bucketwide
<1>2. {Object, Meta} \cap {Part(u, n), PartMeta(u, n)} = {}
  BY <1>1, NamesOfUploads, Zenon
<1>. QED
  BY <1>2, Zenon DEF Fits

\* Of the object and its metadata.
LEMMA ObjectFits ==
  ASSUME NEW x \in Contents, NEW y \in Contents, NEW kind \in {"plain", "multi"}
  PROVE  Fits(Object, x) /\ Fits(Meta, [of |-> x, etag |-> <<kind, y>>])
<1>1. Object # Meta
  BY NamesOfBucket, SMTT(20)
<1>2. Fits(Object, x)
  BY <1>1, Zenon DEF Fits
<1>3. \A z : z = [of |-> x, etag |-> <<kind, y>>] => z.of = x /\ z.etag = <<kind, y>>
  BY SMTT(20)
<1>4. <<kind, y>> \in {"plain", "multi"} \X Contents
  BY SMTT(20)
<1>. QED
  BY <1>1, <1>2, <1>3, <1>4, Zenon DEF Fits

\* A thread that serves nobody.
LEMMA NoJobTyped ==
  ASSUME NEW ops
  PROVE  TypedRecord(NoJob, ops)
<1>1. /\ NoJob.pc = "idle" /\ NoJob.op = "none" /\ NoJob.sum = <<>> /\ NoJob.md5s = <<>> /\ NoJob.seen = <<>>
      /\ NoJob.todo = {} /\ NoJob.list = <<>> /\ NoJob.at = 1
  BY SMTT(20) DEF NoJob
<1>2. <<>> \in Contents /\ 1 \in 1..(Len(<<>>) + 1) /\ "idle" \notin {"read", "digest"} /\ "none" # "part"
  BY SMTT(20) DEF Contents
<1>. QED
  BY <1>1, <1>2, Zenon DEF TypedRecord

\* What the handler of a thread finds.
LEMMA TypedFacts ==
  ASSUME MultipartInv, TypeInv, NEW t \in Threads, Busy(t)
  PROVE  /\ TypedRecord(job[t], env.ops) /\ DOMAIN job = Threads /\ DOMAIN job[t] = JobFields
         /\ tree \subseteq Nodes /\ Fitting(fs) /\ HistoryOK
  BY JobFacts, Zenon DEF TypeInv

\* A handler goes on with a record that is typed; the others' keep their types.
LEMMA Retyped ==
  ASSUME MultipartInv, TypeInv, NEW t \in Threads, NEW k, TypedRecord(k, env.ops), job'[t] = k,
         \A q \in Threads \ {t} : SameType(job[q], job'[q]),
         UNCHANGED <<env, left>>, Fitting(fs'), HistoryOK'
  PROVE  TypeInv'
<1>1. ASSUME NEW q \in Threads PROVE TypedRecord(job'[q], env.ops)
  <2>1. CASE q = t
    BY <2>1, Zenon
  <2>2. CASE q # t
    <3>1. SameType(job[q], job'[q]) /\ TypedRecord(job[q], env.ops)
      BY <2>2, Zenon DEF TypeInv
    <3>. QED
      BY <3>1, Zenon DEF SameType, TypedRecord
  <2>. QED
    BY <2>1, <2>2, Zenon
<1>2. Fitting(fs)' /\ env' = env /\ left' = left
  BY Zenon DEF Fitting
<1>3. left \in 0..env.requests
  BY Zenon DEF TypeInv
<1>. QED
  BY <1>1, <1>2, <1>3, Zenon DEF TypeInv

\* The same, of a step that changes one record only.
LEMMA Advanced ==
  ASSUME MultipartInv, TypeInv, NEW t \in Threads, NEW k, TypedRecord(k, env.ops), job' = [job EXCEPT ![t] = k],
         UNCHANGED <<env, left>>, Fitting(fs'), HistoryOK'
  PROVE  TypeInv'
<1>1. DOMAIN job = Threads
  BY Zenon DEF MultipartInv, JobsInv
<1>2. job'[t] = k /\ \A q \in Threads \ {t} : job'[q] = job[q]
  BY <1>1, Zenon
<1>3. \A q \in Threads \ {t} : SameType(job[q], job'[q])
  BY <1>2, Zenon DEF SameType
<1>. QED
  BY <1>2, <1>3, Retyped, Zenon

\* It ends, or goes to another place of its program.
Moved(t) ==
    \/ Done(t)
    \/ \E x : Goto(t, x) /\ (x \in {"read", "digest"} => job[t].at <= Len(job[t].list))

\* A step that only moves the thread keeps the types.
LEMMA MovedTyped ==
  ASSUME MultipartInv, TypeInv, NEW t \in Threads, Busy(t), Moved(t),
         UNCHANGED <<env, left>>, Fitting(fs'), HistoryOK'
  PROVE  TypeInv'
<1>1. CASE Done(t)
  BY <1>1, NoJobTyped, Advanced, Zenon DEF Done
<1>2. CASE \E x : Goto(t, x) /\ (x \in {"read", "digest"} => job[t].at <= Len(job[t].list))
  <2>1. PICK x : Goto(t, x) /\ (x \in {"read", "digest"} => job[t].at <= Len(job[t].list))
    BY <1>2
  <2>. DEFINE k == [job[t] EXCEPT !.pc = x]
  <2>2. job' = [job EXCEPT ![t] = k]
    BY <2>1, Zenon DEF Goto
  <2>3. DOMAIN job[t] = JobFields /\ TypedRecord(job[t], env.ops) /\ job[t].pc # "idle"
    BY TypedFacts, Zenon DEF Busy
  <2>4. /\ k.pc = x /\ k.op = job[t].op /\ k.sum = job[t].sum /\ k.md5s = job[t].md5s
        /\ k.seen = job[t].seen /\ k.todo = job[t].todo /\ k.list = job[t].list /\ k.at = job[t].at
        /\ k.body = job[t].body
    BY <2>3, SMTT(20) DEF JobFields
  <2>. HIDE DEF k
  <2>5. TypedRecord(k, env.ops)
    BY <2>1, <2>3, <2>4, Zenon DEF TypedRecord
  <2>. QED
    BY <2>2, <2>5, Advanced, Zenon
<1>. QED
  BY <1>1, <1>2, Zenon DEF Moved

\* What a step may do to files and remain typed.
Builds ==
    \/ fs' = fs
    \/ \E ps : Object \notin ps /\ Meta \notin ps /\ fs' = Make(fs, ps)
    \/ \E ps : fs' = Erase(fs, ps)

\* A step that does no more than that, and moves.
LEMMA MovesOn ==
  ASSUME MultipartInv, TypeInv, NEW t \in Threads, Busy(t), Moved(t), Builds, UNCHANGED <<env, left, history>>
  PROVE  TypeInv'
<1>1. Fitting(fs) /\ HistoryOK
  BY Zenon DEF TypeInv
<1>2. Fitting(fs')
  BY <1>1, MakeFits, EraseFits, Zenon DEF Builds
<1>3. HistoryOK'
  BY <1>1, Zenon DEF HistoryOK, history, uploadHistory
<1>. QED
  BY <1>2, <1>3, MovedTyped, Zenon

\* Handlers of the bucket, the object and its tags, and of an upload, that do no more.
LEMMA PlainSteps ==
  ASSUME MultipartInv, TypeInv, NEW t \in Threads,
         \/ MakeBucket(t) \/ MarkBucket(t) \/ ScanData(t) \/ MakeParent(t) \/ OpenTmp(t)
         \/ UnlinkObject(t) \/ Prune(t) \/ MakeTagDir(t) \/ WriteTags(t) \/ UnlinkTags(t)
         \/ MakeUpload(t) \/ OpenWriter(t) \/ PartExists(t)
  PROVE  TypeInv'
<1>1. \A x \in {"mark", "scanversions", "open", "rename", "exists", "prune", "writetags", "info", "mkparent"} :
         x \notin {"read", "digest"}
  BY SMTT(20)
<1>2. \A x \in {"mkbucket", "mark", "scandata", "mkparent", "open", "unlink", "prune", "mktags", "writetags",
                "unlinktags", "mkupload", "writer", "exists"} : x # "idle"
  BY SMTT(20)
<1>3. CASE MakeBucket(t)
  <2>1. Busy(t) /\ Moved(t)
    BY <1>1, <1>2, <1>3, Zenon DEF MakeBucket, Busy, Moved
  <2>2. Builds /\ UNCHANGED <<env, left, history>>
    BY <1>3, MadePaths, Zenon DEF MakeBucket, Builds
  <2>. QED
    BY <2>1, <2>2, MovesOn, Zenon
<1>4. CASE MarkBucket(t)
  <2>1. Busy(t) /\ Moved(t)
    BY <1>2, <1>4, Zenon DEF MarkBucket, Busy, Moved
  <2>2. Builds /\ UNCHANGED <<env, left, history>>
    BY <1>4, MadePaths, Zenon DEF MarkBucket, Builds
  <2>. QED
    BY <2>1, <2>2, MovesOn, Zenon
<1>5. CASE ScanData(t)
  <2>1. Busy(t) /\ Moved(t)
    BY <1>1, <1>2, <1>5, Zenon DEF ScanData, Busy, Moved, Check
  <2>2. Builds /\ UNCHANGED <<env, left, history>>
    BY <1>5, Zenon DEF ScanData, Builds
  <2>. QED
    BY <2>1, <2>2, MovesOn, Zenon
<1>6. CASE MakeParent(t)
  <2>1. Busy(t) /\ Moved(t)
    BY <1>1, <1>2, <1>6, Zenon DEF MakeParent, Busy, Moved
  <2>2. Builds /\ UNCHANGED <<env, left, history>>
    BY <1>6, MadePaths, Zenon DEF MakeParent, Builds
  <2>. QED
    BY <2>1, <2>2, MovesOn, Zenon
<1>7. CASE OpenTmp(t)
  <2>1. Busy(t) /\ Moved(t)
    BY <1>1, <1>2, <1>7, Zenon DEF OpenTmp, Busy, Moved, Check
  <2>2. Builds /\ UNCHANGED <<env, left, history>>
    BY <1>7, MadePaths, Zenon DEF OpenTmp, Builds
  <2>. QED
    BY <2>1, <2>2, MovesOn, Zenon
<1>8. CASE UnlinkObject(t)
  <2>1. Busy(t) /\ Moved(t)
    BY <1>1, <1>2, <1>8, Zenon DEF UnlinkObject, Busy, Moved
  <2>2. Builds /\ UNCHANGED <<env, left, history>>
    BY <1>8, Zenon DEF UnlinkObject, Builds
  <2>. QED
    BY <2>1, <2>2, MovesOn, Zenon
<1>9. CASE Prune(t)
  <2>1. Busy(t) /\ Moved(t)
    BY <1>2, <1>9, Zenon DEF Prune, Busy, Moved
  <2>2. Builds /\ UNCHANGED <<env, left, history>>
    BY <1>9, Zenon DEF Prune, Builds
  <2>. QED
    BY <2>1, <2>2, MovesOn, Zenon
<1>10. CASE MakeTagDir(t)
  <2>1. Busy(t) /\ Moved(t)
    BY <1>1, <1>2, <1>10, Zenon DEF MakeTagDir, Busy, Moved
  <2>2. Builds /\ UNCHANGED <<env, left, history>>
    BY <1>10, MadePaths, Zenon DEF MakeTagDir, Builds
  <2>. QED
    BY <2>1, <2>2, MovesOn, Zenon
<1>11. CASE WriteTags(t)
  <2>1. Busy(t) /\ Moved(t)
    BY <1>2, <1>11, Zenon DEF WriteTags, Busy, Moved
  <2>2. Builds /\ UNCHANGED <<env, left, history>>
    BY <1>11, MadePaths, Zenon DEF WriteTags, Builds
  <2>. QED
    BY <2>1, <2>2, MovesOn, Zenon
<1>12. CASE UnlinkTags(t)
  <2>1. Busy(t) /\ Moved(t)
    BY <1>2, <1>12, Zenon DEF UnlinkTags, Busy, Moved
  <2>2. Builds /\ UNCHANGED <<env, left, history>>
    BY <1>12, Zenon DEF UnlinkTags, Builds
  <2>. QED
    BY <2>1, <2>2, MovesOn, Zenon
<1>13. CASE MakeUpload(t)
  <2>1. Busy(t) /\ Moved(t)
    BY <1>1, <1>2, <1>13, Zenon DEF MakeUpload, Busy, Moved
  <2>2. Builds /\ UNCHANGED <<env, left, history>>
    BY <1>13, MadePaths, Zenon DEF MakeUpload, Builds
  <2>. QED
    BY <2>1, <2>2, MovesOn, Zenon
<1>14. CASE OpenWriter(t)
  <2>1. Busy(t) /\ Moved(t)
    BY <1>1, <1>2, <1>14, Zenon DEF OpenWriter, Busy, Moved, Check
  <2>2. Builds /\ UNCHANGED <<env, left, history>>
    BY <1>14, Zenon DEF OpenWriter, Builds
  <2>. QED
    BY <2>1, <2>2, MovesOn, Zenon
<1>15. CASE PartExists(t)
  <2>1. Busy(t) /\ Moved(t)
    BY <1>1, <1>2, <1>15, Zenon DEF PartExists, Busy, Moved, Check, PartsLeft
  <2>2. Builds /\ UNCHANGED <<env, left, history>>
    BY <1>15, Zenon DEF PartExists, Builds
  <2>. QED
    BY <2>1, <2>2, MovesOn, Zenon
<1>. QED
  BY <1>3, <1>4, <1>5, <1>6, <1>7, <1>8, <1>9, <1>10, <1>11, <1>12, <1>13, <1>14, <1>15, Zenon

\* A removal starts with the nodes it has found.
LEMMA Removal ==
  ASSUME MultipartInv, TypeInv, NEW t \in Threads, Busy(t), NEW S, S \subseteq Nodes,
         job' = [job EXCEPT ![t].pc = "remove", ![t].todo = S],
         UNCHANGED <<env, left>>, Fitting(fs'), HistoryOK'
  PROVE  TypeInv'
<1>. DEFINE k == [job[t] EXCEPT !.pc = "remove", !.todo = S]
<1>1. job' = [job EXCEPT ![t] = k]
  BY Zenon
<1>2. DOMAIN job[t] = JobFields /\ TypedRecord(job[t], env.ops) /\ job[t].pc # "idle"
  BY TypedFacts, Zenon DEF Busy
<1>3. /\ k.pc = "remove" /\ k.op = job[t].op /\ k.sum = job[t].sum /\ k.md5s = job[t].md5s
      /\ k.seen = job[t].seen /\ k.todo = S /\ k.list = job[t].list /\ k.at = job[t].at
      /\ k.body = job[t].body
  BY <1>2, SMTT(20) DEF JobFields
<1>. HIDE DEF k
<1>4. "remove" \notin {"read", "digest"}
  BY SMTT(20)
<1>5. TypedRecord(k, env.ops)
  BY <1>2, <1>3, <1>4, Zenon DEF TypedRecord
<1>. QED
  BY <1>1, <1>5, Advanced, Zenon

\* No path below another is outside the tree.
LEMMA BelowNodes ==
  ASSUME MultipartInv, NEW p
  PROVE  Below(p) \subseteq Nodes /\ Children(p) \subseteq Nodes
  BY Zenon DEF MultipartInv, FilesInv, Below, Children

\* What only reads leaves files and history as they are.
LEMMA ReadsOnly ==
  ASSUME TypeInv, UNCHANGED <<fs, history>>
  PROVE  Fitting(fs') /\ HistoryOK'
  BY Zenon DEF TypeInv, HistoryOK, history, uploadHistory

\* delete_bucket finds versions, or goes on to remove what the root holds.
LEMMA TypeScanVersions ==
  ASSUME MultipartInv, TypeInv, NEW t \in Threads, ScanVersions(t)
  PROVE  TypeInv'
<1>1. Busy(t) /\ UNCHANGED <<env, left>> /\ Fitting(fs') /\ HistoryOK'
  <2>1. Busy(t)
    BY SMTT(20) DEF ScanVersions, Busy
  <2>. QED
    BY <2>1, ReadsOnly, Zenon DEF ScanVersions
<1>2. CASE HasAnyFile(Versions)
  <2>1. Moved(t)
    BY <1>2, Zenon DEF ScanVersions, Moved
  <2>. QED
    BY <1>1, <2>1, MovedTyped, Zenon
<1>3. CASE ~HasAnyFile(Versions)
  <2>1. job' = [job EXCEPT ![t].pc = "remove", ![t].todo = Below(Root)]
    BY <1>3, Zenon DEF ScanVersions
  <2>. QED
    BY <1>1, <2>1, BelowNodes, Removal, Zenon
<1>. QED
  BY <1>2, <1>3, Zenon

\* remove_dir_all: what it unlinks, finds and gives up.
LEMMA TypeRemove ==
  ASSUME MultipartInv, TypeInv, NEW t \in Threads, Remove(t)
  PROVE  TypeInv'
<1>1. Busy(t) /\ job[t].pc = "remove" /\ UNCHANGED <<env, left, history>> /\ HistoryOK'
  <2>1. Busy(t) /\ job[t].pc = "remove"
    BY SMTT(20) DEF Remove, Busy
  <2>2. UNCHANGED <<env, left, history>>
    BY Zenon DEF Remove
  <2>. QED
    BY <2>1, <2>2, Zenon DEF TypeInv, HistoryOK, history, uploadHistory
<1>2. DOMAIN job[t] = JobFields /\ TypedRecord(job[t], env.ops) /\ job[t].pc # "idle" /\ Fitting(fs) /\ DOMAIN job = Threads
  BY <1>1, TypedFacts, Zenon DEF Busy
<1>3. PICK p \in job[t].todo :
         \/ Unlink(t, p)
         \/ job' = [job EXCEPT ![t].todo = @ \cup Children(p)] /\ fs' = fs
         \/ job' = [job EXCEPT ![t].todo = {}] /\ fs' = fs
         \/ Done(t) /\ fs' = fs
  BY Zenon DEF Remove
<1>4. ASSUME NEW S, S \subseteq Nodes, NEW k, k = [job[t] EXCEPT !.todo = S]
      PROVE  TypedRecord(k, env.ops)
  <2>1. /\ k.pc = job[t].pc /\ k.op = job[t].op /\ k.sum = job[t].sum /\ k.md5s = job[t].md5s
        /\ k.seen = job[t].seen /\ k.todo = S /\ k.list = job[t].list /\ k.at = job[t].at
        /\ k.body = job[t].body
    BY <1>2, <1>4, SMTT(20) DEF JobFields
  <2>. QED
    BY <1>2, <1>4, <2>1, Zenon DEF TypedRecord
<1>5. job[t].todo \subseteq Nodes /\ Children(p) \subseteq Nodes
  BY <1>2, BelowNodes, Zenon DEF TypedRecord
<1>6. CASE Unlink(t, p)
  <2>1. Fitting(fs')
    BY <1>2, <1>6, EraseFits, Zenon DEF Unlink
  <2>. DEFINE k == [job[t] EXCEPT !.todo = @ \ {p}]
  <2>2. job'[t] = k
    BY <1>6, Zenon DEF Unlink
  <2>3. \A q \in Threads \ {t} : job'[q] = [job[q] EXCEPT !.linked = @ /\ p # Part(job[q].up, job[q].num)]
    BY <1>6, Zenon DEF Unlink
  <2>4. TypedRecord(k, env.ops)
    BY <1>4, <1>5, Zenon
  <2>. HIDE DEF k
  <2>5. ASSUME NEW q \in Threads \ {t} PROVE SameType(job[q], job'[q])
    <3>1. DOMAIN job[q] = JobFields
      BY <2>5, Zenon DEF MultipartInv, JobsInv, JobInv, JobOK
    <3>2. PICK j, x : j = job[q] /\ x = (job[q].linked /\ p # Part(job[q].up, job[q].num))
      BY Zenon
    <3>3. job'[q] = [j EXCEPT !.linked = x] /\ DOMAIN j = JobFields
      BY <2>3, <2>5, <3>1, <3>2, Zenon
    <3>4. SameType(j, job'[q])
      BY <3>3, SMTT(20) DEF SameType, JobFields
    <3>. QED
      BY <3>2, <3>4, Zenon
  <2>. QED
    BY <1>1, <2>1, <2>2, <2>4, <2>5, Retyped, Zenon
<1>7. ASSUME NEW S, S \subseteq Nodes, job' = [job EXCEPT ![t].todo = S], fs' = fs PROVE TypeInv'
  <2>. DEFINE k == [job[t] EXCEPT !.todo = S]
  <2>1. job' = [job EXCEPT ![t] = k]
    BY <1>7, Zenon
  <2>2. TypedRecord(k, env.ops)
    BY <1>4, <1>7, Zenon
  <2>3. Fitting(fs')
    BY <1>2, <1>7, Zenon
  <2>. HIDE DEF k
  <2>. QED
    BY <1>1, <2>1, <2>2, <2>3, Advanced, Zenon
<1>8. CASE job' = [job EXCEPT ![t].todo = @ \cup Children(p)] /\ fs' = fs
  <2>1. PICK S : S = job[t].todo \cup Children(p)
    BY Zenon
  <2>2. S \subseteq Nodes /\ job' = [job EXCEPT ![t].todo = S]
    BY <1>5, <1>8, <2>1, Zenon
  <2>. QED
    BY <1>7, <1>8, <2>2, Zenon
<1>9. CASE job' = [job EXCEPT ![t].todo = {}] /\ fs' = fs
  <2>1. PICK S : S = {}
    BY Zenon
  <2>2. S \subseteq Nodes /\ job' = [job EXCEPT ![t].todo = S]
    BY <1>9, <2>1, Zenon
  <2>. QED
    BY <1>7, <1>9, <2>2, Zenon
<1>10. CASE Done(t) /\ fs' = fs
  <2>1. Moved(t) /\ Fitting(fs')
    BY <1>2, <1>10, Zenon DEF Moved
  <2>. QED
    BY <1>1, <2>1, MovedTyped, Zenon
<1>. QED
  BY <1>3, <1>6, <1>8, <1>9, <1>10, Zenon

\* The walk is over.
LEMMA TypeRemoved ==
  ASSUME MultipartInv, TypeInv, NEW t \in Threads, Removed(t)
  PROVE  TypeInv'
<1>1. Busy(t)
  BY SMTT(20) DEF Removed, Busy
<1>2. Moved(t) /\ UNCHANGED <<env, left>> /\ Fitting(fs')
  BY Zenon DEF Removed, Moved, TypeInv
<1>3. HistoryOK'
  <2>1. HistoryOK /\ UNCHANGED <<stray, acked, settled>>
    BY Zenon DEF Removed, TypeInv
  <2>2. life' = life \/ life' = [life EXCEPT ![job[t].up] = "aborted"]
    BY Zenon DEF Removed
  <2>3. life' \in [Uploads -> {"none", "known", "aborted"}]
    BY <2>1, <2>2, SMTT(20) DEF HistoryOK
  <2>4. stored' = (stored \/ (job[t].op = "complete" /\ ~job[t].met))
    BY Zenon DEF Removed
  <2>5. stored' \in BOOLEAN
    BY <2>4, Zenon
  <2>. QED
    BY <2>1, <2>3, <2>5, Zenon DEF HistoryOK
<1>. QED
  BY <1>1, <1>2, <1>3, MovedTyped, Zenon

\* finish: the object is what was put together, and so is what the metadata is of.
LEMMA TypeRename ==
  ASSUME MultipartInv, TypeInv, NEW t \in Threads, Rename(t)
  PROVE  TypeInv'
<1>1. Busy(t)
  BY SMTT(20) DEF Rename, Busy
<1>2. TypedRecord(job[t], env.ops) /\ Fitting(fs) /\ HistoryOK
  BY <1>1, TypedFacts, Zenon
<1>3. UNCHANGED <<env, left>> /\ HistoryOK'
  BY <1>2, Zenon DEF Rename, HistoryOK, history, uploadHistory
<1>4. Moved(t)
  <2>1. "finish" \notin {"read", "digest"}
    BY SMTT(20)
  <2>. QED
    BY <2>1, Zenon DEF Rename, Check, Moved
<1>5. Fitting(fs')
  <2>1. Fitting(Make(fs, Upto(MetaDir)))
    BY <1>2, MadePaths, MakeFits, Zenon
  <2>2. Fits(Object, job[t].sum)
    <3>1. job[t].sum \in Contents /\ "plain" \in {"plain", "multi"}
      BY <1>2, Zenon DEF TypedRecord
    <3>. QED
      BY <3>1, ObjectFits, Zenon
  <2>3. Fitting(Erase(Write(Make(fs, Upto(MetaDir)), Object, job[t].sum), {Tmp}))
    BY <2>1, <2>2, WriteFits, EraseFits, Zenon
  <2>. QED
    BY <2>1, <2>3, Zenon DEF Rename
<1>. QED
  BY <1>1, <1>3, <1>4, <1>5, MovedTyped, Zenon

\* finish after the rename: the metadata are of what was put together.
LEMMA TypeFinish ==
  ASSUME MultipartInv, TypeInv, NEW t \in Threads, Finish(t)
  PROVE  TypeInv'
<1>1. Busy(t)
  BY SMTT(20) DEF Finish, Busy
<1>2. TypedRecord(job[t], env.ops) /\ Fitting(fs) /\ HistoryOK
  BY <1>1, TypedFacts, Zenon
<1>3. UNCHANGED <<env, left, stray, life, acked, settled>>
  BY Zenon DEF Finish, uploadHistory
<1>4. HistoryOK'
  <2>1. PICK b : stored' = (stored \/ b)
    BY Zenon DEF Finish
  <2>2. stored' \in BOOLEAN
    BY <2>1, Zenon
  <2>. QED
    BY <1>2, <1>3, <2>2, Zenon DEF HistoryOK
<1>5. Moved(t)
  <2>1. "readmeta" \notin {"read", "digest"}
    BY SMTT(20)
  <2>. QED
    BY <2>1, Zenon DEF Finish, Check, Moved
<1>6. Fitting(fs')
  <2>1. Fitting(Make(fs, Upto(Version))) /\ Fitting(Make(fs, Upto(Versions)))
    BY <1>2, MadePaths, MakeFits, Zenon
  <2>2. PICK kept :
           /\ kept = CASE env.versioned /\ Object \in tree -> Make(fs, Upto(Version))
                       [] env.versioned /\ Object \notin tree -> Make(fs, Upto(Versions))
                       [] OTHER -> fs
           /\ \/ fs' = kept
              \/ fs' = Write(kept, Meta, [of |-> job[t].sum, etag |-> <<"plain", job[t].sum>>])
    BY Zenon DEF Finish
  <2>3. Fitting(kept)
    <3>1. CASE env.versioned /\ Object \in tree
      BY <2>1, <2>2, <3>1, SMTT(20)
    <3>2. CASE env.versioned /\ Object \notin tree
      BY <2>1, <2>2, <3>2, SMTT(20)
    <3>3. CASE ~env.versioned
      BY <1>2, <2>2, <3>3, SMTT(20)
    <3>. QED
      BY <3>1, <3>2, <3>3, Zenon
  <2>4. Fits(Meta, [of |-> job[t].sum, etag |-> <<"plain", job[t].sum>>])
    <3>1. job[t].sum \in Contents /\ "plain" \in {"plain", "multi"}
      BY <1>2, Zenon DEF TypedRecord
    <3>. QED
      BY <3>1, ObjectFits, Zenon
  <2>. QED
    BY <2>2, <2>3, <2>4, WriteFits, Zenon
<1>. QED
  BY <1>1, <1>3, <1>4, <1>5, <1>6, MovedTyped, Zenon

\* create_multipart's last step: clients know the upload.
LEMMA TypeWriteInfo ==
  ASSUME MultipartInv, TypeInv, NEW t \in Threads, WriteInfo(t)
  PROVE  TypeInv'
<1>1. Busy(t)
  BY SMTT(20) DEF WriteInfo, Busy
<1>2. Fitting(fs) /\ HistoryOK /\ UNCHANGED <<env, left, stray, stored, acked, settled>> /\ Moved(t)
  BY Zenon DEF WriteInfo, TypeInv, Moved
<1>3. PICK u : /\ fs' = fs \/ fs' = Make(fs, {Info(u)})
               /\ life' = life \/ life' = [life EXCEPT ![u] = "known"]
  BY Zenon DEF WriteInfo
<1>4. Fitting(fs')
  BY <1>2, <1>3, MadePaths, MakeFits, Zenon
<1>5. life' \in [Uploads -> {"none", "known", "aborted"}]
  BY <1>2, <1>3, SMTT(20) DEF HistoryOK
<1>6. HistoryOK'
  BY <1>2, <1>5, Zenon DEF HistoryOK
<1>. QED
  BY <1>1, <1>2, <1>4, <1>6, MovedTyped, Zenon

\* upload_part opens its part.
LEMMA TypeOpenPart ==
  ASSUME MultipartInv, TypeInv, NEW t \in Threads, OpenPart(t)
  PROVE  TypeInv'
<1>1. Busy(t)
  BY SMTT(20) DEF OpenPart, Busy
<1>2. TypedRecord(job[t], env.ops) /\ Fitting(fs) /\ HistoryOK /\ DOMAIN job[t] = JobFields
  BY <1>1, TypedFacts, Zenon
<1>3. UNCHANGED <<env, left>> /\ HistoryOK'
  BY <1>2, Zenon DEF OpenPart, HistoryOK, history, uploadHistory
<1>4. CASE Parts(job[t].up) \in tree
  <2>. DEFINE k == [job[t] EXCEPT !.pc = "writepart", !.linked = TRUE]
  <2>1. job' = [job EXCEPT ![t] = k] /\ fs' = Write(fs, Part(job[t].up, job[t].num), Empty)
    BY <1>4, Zenon DEF OpenPart
  <2>2. /\ k.pc = "writepart" /\ k.op = job[t].op /\ k.sum = job[t].sum /\ k.md5s = job[t].md5s
        /\ k.seen = job[t].seen /\ k.todo = job[t].todo /\ k.list = job[t].list /\ k.at = job[t].at
        /\ k.body = job[t].body
    BY <1>2, SMTT(20) DEF JobFields
  <2>. HIDE DEF k
  <2>3. "writepart" \notin {"read", "digest"}
    BY SMTT(20)
  <2>4. TypedRecord(k, env.ops)
    BY <1>1, <1>2, <2>2, <2>3, Zenon DEF TypedRecord, Busy
  <2>5. Fitting(fs')
    BY <1>2, <2>1, PartFits, WriteFits, Zenon
  <2>. QED
    BY <1>3, <2>1, <2>4, <2>5, Advanced, Zenon
<1>5. CASE Parts(job[t].up) \notin tree
  <2>1. Moved(t) /\ Fitting(fs')
    BY <1>2, <1>5, Zenon DEF OpenPart, Moved
  <2>. QED
    BY <1>1, <1>3, <2>1, MovedTyped, Zenon
<1>. QED
  BY <1>4, <1>5, Zenon

\* The body of a part is one of the bodies.
LEMMA TypeWritePart ==
  ASSUME MultipartInv, TypeInv, NEW t \in Threads, WritePart(t)
  PROVE  TypeInv'
<1>1. Busy(t) /\ job[t].op = "part"
  <2>1. Busy(t) /\ job[t].pc = "writepart"
    BY SMTT(20) DEF WritePart, Busy
  <2>. QED
    BY <2>1, JobFacts, SMTT(20) DEF Staged
<1>2. TypedRecord(job[t], env.ops) /\ Fitting(fs) /\ HistoryOK /\ DOMAIN job[t] = JobFields
  BY <1>1, TypedFacts, Zenon
<1>3. UNCHANGED <<env, left>> /\ HistoryOK'
  BY <1>2, Zenon DEF WritePart, HistoryOK, history, uploadHistory
<1>. DEFINE k == [job[t] EXCEPT !.pc = "partmeta", !.linked = FALSE]
<1>4. job' = [job EXCEPT ![t] = k]
  BY Zenon DEF WritePart
<1>5. /\ k.pc = "partmeta" /\ k.op = job[t].op /\ k.sum = job[t].sum /\ k.md5s = job[t].md5s
      /\ k.seen = job[t].seen /\ k.todo = job[t].todo /\ k.list = job[t].list /\ k.at = job[t].at
      /\ k.body = job[t].body
  BY <1>2, SMTT(20) DEF JobFields
<1>. HIDE DEF k
<1>6. "partmeta" \notin {"read", "digest"}
  BY SMTT(20)
<1>7. TypedRecord(k, env.ops)
  BY <1>1, <1>2, <1>5, <1>6, Zenon DEF TypedRecord, Busy
<1>8. Fitting(fs')
  <2>1. job[t].body \in Bodies \cup {Empty}
    BY <1>1, <1>2, Zenon DEF TypedRecord
  <2>2. Fits(Part(job[t].up, job[t].num), job[t].body)
    BY <2>1, PartFits, Zenon
  <2>. QED
    BY <1>2, <2>2, WriteFits, Zenon DEF WritePart
<1>. QED
  BY <1>3, <1>4, <1>7, <1>8, Advanced, Zenon

\* A function whose value at one point is replaced keeps its type.
LEMMA PointReplaced ==
  ASSUME NEW S, NEW T, NEW h \in [S -> T], NEW n, NEW v, n \in S => v \in T
  PROVE  [h EXCEPT ![n] = v] \in [S -> T]
<1>. DEFINE k == [m \in S |-> IF m = n THEN v ELSE h[m]]
<1>1. k \in [S -> T]
  <2>1. \A m \in S : (IF m = n THEN v ELSE h[m]) \in T
    BY Zenon
  <2>. QED
    BY <2>1, Zenon
<1>2. [h EXCEPT ![n] = v] = k
  BY Zenon
<1>. QED
  BY <1>1, <1>2, Zenon

\* What is kept of each part keeps its type.
LEMMA Nested ==
  ASSUME NEW A, NEW B, NEW C, NEW f \in [A -> [B -> C]], NEW u, NEW n, NEW c \in C
  PROVE  [f EXCEPT ![u][n] = c] \in [A -> [B -> C]]
<1>1. PICK g : g = [f[u] EXCEPT ![n] = c]
  BY Zenon
<1>2. u \in A => g \in [B -> C]
  <2>1. SUFFICES ASSUME u \in A PROVE g \in [B -> C]
    BY Zenon
  <2>2. PICK h : h = f[u]
    BY Zenon
  <2>3. h \in [B -> C]
    BY <2>1, <2>2, Zenon
  <2>4. g = [h EXCEPT ![n] = c]
    BY <1>1, <2>2, Zenon
  <2>. QED
    BY <2>3, <2>4, PointReplaced, Zenon
<1>3. [f EXCEPT ![u] = g] \in [A -> [B -> C]]
  BY <1>2, PointReplaced, Zenon
<1>. QED
  BY <1>1, <1>3, Zenon

\* A part's digest; the part is acknowledged.
LEMMA TypeWritePartMeta ==
  ASSUME MultipartInv, TypeInv, NEW t \in Threads, WritePartMeta(t)
  PROVE  TypeInv'
<1>1. Busy(t) /\ job[t].op = "part" /\ Moved(t)
  <2>1. Busy(t) /\ job[t].pc = "partmeta"
    BY SMTT(20) DEF WritePartMeta, Busy
  <2>2. job[t].op = "part"
    BY <2>1, JobFacts, SMTT(20) DEF Staged
  <2>. QED
    BY <2>1, <2>2, Zenon DEF WritePartMeta, Moved
<1>2. TypedRecord(job[t], env.ops) /\ Fitting(fs) /\ HistoryOK /\ job[t].body \in Bodies
  BY <1>1, TypedFacts, Zenon DEF TypedRecord
<1>3. UNCHANGED <<env, left, stray, stored, life>>
  BY Zenon DEF WritePartMeta
<1>4. PICK u, n, b, ok :
         /\ b = job[t].body /\ ok = (Parts(u) \in tree)
         /\ fs' = IF ok THEN Write(fs, PartMeta(u, n), b) ELSE fs
         /\ acked' = IF ok THEN [acked EXCEPT ![u][n] = b] ELSE acked
         /\ settled' = [settled EXCEPT ![u][n] = ok]
  BY Zenon DEF WritePartMeta
<1>5. Fitting(fs')
  <2>1. Fits(PartMeta(u, n), b)
    BY <1>2, <1>4, PartFits, Zenon
  <2>. QED
    BY <1>2, <1>4, <2>1, WriteFits, Zenon
<1>6. acked' \in [Uploads -> [PartNumbers -> Bodies \cup {Empty}]]
  <2>1. b \in Bodies /\ (acked' = acked \/ acked' = [acked EXCEPT ![u][n] = b])
    BY <1>2, <1>4, Zenon
  <2>2. b \in Bodies \cup {Empty} /\ acked \in [Uploads -> [PartNumbers -> Bodies \cup {Empty}]]
    BY <1>2, <2>1, Zenon DEF HistoryOK
  <2>3. [acked EXCEPT ![u][n] = b] \in [Uploads -> [PartNumbers -> Bodies \cup {Empty}]]
    BY <2>2, Nested, Zenon
  <2>. QED
    BY <2>1, <2>2, <2>3, Zenon
<1>7. settled' \in [Uploads -> [PartNumbers -> BOOLEAN]]
  <2>1. settled \in [Uploads -> [PartNumbers -> BOOLEAN]]
    BY <1>2, Zenon DEF HistoryOK
  <2>2. ok \in BOOLEAN
    BY <1>4
  <2>3. [settled EXCEPT ![u][n] = ok] \in [Uploads -> [PartNumbers -> BOOLEAN]]
    BY <2>1, <2>2, Nested, Zenon
  <2>. QED
    BY <1>4, <2>3, Zenon
<1>8. HistoryOK'
  BY <1>2, <1>3, <1>6, <1>7, Zenon DEF HistoryOK
<1>. QED
  BY <1>1, <1>3, <1>5, <1>8, MovedTyped, Zenon

\* What is read of a part or of its digest is a block or nothing.
LEMMA BlockIs ==
  ASSUME Fitting(fs), NEW u, NEW n
  PROVE  Block(Part(u, n)) \in Contents /\ Block(PartMeta(u, n)) \in Contents
<1>1. \A x \in Bodies : <<x>> \in Contents
  BY SMTT(20) DEF Contents
<1>2. <<>> \in Contents
  BY SMTT(20) DEF Contents
<1>3. {Object, Meta} \cap {Part(u, n), PartMeta(u, n)} = {}
  <2>1. Object \in Bucketwide /\ Meta \in Bucketwide
    BY Zenon DEF Bucketwide
  <2>. QED
    BY <2>1, NamesOfUploads, Zenon
<1>4. ASSUME NEW p \in {Part(u, n), PartMeta(u, n)} PROVE Block(p) \in Contents
  <2>1. CASE p \notin tree \/ fs[p] = Empty
    BY <1>2, <2>1, Zenon DEF Block
  <2>2. CASE p \in tree /\ fs[p] # Empty
    <3>1. fs[p] \in Bodies
      BY <1>3, <1>4, <2>2, Zenon DEF Fitting, Fits, tree
    <3>. QED
      BY <1>1, <2>2, <3>1, Zenon DEF Block
  <2>. QED
    BY <2>1, <2>2, Zenon
<1>. QED
  BY <1>4, Zenon

\* Blocks put together are blocks.
LEMMA JoinedBlocks ==
  ASSUME NEW a \in Contents, NEW b \in Contents
  PROVE  a \o b \in Contents
  BY SMTT(20) DEF Contents

\* A list's length, and the position behind one of its own.
LEMMA NextPosition ==
  ASSUME NEW l \in Lists \cup {<<>>}, NEW n \in 1..(Len(l) + 1), n <= Len(l)
  PROVE  n + 1 \in 1..(Len(l) + 1)
<1>1. Len(l) \in Nat
  <2>1. l \in Seq(PartNumbers) \/ l = <<>>
    BY PartAssumption, Zenon
  <2>. QED
    BY <2>1, SMTT(20)
<1>. QED
  BY <1>1, SMTT(20)

\* complete reads a part: a block or nothing is appended.
LEMMA TypeReadPart ==
  ASSUME MultipartInv, TypeInv, NEW t \in Threads, ReadPart(t)
  PROVE  TypeInv'
<1>1. Busy(t) /\ job[t].pc = "read" /\ job[t].pc \in {"read", "digest"}
  BY SMTT(20) DEF ReadPart, Busy
<1>2. TypedRecord(job[t], env.ops) /\ Fitting(fs) /\ DOMAIN job[t] = JobFields
  BY <1>1, TypedFacts, Zenon
<1>3. UNCHANGED <<env, left>> /\ Fitting(fs') /\ HistoryOK'
  BY ReadsOnly, Zenon DEF ReadPart
<1>4. PICK b : b = Block(Part(job[t].up, Listed(t)))
  BY Zenon
<1>5. job[t].sum \o b \in Contents
  BY <1>2, <1>4, BlockIs, JoinedBlocks, Zenon DEF TypedRecord
<1>6. CASE Part(job[t].up, Listed(t)) \in tree
  <2>. DEFINE k == [job[t] EXCEPT !.pc = "digest", !.sum = @ \o b]
  <2>1. job' = [job EXCEPT ![t] = k]
    BY <1>4, <1>6, Zenon DEF ReadPart
  <2>2. /\ k.pc = "digest" /\ k.op = job[t].op /\ k.sum = job[t].sum \o b /\ k.md5s = job[t].md5s
        /\ k.seen = job[t].seen /\ k.todo = job[t].todo /\ k.list = job[t].list /\ k.at = job[t].at
        /\ k.body = job[t].body
    BY <1>2, SMTT(20) DEF JobFields
  <2>. HIDE DEF k
  <2>3. TypedRecord(k, env.ops)
    BY <1>1, <1>2, <1>5, <2>2, Zenon DEF TypedRecord, Busy
  <2>. QED
    BY <1>3, <2>1, <2>3, Advanced, Zenon
<1>7. CASE Part(job[t].up, Listed(t)) \notin tree
  <2>1. Moved(t)
    BY <1>7, Zenon DEF ReadPart, Moved
  <2>. QED
    BY <1>1, <1>3, <2>1, MovedTyped, Zenon
<1>. QED
  BY <1>6, <1>7, Zenon

\* complete reads a digest and goes to the next part of the list, or past it.
LEMMA TypeReadDigest ==
  ASSUME MultipartInv, TypeInv, NEW t \in Threads, ReadDigest(t)
  PROVE  TypeInv'
<1>1. Busy(t) /\ job[t].pc \in {"read", "digest"}
  BY SMTT(20) DEF ReadDigest, Busy
<1>2. TypedRecord(job[t], env.ops) /\ Fitting(fs) /\ DOMAIN job[t] = JobFields
  BY <1>1, TypedFacts, Zenon
<1>3. UNCHANGED <<env, left>> /\ Fitting(fs') /\ HistoryOK'
  BY ReadsOnly, Zenon DEF ReadDigest
<1>4. PICK b, n : b = Block(PartMeta(job[t].up, Listed(t))) /\ n = job[t].at + 1
  BY Zenon
<1>5. job[t].md5s \o b \in Contents
  BY <1>2, <1>4, BlockIs, JoinedBlocks, Zenon DEF TypedRecord
<1>6. n \in 1..(Len(job[t].list) + 1)
  BY <1>1, <1>2, <1>4, NextPosition, Zenon DEF TypedRecord
<1>. DEFINE k == [job[t] EXCEPT !.pc = "exists", !.at = n, !.md5s = @ \o b]
<1>7. job' = [job EXCEPT ![t] = k]
  BY <1>4, Zenon DEF ReadDigest
<1>8. /\ k.pc = "exists" /\ k.op = job[t].op /\ k.sum = job[t].sum /\ k.md5s = job[t].md5s \o b
      /\ k.seen = job[t].seen /\ k.todo = job[t].todo /\ k.list = job[t].list /\ k.at = n
      /\ k.body = job[t].body
  BY <1>2, SMTT(20) DEF JobFields
<1>. HIDE DEF k
<1>9. "exists" \notin {"read", "digest"}
  BY SMTT(20)
<1>10. TypedRecord(k, env.ops)
  BY <1>1, <1>2, <1>5, <1>6, <1>8, <1>9, Zenon DEF TypedRecord, Busy
<1>. QED
  BY <1>3, <1>7, <1>10, Advanced, Zenon

\* rewrite_meta_etag reads the metadata, or there are none and the upload is removed.
LEMMA TypeRewriteRead ==
  ASSUME MultipartInv, TypeInv, NEW t \in Threads, RewriteRead(t)
  PROVE  TypeInv'
<1>1. Busy(t)
  BY SMTT(20) DEF RewriteRead, Busy
<1>2. TypedRecord(job[t], env.ops) /\ Fitting(fs) /\ DOMAIN job[t] = JobFields
  BY <1>1, TypedFacts, Zenon
<1>3. UNCHANGED <<env, left>> /\ Fitting(fs') /\ HistoryOK'
  BY ReadsOnly, Zenon DEF RewriteRead
<1>4. CASE Meta \in tree
  <2>1. PICK s : s = fs[Meta].of
    BY Zenon
  <2>2. s \in Contents
    BY <1>2, <1>4, <2>1, Zenon DEF Fitting, Fits, tree
  <2>. DEFINE k == [job[t] EXCEPT !.pc = "rewrite", !.seen = s]
  <2>3. job' = [job EXCEPT ![t] = k]
    BY <1>4, <2>1, Zenon DEF RewriteRead
  <2>4. /\ k.pc = "rewrite" /\ k.op = job[t].op /\ k.sum = job[t].sum /\ k.md5s = job[t].md5s
        /\ k.seen = s /\ k.todo = job[t].todo /\ k.list = job[t].list /\ k.at = job[t].at
        /\ k.body = job[t].body
    BY <1>2, SMTT(20) DEF JobFields
  <2>. HIDE DEF k
  <2>5. "rewrite" \notin {"read", "digest"}
    BY SMTT(20)
  <2>6. TypedRecord(k, env.ops)
    BY <1>1, <1>2, <2>2, <2>4, <2>5, Zenon DEF TypedRecord, Busy
  <2>. QED
    BY <1>3, <2>3, <2>6, Advanced, Zenon
<1>5. CASE Meta \notin tree
  <2>1. job' = [job EXCEPT ![t].pc = "remove", ![t].todo = Below(Upload(job[t].up))]
    BY <1>5, Zenon DEF RewriteRead
  <2>. QED
    BY <1>1, <1>3, <2>1, BelowNodes, Removal, Zenon
<1>. QED
  BY <1>4, <1>5, Zenon

\* It writes what it read, with the digests of the parts as the ETag.
LEMMA TypeRewriteWrite ==
  ASSUME MultipartInv, TypeInv, NEW t \in Threads, RewriteWrite(t)
  PROVE  TypeInv'
<1>1. Busy(t)
  BY SMTT(20) DEF RewriteWrite, Busy
<1>2. TypedRecord(job[t], env.ops) /\ Fitting(fs) /\ HistoryOK
  BY <1>1, TypedFacts, Zenon
<1>3. UNCHANGED <<env, left>> /\ HistoryOK'
  BY <1>2, Zenon DEF RewriteWrite, HistoryOK, history, uploadHistory
<1>4. Fitting(fs')
  <2>1. job[t].seen \in Contents /\ job[t].md5s \in Contents /\ "multi" \in {"plain", "multi"}
    BY <1>2, Zenon DEF TypedRecord
  <2>2. Fits(Meta, [of |-> job[t].seen, etag |-> <<"multi", job[t].md5s>>])
    BY <2>1, ObjectFits, Zenon
  <2>. QED
    BY <1>2, <2>2, WriteFits, Zenon DEF RewriteWrite
<1>5. job' = [job EXCEPT ![t].pc = "remove", ![t].todo = Below(Upload(job[t].up))]
  BY Zenon DEF RewriteWrite
<1>. QED
  BY <1>1, <1>3, <1>4, <1>5, BelowNodes, Removal, Zenon

\* A request is given up; what was done stays.
LEMMA TypeAbandon ==
  ASSUME MultipartInv, TypeInv, NEW t \in Threads, Abandon(t)
  PROVE  TypeInv'
<1>1. Busy(t) /\ Moved(t) /\ UNCHANGED <<env, left, fs, stored, life, acked, settled>> /\ stray' = TRUE
  BY Zenon DEF Abandon, Moved, uploadHistory
<1>2. Fitting(fs') /\ HistoryOK'
  BY <1>1, Zenon DEF TypeInv, HistoryOK
<1>. QED
  BY <1>1, <1>2, MovedTyped, Zenon

----------------------------------------------------------------------------
\* A record with which a handler may start.
Fresh(r) ==
    /\ DOMAIN r = JobFields /\ r.sum \in Contents /\ r.md5s = <<>> /\ r.seen = <<>> /\ r.todo \subseteq Nodes
    /\ r.list \in Lists \cup {<<>>} /\ r.at = 1
    /\ r.op = "part" => r.body \in Bodies

\* A request arrives.
LEMMA Began ==
  ASSUME MultipartInv, TypeInv, NEW t \in Threads, NEW r, NEW ok, NEW next, Begin(t, r, ok, next), ok => Fresh(r),
         next \notin {"read", "digest"}, env' = env, Fitting(fs'), stray' \in BOOLEAN => HistoryOK'
  PROVE  TypeInv'
<1>1. left' \in 0..env'.requests
  <2>1. left' = left - 1 /\ left > 0 /\ left \in 0..env.requests /\ env.requests \in Nat
    <3>1. env \in World
      BY WorldAssumption, Zenon DEF MultipartInv, FilesInv
    <3>2. env.requests \in Nat
      BY <3>1, SMTT(20) DEF World
    <3>. QED
      BY <3>2, Zenon DEF Begin, TypeInv
  <2>2. PICK n : n = env.requests
    BY Zenon
  <2>3. left' \in 0..n
    BY <2>1, <2>2, SMTT(20)
  <2>. QED
    BY <2>2, <2>3, Zenon
<1>2. stray' \in BOOLEAN
  <2>1. stray \in BOOLEAN
    BY Zenon DEF TypeInv, HistoryOK
  <2>2. stray' = stray \/ \E b : stray' = (stray \/ b)
    BY Zenon DEF Begin
  <2>. QED
    BY <2>1, <2>2, Zenon
<1>3. ASSUME NEW q \in Threads PROVE TypedRecord(job'[q], env.ops)
  <2>1. TypedRecord(job[q], env.ops) /\ DOMAIN job[q] = JobFields
    BY <1>3, Zenon DEF TypeInv, MultipartInv, JobsInv, JobInv, JobOK
  <2>2. CASE ~ok
    BY <2>1, <2>2, Zenon DEF Begin
  <2>3. CASE ok /\ q = t
    <3>1. PICK m, k : m = (Active(Deletions) # {}) /\ k = [r EXCEPT !.pc = next, !.met = m]
      BY Zenon
    <3>2. job'[q] = k
      BY <2>3, <3>1, Zenon DEF Begin
    <3>3. /\ k.pc = next /\ k.op = r.op /\ k.sum = r.sum /\ k.md5s = r.md5s /\ k.seen = r.seen
          /\ k.todo = r.todo /\ k.list = r.list /\ k.at = r.at /\ k.body = r.body
      <4>1. DOMAIN r = JobFields
        BY <2>3, Zenon DEF Fresh
      <4>. QED
        BY <3>1, <4>1, SMTT(20) DEF JobFields
    <3>4. r.op \in env.ops /\ Fresh(r)
      BY <2>3, Zenon DEF Begin
    <3>5. <<>> \in Contents
      BY SMTT(20) DEF Contents
    <3>6. r.at \in 1..(Len(r.list) + 1)
      <4>1. r.list \in Seq(PartNumbers) \/ r.list = <<>>
        BY <3>4, PartAssumption, Zenon DEF Fresh
      <4>2. PICK l : l = r.list
        BY Zenon
      <4>3. Len(l) \in Nat
        BY <4>1, <4>2, SMTT(20)
      <4>4. 1 \in 1..(Len(l) + 1)
        BY <4>3, SMTT(20)
      <4>. QED
        BY <3>4, <4>2, <4>4, Zenon DEF Fresh
    <3>7. TypedRecord(k, env.ops)
      BY <3>3, <3>4, <3>5, <3>6, Zenon DEF TypedRecord, Fresh
    <3>. QED
      BY <3>2, <3>7, Zenon
  <2>4. CASE ok /\ q # t
    <3>1. \/ job'[q] = job[q]
          \/ \E m : job'[q] = [job[q] EXCEPT !.met = m]
      BY <1>3, <2>4, Zenon DEF Begin
    <3>2. CASE job'[q] = job[q]
      BY <2>1, <3>2, Zenon
    <3>3. CASE \E m : job'[q] = [job[q] EXCEPT !.met = m]
      <4>1. PICK m, j, k : j = job[q] /\ k = job'[q] /\ k = [j EXCEPT !.met = m]
        BY <3>3, Zenon
      <4>2. SameType(j, k)
        BY <2>1, <4>1, SMTT(20) DEF SameType, JobFields
      <4>3. TypedRecord(k, env.ops)
        BY <2>1, <4>1, <4>2, Zenon DEF SameType, TypedRecord
      <4>. QED
        BY <4>1, <4>3, Zenon
    <3>. QED
      BY <3>1, <3>2, <3>3, Zenon
  <2>. QED
    BY <2>2, <2>3, <2>4, Zenon
<1>4. Fitting(fs)'
  BY Zenon DEF Fitting
<1>. QED
  BY <1>1, <1>2, <1>3, <1>4, Zenon DEF TypeInv

\* The record of each request.
LEMMA PlainFresh ==
  ASSUME NEW op, op # "part"
  PROVE  Fresh(Plain(op))
<1>1. /\ DOMAIN Plain(op) = JobFields /\ Plain(op).op = op /\ Plain(op).sum = <<>> /\ Plain(op).md5s = <<>>
      /\ Plain(op).seen = <<>> /\ Plain(op).todo = {} /\ Plain(op).list = <<>> /\ Plain(op).at = 1
  BY SMTT(20) DEF Plain, NoJob, JobFields
<1>2. <<>> \in Contents
  BY SMTT(20) DEF Contents
<1>. QED
  BY <1>1, <1>2, Zenon DEF Fresh

\* The record of a request on an upload.
LEMMA UploadRecord ==
  ASSUME NEW op, NEW u, NEW r, r = OnUpload(op, u)
  PROVE  /\ DOMAIN r = JobFields /\ r.op = op /\ r.up = u /\ r.sum = <<>> /\ r.md5s = <<>>
         /\ r.seen = <<>> /\ r.todo = {} /\ r.list = <<>> /\ r.at = 1
  BY SMTT(20) DEF OnUpload, Plain, NoJob, JobFields

\* What clients send in a world is what there is.
LEMMA WorldIs ==
  ASSUME MultipartInv
  PROVE  env.bodies \subseteq Bodies /\ env.parts \subseteq PartNumbers /\ env.lists \subseteq Lists
<1>1. env \in World
  BY WorldAssumption, Zenon DEF MultipartInv, FilesInv
<1>. QED
  BY <1>1, SMTT(20) DEF World

\* The history after a request that changes none of it but whether it overlaps another.
LEMMA HistoryStays ==
  ASSUME TypeInv, UNCHANGED <<life, acked, settled>>, stored' = stored \/ stored' = FALSE
  PROVE  stray' \in BOOLEAN => HistoryOK'
  BY Zenon DEF TypeInv, HistoryOK

\* Requests for the bucket, the object and its tags.
LEMMA PlainArrivals ==
  ASSUME MultipartInv, TypeInv, NEW t \in Threads,
         CreateBucket(t) \/ DeleteBucket(t) \/ DeleteObject(t) \/ PutTagging(t) \/ DeleteTagging(t)
  PROVE  TypeInv'
<1>1. PICK op, ok, next : Begin(t, Plain(op), ok, next) /\ op # "part" /\ next \notin {"read", "digest"}
  <2>1. /\ \A op \in {"createBucket", "deleteBucket", "delete", "putTagging", "deleteTagging"} : op # "part"
        /\ \A x \in {"mkbucket", "scandata", "unlink", "mktags", "unlinktags"} : x \notin {"read", "digest"}
    BY SMTT(20)
  <2>2. CASE CreateBucket(t)
    BY <2>1, <2>2, Zenon DEF CreateBucket
  <2>3. CASE DeleteBucket(t)
    BY <2>1, <2>3, Zenon DEF DeleteBucket
  <2>4. CASE DeleteObject(t)
    BY <2>1, <2>4, Zenon DEF DeleteObject
  <2>5. CASE PutTagging(t)
    BY <2>1, <2>5, Zenon DEF PutTagging
  <2>6. CASE DeleteTagging(t)
    BY <2>1, <2>6, Zenon DEF DeleteTagging
  <2>. QED
    BY <2>2, <2>3, <2>4, <2>5, <2>6, Zenon
<1>2. /\ UNCHANGED <<env, life, acked, settled>> /\ (stored' = stored \/ stored' = FALSE)
      /\ fs' = fs \/ fs' = Make(fs, Upto(Version))
  BY Zenon DEF CreateBucket, DeleteBucket, DeleteObject, PutTagging, DeleteTagging, uploadHistory
<1>3. Fitting(fs')
  <2>1. Fitting(fs)
    BY Zenon DEF TypeInv
  <2>. QED
    BY <1>2, <2>1, MadePaths, MakeFits, Zenon
<1>4. Fresh(Plain(op))
  BY <1>1, PlainFresh, Zenon
<1>5. stray' \in BOOLEAN => HistoryOK'
  BY <1>2, HistoryStays, Zenon
<1>. QED
  BY <1>1, <1>2, <1>3, <1>4, <1>5, Began, Zenon

\* Arrivals: each begins with a typed record.
LEMMA TypePut ==
  ASSUME MultipartInv, TypeInv, NEW t \in Threads, Put(t)
  PROVE  TypeInv'
<1>1. PICK b \in env.bodies : Begin(t, [Plain("put") EXCEPT !.sum = <<b>>], Marker \in tree, "mkparent")
  BY Zenon DEF Put
<1>2. PICK r : r = [Plain("put") EXCEPT !.sum = <<b>>]
  BY Zenon
<1>3. <<b>> \in Contents
  <2>1. b \in Bodies
    BY <1>1, WorldIs, Zenon
  <2>. QED
    BY <2>1, SMTT(20) DEF Contents
<1>4. Fresh(r)
  <2>1. Fresh(Plain("put")) /\ Plain("put").op = "put"
    <3>1. "put" # "part"
      BY SMTT(20)
    <3>. QED
      BY <3>1, PlainFresh, PlainIs, Zenon
  <2>2. /\ DOMAIN r = JobFields /\ r.sum = <<b>> /\ r.md5s = Plain("put").md5s /\ r.seen = Plain("put").seen
        /\ r.todo = Plain("put").todo /\ r.list = Plain("put").list /\ r.at = Plain("put").at /\ r.op = "put"
    <3>1. DOMAIN Plain("put") = JobFields
      BY PlainIs, Zenon
    <3>2. PICK j, x : j = Plain("put") /\ x = <<b>>
      BY Zenon
    <3>3. r = [j EXCEPT !.sum = x] /\ DOMAIN j = JobFields
      BY <1>2, <3>1, <3>2, Zenon
    <3>4. /\ DOMAIN r = JobFields /\ r.sum = x /\ r.md5s = j.md5s /\ r.seen = j.seen
          /\ r.todo = j.todo /\ r.list = j.list /\ r.at = j.at /\ r.op = j.op
      BY <3>3, SMTT(20) DEF JobFields
    <3>. QED
      BY <2>1, <3>2, <3>4, Zenon
  <2>3. "put" # "part"
    BY SMTT(20)
  <2>. QED
    BY <1>3, <2>1, <2>2, <2>3, Zenon DEF Fresh
<1>5. UNCHANGED <<env, life, acked, settled, stored>> /\ Fitting(fs')
  BY Zenon DEF Put, uploadHistory, TypeInv
<1>6. stray' \in BOOLEAN => HistoryOK'
  BY <1>5, HistoryStays, Zenon
<1>7. "mkparent" \notin {"read", "digest"}
  BY SMTT(20)
<1>. QED
  BY <1>1, <1>2, <1>4, <1>5, <1>6, <1>7, Began, Zenon

\* An upload becomes known.
LEMMA TypeCreateUpload ==
  ASSUME MultipartInv, TypeInv, NEW t \in Threads, CreateUpload(t)
  PROVE  TypeInv'
<1>1. PICK u : Begin(t, OnUpload("createUpload", u), Marker \in tree, "mkupload")
  BY Zenon DEF CreateUpload
<1>2. PICK r : r = OnUpload("createUpload", u)
  BY Zenon
<1>3. "mkupload" \notin {"read", "digest"} /\ "createUpload" # "part" /\ <<>> \in Contents
  BY SMTT(20) DEF Contents
<1>4. Fresh(r)
  <2>1. /\ DOMAIN r = JobFields /\ r.op = "createUpload" /\ r.sum = <<>> /\ r.md5s = <<>>
        /\ r.seen = <<>> /\ r.todo = {} /\ r.list = <<>> /\ r.at = 1
    BY <1>2, UploadRecord
  <2>. QED
    BY <1>3, <2>1, Zenon DEF Fresh
<1>5. UNCHANGED <<env, life, acked, settled, stored>> /\ Fitting(fs')
  BY Zenon DEF CreateUpload, uploadHistory, TypeInv
<1>6. stray' \in BOOLEAN => HistoryOK'
  BY <1>5, HistoryStays, Zenon
<1>. QED
  BY <1>1, <1>2, <1>3, <1>4, <1>5, <1>6, Began, Zenon

\* A part is sent again: it is not settled until it is answered.
LEMMA TypeUploadPart ==
  ASSUME MultipartInv, TypeInv, NEW t \in Threads, UploadPart(t)
  PROVE  TypeInv'
<1>1. PICK u \in Uploads, n \in env.parts, b \in env.bodies :
         /\ Begin(t, [OnUpload("part", u) EXCEPT !.num = n, !.body = b], Upload(u) \in tree, "openpart")
         /\ settled' = [settled EXCEPT ![u][n] = FALSE]
  BY Zenon DEF UploadPart
<1>2. PICK j, r : j = OnUpload("part", u) /\ r = [j EXCEPT !.num = n, !.body = b]
  BY Zenon
<1>3. "openpart" \notin {"read", "digest"} /\ <<>> \in Contents
  BY SMTT(20) DEF Contents
<1>4. Fresh(r)
  <2>1. /\ DOMAIN j = JobFields /\ j.op = "part" /\ j.sum = <<>> /\ j.md5s = <<>>
        /\ j.seen = <<>> /\ j.todo = {} /\ j.list = <<>> /\ j.at = 1
    BY <1>2, UploadRecord
  <2>2. /\ DOMAIN r = JobFields /\ r.op = j.op /\ r.sum = j.sum /\ r.md5s = j.md5s
        /\ r.seen = j.seen /\ r.todo = j.todo /\ r.list = j.list /\ r.at = j.at /\ r.body = b
    BY <1>2, <2>1, SMTT(20) DEF JobFields
  <2>3. b \in Bodies
    BY WorldIs, Zenon
  <2>. QED
    BY <1>3, <2>1, <2>2, <2>3, Zenon DEF Fresh
<1>5. UNCHANGED <<env, life, acked, stored>> /\ Fitting(fs') /\ HistoryOK
  BY Zenon DEF UploadPart, TypeInv
<1>6. settled' \in [Uploads -> [PartNumbers -> BOOLEAN]]
  <2>1. settled \in [Uploads -> [PartNumbers -> BOOLEAN]]
    BY <1>5, Zenon DEF HistoryOK
  <2>. QED
    BY <1>1, <2>1, Nested, Zenon
<1>7. stray' \in BOOLEAN => HistoryOK'
  BY <1>5, <1>6, Zenon DEF HistoryOK
<1>8. Begin(t, r, Upload(u) \in tree, "openpart")
  BY <1>1, <1>2, Zenon
<1>. QED
  BY <1>3, <1>4, <1>5, <1>7, <1>8, Began, Zenon

\* A list of parts is taken with the request.
LEMMA TypeComplete ==
  ASSUME MultipartInv, TypeInv, NEW t \in Threads, Complete(t)
  PROVE  TypeInv'
<1>1. PICK u \in Uploads, list \in env.lists :
         Begin(t, [OnUpload("complete", u) EXCEPT !.list = list], Upload(u) \in tree, "writer")
  BY Zenon DEF Complete
<1>2. PICK j, r : j = OnUpload("complete", u) /\ r = [j EXCEPT !.list = list]
  BY Zenon
<1>3. "writer" \notin {"read", "digest"} /\ <<>> \in Contents /\ "complete" # "part"
  BY SMTT(20) DEF Contents
<1>4. Fresh(r)
  <2>1. /\ DOMAIN j = JobFields /\ j.op = "complete" /\ j.sum = <<>> /\ j.md5s = <<>>
        /\ j.seen = <<>> /\ j.todo = {} /\ j.at = 1
    BY <1>2, UploadRecord
  <2>2. /\ DOMAIN r = JobFields /\ r.op = j.op /\ r.sum = j.sum /\ r.md5s = j.md5s
        /\ r.seen = j.seen /\ r.todo = j.todo /\ r.list = list /\ r.at = j.at
    BY <1>2, <2>1, SMTT(20) DEF JobFields
  <2>3. list \in Lists
    BY WorldIs, Zenon
  <2>. QED
    BY <1>3, <2>1, <2>2, <2>3, Zenon DEF Fresh
<1>5. UNCHANGED <<env, life, acked, settled, stored>> /\ Fitting(fs')
  BY Zenon DEF Complete, uploadHistory, TypeInv
<1>6. stray' \in BOOLEAN => HistoryOK'
  BY <1>5, HistoryStays, Zenon
<1>. QED
  BY <1>1, <1>2, <1>3, <1>4, <1>5, <1>6, Began, Zenon

\* An upload is given up.
LEMMA TypeAbort ==
  ASSUME MultipartInv, TypeInv, NEW t \in Threads, Abort(t)
  PROVE  TypeInv'
<1>1. PICK u \in Uploads :
         Begin(t, [OnUpload("abort", u) EXCEPT !.todo = Below(Upload(u))], Upload(u) \in tree, "remove")
  BY Zenon DEF Abort
<1>2. PICK S, j, r : S = Below(Upload(u)) /\ j = OnUpload("abort", u) /\ r = [j EXCEPT !.todo = S]
  BY Zenon
<1>3. "remove" \notin {"read", "digest"} /\ <<>> \in Contents /\ "abort" # "part"
  BY SMTT(20) DEF Contents
<1>4. Fresh(r)
  <2>1. /\ DOMAIN j = JobFields /\ j.op = "abort" /\ j.sum = <<>> /\ j.md5s = <<>>
        /\ j.seen = <<>> /\ j.list = <<>> /\ j.at = 1
    BY <1>2, UploadRecord
  <2>2. /\ DOMAIN r = JobFields /\ r.op = j.op /\ r.sum = j.sum /\ r.md5s = j.md5s
        /\ r.seen = j.seen /\ r.todo = S /\ r.list = j.list /\ r.at = j.at
    BY <1>2, <2>1, SMTT(20) DEF JobFields
  <2>3. S \subseteq Nodes
    BY <1>2, BelowNodes, Zenon
  <2>. QED
    BY <1>3, <2>1, <2>2, <2>3, Zenon DEF Fresh
<1>5. UNCHANGED <<env, life, acked, settled, stored>> /\ Fitting(fs')
  BY Zenon DEF Abort, uploadHistory, TypeInv
<1>6. stray' \in BOOLEAN => HistoryOK'
  BY <1>5, HistoryStays, Zenon
<1>. QED
  BY <1>1, <1>2, <1>3, <1>4, <1>5, <1>6, Began, Zenon

\* Before the first request.
LEMMA TypeInit ==
  ASSUME Init
  PROVE  TypeInv
<1>1. env \in World /\ env.requests \in Nat /\ env.start \in {"nothing", "bucket", "uploads", "nested"}
  <2>1. env \in World
    BY WorldAssumption, Zenon DEF Init
  <2>. QED
    BY <2>1, SMTT(20) DEF World
<1>2. Object \notin Found(env.start) /\ Meta \notin Found(env.start)
  <2>1. ASSUME NEW p \in Found(env.start)
        PROVE  p \in {Root, Marker, Data, MetaDir, Dir, Nest} \/ \E u \in Uploads : p \in Upto(Parts(u)) \cup {Info(u)}
    <3>1. CASE env.start = "nothing"
      BY <2>1, <3>1, SMTT(20) DEF Found
    <3>2. CASE env.start = "bucket"
      BY <2>1, <3>2, SMTT(20) DEF Found
    <3>3. CASE env.start = "uploads"
      BY <2>1, <3>3, SMTT(20) DEF Found
    <3>4. CASE env.start = "nested"
      BY <2>1, <3>4, SMTT(20) DEF Found
    <3>. QED
      BY <1>1, <3>1, <3>2, <3>3, <3>4, SMTT(20)
  <2>2. {Object, Meta} \cap {Root, Marker, Data, MetaDir, Dir, Nest} = {}
    BY NamesOfBucket, SMTT(20)
  <2>. QED
    BY <2>1, <2>2, MadePaths, Zenon
<1>3. Fitting(fs)
  <2>1. fs = [p \in Found(env.start) |-> Empty]
    BY Zenon DEF Init
  <2>. QED
    BY <1>2, <2>1, Zenon DEF Fitting, Fits
<1>4. left \in 0..env.requests
  <2>1. PICK n : n = env.requests
    BY Zenon
  <2>2. n \in 0..n
    BY <1>1, <2>1, SMTT(20)
  <2>. QED
    BY <2>1, <2>2, Zenon DEF Init
<1>5. HistoryOK
  <2>1. /\ stray = FALSE /\ stored = FALSE
        /\ life = [u \in Uploads |-> IF env.start = "uploads" THEN "known" ELSE "none"]
        /\ acked = [u \in Uploads |-> [n \in PartNumbers |-> Empty]]
        /\ settled = [u \in Uploads |-> [n \in PartNumbers |-> TRUE]]
    BY Zenon DEF Init
  <2>2. life \in [Uploads -> {"none", "known", "aborted"}]
    BY <2>1, SMTT(20)
  <2>3. acked \in [Uploads -> [PartNumbers -> Bodies \cup {Empty}]]
    BY <2>1, SMTT(20)
  <2>4. settled \in [Uploads -> [PartNumbers -> BOOLEAN]]
    BY <2>1, SMTT(20)
  <2>. QED
    BY <2>1, <2>2, <2>3, <2>4, Zenon DEF HistoryOK
<1>6. \A t \in Threads : TypedRecord(job[t], env.ops)
  <2>1. job = [t \in Threads |-> NoJob]
    BY Zenon DEF Init
  <2>. QED
    BY <2>1, NoJobTyped, Zenon
<1>. QED
  BY <1>3, <1>4, <1>5, <1>6, Zenon DEF TypeInv

\* Every step keeps the types.
LEMMA TypeStep ==
  ASSUME MultipartInv, TypeInv, [Next]_vars
  PROVE  TypeInv'
<1>1. CASE UNCHANGED vars
  <2>1. UNCHANGED <<fs, env, left, job, history>> /\ UNCHANGED <<stray, stored, life, acked, settled>>
    BY <1>1, Zenon DEF vars, history, uploadHistory
  <2>. QED
    BY <2>1, Zenon DEF TypeInv, Fitting, HistoryOK
<1>2. ASSUME NEW t \in Threads, Arrive(t) PROVE TypeInv'
  BY <1>2, PlainArrivals, TypePut, TypeCreateUpload, TypeUploadPart, TypeComplete, TypeAbort, Zenon DEF Arrive
<1>3. ASSUME NEW t \in Threads, Handle(t) PROVE TypeInv'
  <2>1. CASE \/ MakeBucket(t) \/ MarkBucket(t) \/ ScanData(t) \/ MakeParent(t) \/ OpenTmp(t)
             \/ UnlinkObject(t) \/ Prune(t) \/ MakeTagDir(t) \/ WriteTags(t) \/ UnlinkTags(t)
             \/ MakeUpload(t) \/ OpenWriter(t) \/ PartExists(t)
    BY <2>1, PlainSteps, Zenon
  <2>2. CASE ScanVersions(t) \/ Remove(t) \/ Removed(t) \/ Rename(t) \/ Finish(t) \/ WriteInfo(t)
    BY <2>2, TypeScanVersions, TypeRemove, TypeRemoved, TypeRename, TypeFinish, TypeWriteInfo, Zenon
  <2>3. CASE OpenPart(t) \/ WritePart(t) \/ WritePartMeta(t) \/ ReadPart(t) \/ ReadDigest(t)
             \/ RewriteRead(t) \/ RewriteWrite(t)
    BY <2>3, TypeOpenPart, TypeWritePart, TypeWritePartMeta, TypeReadPart, TypeReadDigest,
       TypeRewriteRead, TypeRewriteWrite, Zenon
  <2>. QED
    BY <1>3, <2>1, <2>2, <2>3, Zenon DEF Handle
<1>4. ASSUME NEW t \in Threads, Abandon(t) PROVE TypeInv'
  BY <1>4, TypeAbandon, Zenon
<1>. QED
  BY <1>1, <1>2, <1>3, <1>4, Zenon DEF Next

\* Files, records and history have their types, whatever overlaps: an object is a sequence of bodies that
\* were sent, however many handlers that read, write and remove its parts are stopped half-way.
THEOREM TypesHold == Spec => []TypeOK
<1>1. Init => TypeInv
  BY TypeInit
<1>2. MultipartInv /\ TypeInv /\ [Next]_vars => TypeInv'
  BY TypeStep
<1>3. MultipartInv /\ TypeInv => TypeOK
  <2>1. SUFFICES ASSUME MultipartInv, TypeInv PROVE TypeOK
    BY Zenon
  <2>2. tree \subseteq Files \cup Dirs /\ env \in Worlds /\ left \in 0..env.requests /\ DOMAIN job = Threads
    BY <2>1, Zenon DEF MultipartInv, FilesInv, JobsInv, Nodes, TypeInv
  <2>3. /\ Object \in tree => fs[Object] \in Contents
        /\ Meta \in tree => fs[Meta].of \in Contents /\ fs[Meta].etag \in {"plain", "multi"} \X Contents
        /\ \A p \in tree \ {Object, Meta} : fs[p] \in Bodies \cup {Empty}
    BY <2>1, Zenon DEF TypeInv, Fitting, Fits, tree
  <2>4. ASSUME NEW t \in Threads
        PROVE  /\ ~Busy(t) => job[t] = NoJob
               /\ Busy(t) => job[t].op \in env.ops
               /\ {job[t].sum, job[t].md5s, job[t].seen} \subseteq Contents
               /\ job[t].todo \subseteq Files \cup Dirs
               /\ job[t].list \in Lists \cup {<<>>} /\ job[t].at \in 1..(Len(job[t].list) + 1)
    BY <2>1, <2>4, Zenon DEF TypeInv, TypedRecord, MultipartInv, JobsInv, JobInv, JobOK, Busy, Nodes
  <2>5. /\ {stray, stored} \subseteq BOOLEAN
        /\ life \in [Uploads -> {"none", "known", "aborted"}]
        /\ acked \in [Uploads -> [PartNumbers -> Bodies \cup {Empty}]]
        /\ settled \in [Uploads -> [PartNumbers -> BOOLEAN]]
    BY <2>1, Zenon DEF TypeInv, HistoryOK
  <2>. QED
    BY <2>2, <2>3, <2>4, <2>5, Zenon DEF TypeOK
<1>. QED
  BY <1>1, <1>2, <1>3, MultipartInvariant, PTL DEF Spec
=============================================================================
