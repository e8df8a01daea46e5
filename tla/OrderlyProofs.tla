---------------------------- MODULE OrderlyProofs ----------------------------
(***************************************************************************)
(* Proofs about one bucket's handlers in the worlds of orderly clients     *)
(* (Disciplined of Multipart), however many threads, uploads and parts     *)
(* there are.  MultipartInv of MultipartProofs says nothing of contents;   *)
(* OrderInv adds what each handler relies on and what the parts, their     *)
(* digests and the object hold: what upload_part has written stays, the    *)
(* parts complete_multipart has read are the first of its list, a removal  *)
(* has found exactly what is left of its upload.  One handler's step lets  *)
(* the others keep theirs because orderly handlers own what they touch     *)
(* (Owns): Acting is the frame of every step.                              *)
(*                                                                         *)
(* OrderInv gives PartsKept and ETagDescribes, and in the second half,     *)
(* step by step, that Multipart implements AtomicUploads.                  *)
(***************************************************************************)
EXTENDS MultipartProofs, WellFoundedInduction

\* What a file adds to a sequence of blocks (Block, of any state of the files).
BlockOf(f, p) == IF p \notin DOMAIN f \/ f[p] = Empty THEN <<>> ELSE <<f[p]>>

\* upload_part works at a part no completion may list, in an upload that lasts, and what it has written stays.
Sending(j, f, s) == j.op = "part" =>
    /\ ~s[j.up][j.num] /\ j.body \in Bodies /\ Upload(j.up) \in DOMAIN f
    /\ j.pc = "writepart" => j.linked /\ Part(j.up, j.num) \in DOMAIN f
    /\ j.pc = "partmeta" => Part(j.up, j.num) \in DOMAIN f /\ f[Part(j.up, j.num)] = j.body
\* The removal of an upload still has to remove exactly what is left of it.
Clearing(j, f) == j.pc = "remove" => j.op \in {"complete", "abort"} /\ j.todo = Under(j.up) \cap DOMAIN f
\* The parts read so far are the first of the list, one after the other.
Got(j) == IF j.pc = "digest" THEN j.at ELSE j.at - 1
Joins(g, j, f) ==
    /\ g[0] = <<>> /\ j.sum = g[Got(j)]
    /\ \A i \in 1..Got(j) : Part(j.up, j.list[i]) \in DOMAIN f /\ g[i] = g[i - 1] \o BlockOf(f, Part(j.up, j.list[i]))
Gathering(j, f) == j.op = "complete" =>
    /\ j.pc # "remove" => Upload(j.up) \in DOMAIN f
    /\ j.list \in Lists /\ j.at \in Nat \ {0}
    /\ j.pc \in {"read", "digest"} => j.at <= Len(j.list)
    /\ j.pc = "rename" => Len(j.list) < j.at
    /\ j.pc \in {"writer", "mkparent", "open"} => j.at = 1 /\ j.sum = <<>>
    /\ HasTmp(j) => j.at <= Len(j.list) + 1 /\ \E g : Joins(g, j, f)
    /\ IF j.pc = "digest" THEN j.sum = j.md5s \o BlockOf(f, Part(j.up, j.list[j.at])) ELSE j.sum = j.md5s
\* From the rename on the object is what the writer has written; a deletion has unlinked it before its metadata.
Replacing(j, f) ==
    /\ j.op = "put" => \E b \in Bodies : j.sum = <<b>>
    /\ j.pc \in {"finish", "readmeta", "rewrite"} => Object \in DOMAIN f /\ f[Object] = j.sum /\ MetaDir \in DOMAIN f
    /\ j.pc = "readmeta" => Meta \in DOMAIN f /\ f[Meta].of = j.sum
    /\ j.pc = "rewrite" => j.seen = j.sum
    /\ j.pc = "prune" => Object \notin DOMAIN f
Orderly(j, f, s) ==
    j.op # "deleteBucket" /\ Sending(j, f, s) /\ Clearing(j, f) /\ Gathering(j, f) /\ Replacing(j, f)

\* Somebody removes the upload.
Leaving(u) == \E t \in Threads : job[t].pc = "remove" /\ job[t].up = u
\* A part nobody is sending is what was acknowledged last, with its digest.
PartInv(u, n) ==
    /\ life[u] = "none" => acked[u][n] = Empty /\ settled[u][n] /\ Part(u, n) \notin tree /\ PartMeta(u, n) \notin tree
    /\ Part(u, n) \in tree => fs[Part(u, n)] \in Bodies \cup {Empty}
    /\ settled[u][n] /\ Upload(u) \in tree /\ ~Leaving(u) =>
          IF acked[u][n] = Empty THEN Part(u, n) \notin tree /\ PartMeta(u, n) \notin tree
          ELSE /\ Part(u, n) \in tree /\ PartMeta(u, n) \in tree
               /\ fs[Part(u, n)] = acked[u][n] /\ fs[PartMeta(u, n)] = acked[u][n]
\* The object's metadata is of the object, its ETag included.
Described == Object \in tree => Meta \in tree /\ fs[Meta].of = fs[Object] /\ fs[Meta].etag[2] = fs[Object]
\* Without a bucket nobody but its creator is at work.
MarkerInv == Marker \notin tree =>
    (\A u \in Uploads : Upload(u) \notin tree) /\ \A t \in Threads : Busy(t) => job[t].op = "createBucket"
Typed ==
    DOMAIN acked = Uploads /\ DOMAIN settled = Uploads
    /\ \A u \in Uploads : DOMAIN acked[u] = PartNumbers /\ DOMAIN settled[u] = PartNumbers
OrderInv == env.orderly =>
    /\ Disciplined /\ MarkerInv /\ Typed
    /\ \A t \in Threads : Orderly(job[t], fs, settled)
    /\ \A u \in Uploads, n \in PartNumbers : PartInv(u, n)
    /\ Described \/ \E t \in Threads : job[t].pc = "finish"

----------------------------------------------------------------------------
(* The frame of a step. *)

\* The paths only one handler at a time may touch, of those who are orderly; and the others.
Owns(j, p) ==
    \/ j.op = "part" /\ p \in {Part(j.up, j.num), PartMeta(j.up, j.num)}
    \/ j.op \in {"createUpload", "complete", "abort"} /\ p \in Under(j.up)
    \/ j.op \in {"put", "delete", "complete"} /\ p \in {Object, Meta}
Common == Bucketwide \ {Object, Meta}
Same(f, g, p) == (p \in DOMAIN g <=> p \in DOMAIN f) /\ (p \in DOMAIN f => g[p] = f[p])
Changes(j, f, g) ==
    /\ MetaDir \in DOMAIN f => MetaDir \in DOMAIN g
    /\ Marker \in DOMAIN f => Marker \in DOMAIN g
    /\ \A p : p \in Common \/ Owns(j, p) \/ Same(f, g, p)

\* What Disciplined says of two requests.
Apart(j, k) ==
    /\ ~({j.op, k.op} \subseteq {"put", "delete", "complete"})
    /\ j.up = k.up /\ j.up # Empty => j.op = "part" /\ k.op = "part" /\ j.num # k.num

\* Records that differ in what the invariant does not speak of.
Like(j, k) ==
    /\ k.op = j.op /\ k.pc = j.pc /\ k.up = j.up /\ k.num = j.num /\ k.body = j.body /\ k.list = j.list /\ k.at = j.at
    /\ k.sum = j.sum /\ k.md5s = j.md5s /\ k.seen = j.seen /\ k.todo = j.todo
    /\ j.op = "part" => (k.linked <=> j.linked)

LEMMA LikeOrderly ==
  ASSUME NEW j, NEW k, Like(j, k), NEW f, NEW s, Orderly(j, f, s)
  PROVE  Orderly(k, f, s)
<1>1. k.op # "deleteBucket"
  BY SMTT(20) DEF Orderly, Like
<1>2. Sending(k, f, s)
  BY SMTT(20) DEF Orderly, Like, Sending
<1>3. Clearing(k, f)
  BY SMTT(20) DEF Orderly, Like, Clearing
<1>4. Gathering(k, f)
  <2>1. Got(k) = Got(j) /\ (HasTmp(k) <=> HasTmp(j))
    BY Zenon DEF Got, HasTmp, Like
  <2>2. ASSUME NEW g, Joins(g, j, f) PROVE Joins(g, k, f)
    BY <2>1, <2>2, Zenon DEF Joins, Like
  <2>3. k.op = j.op /\ k.pc = j.pc /\ k.up = j.up /\ k.list = j.list /\ k.at = j.at /\ k.sum = j.sum /\ k.md5s = j.md5s
    BY Zenon DEF Like
  <2>4. Gathering(j, f)
    BY Zenon DEF Orderly
  <2>. QED
    BY <2>1, <2>2, <2>3, <2>4, Zenon DEF Gathering
<1>5. Replacing(k, f)
  BY SMTT(20) DEF Orderly, Like, Replacing
<1>. QED
  BY <1>1, <1>2, <1>3, <1>4, <1>5, Zenon DEF Orderly

\* None of what one handler touches is another's, if they are orderly.
LEMMA NotOwned ==
  ASSUME NEW j, NEW k, Apart(j, k), JobOK(k), k.pc # "idle"
  PROVE  /\ k.op = "part" => ~Owns(j, Part(k.up, k.num)) /\ ~Owns(j, PartMeta(k.up, k.num)) /\ ~Owns(j, Upload(k.up))
         /\ k.op \in {"createUpload", "complete", "abort"} => \A p \in Under(k.up) : ~Owns(j, p)
         /\ k.op \in {"put", "delete", "complete"} => ~Owns(j, Object) /\ ~Owns(j, Meta)
<1>0. k.op \in UploadOps => k.up \in Uploads /\ k.up # Empty
  BY EmptyAssumption, Zenon DEF JobOK
<1>1. ASSUME NEW u, NEW n PROVE Part(u, n) \in Under(j.up) => n \in PartNumbers /\ u = j.up
  BY NamesOfUploads, SMTT(20) DEF Under
<1>2. ASSUME NEW u, NEW n PROVE PartMeta(u, n) \in Under(j.up) => n \in PartNumbers /\ u = j.up
  <2>1. SUFFICES ASSUME PartMeta(u, n) \in Under(j.up) PROVE n \in PartNumbers /\ u = j.up
    BY Zenon
  <2>2. PartMeta(u, n) # Upload(j.up) /\ PartMeta(u, n) # Info(j.up) /\ PartMeta(u, n) # Parts(j.up)
    BY NamesOfUploads, Zenon
  <2>3. PICK m \in PartNumbers : PartMeta(u, n) \in {Part(j.up, m), PartMeta(j.up, m)}
    BY <2>1, <2>2, Zenon DEF Under
  <2>4. Part(j.up, m) # PartMeta(u, n)
    BY SMTT(20) DEF Part, PartMeta
  <2>5. PartMeta(u, n) = PartMeta(j.up, m)
    BY <2>3, <2>4, Zenon
  <2>6. u = j.up /\ n = m
    BY <2>5, SMTT(20) DEF PartMeta
  <2>. QED
    BY <2>3, <2>6, Zenon
<1>3. ASSUME NEW u PROVE Upload(u) \in Under(j.up) => u = j.up
  <2>1. Upload(u) \in Under(u)
    BY Zenon DEF Under
  <2>. QED
    BY <2>1, UnderApart, Zenon
<1>4. \A p \in Under(j.up) \cup Under(k.up) : p \notin {Object, Meta}
  BY UnderNotBucketwide, SMTT(20) DEF Bucketwide
<1>5. CASE k.op = "part"
  <2>1. k.up # Empty
    BY <1>0, <1>5, SMTT(20) DEF UploadOps
  <2>2. {Part(k.up, k.num), PartMeta(k.up, k.num), Upload(k.up)} \cap {Object, Meta} = {}
    BY NamesOfUploads, SMTT(20) DEF Bucketwide
  <2>3. CASE j.op = "part"
    <3>1. j.up # k.up \/ j.num # k.num
      BY <2>1, <2>3, <1>5, Zenon DEF Apart
    <3>2. /\ Part(k.up, k.num) \notin {Part(j.up, j.num), PartMeta(j.up, j.num)}
          /\ PartMeta(k.up, k.num) \notin {Part(j.up, j.num), PartMeta(j.up, j.num)}
          /\ Upload(k.up) \notin {Part(j.up, j.num), PartMeta(j.up, j.num)}
      BY <3>1, NamesOfUploads, SMTT(20)
    <3>3. j.op \notin {"createUpload", "complete", "abort"} /\ k.op \notin {"createUpload", "complete", "abort", "put", "delete"}
      BY <1>5, <2>3, SMTT(20)
    <3>. QED
      BY <2>2, <3>2, <3>3, Zenon DEF Owns
  <2>4. CASE j.op # "part"
    <3>1. j.up # k.up
      BY <2>1, <2>4, <1>5, Zenon DEF Apart
    <3>2. k.op \notin {"createUpload", "complete", "abort", "put", "delete"}
      BY <1>5, SMTT(20)
    <3>. QED
      BY <1>1, <1>2, <1>3, <2>2, <2>4, <3>1, <3>2, Zenon DEF Owns
  <2>. QED
    BY <2>3, <2>4, Zenon
<1>6. CASE k.op \in {"createUpload", "complete", "abort"}
  <2>1. k.up # Empty /\ k.op # "part"
    BY <1>0, <1>6, SMTT(20) DEF UploadOps
  <2>2. j.up # k.up
    BY <2>1, Zenon DEF Apart
  <2>3. ASSUME NEW p \in Under(k.up) PROVE p \notin Under(j.up) /\ p \notin {Part(j.up, j.num), PartMeta(j.up, j.num)}
    <3>1. p \notin Under(j.up)
      BY <2>2, UnderApart, Zenon
    <3>2. \A u, n : Part(u, n) \in Under(k.up) => u = k.up
      BY NamesOfUploads, SMTT(20) DEF Under
    <3>3. \A u, n : PartMeta(u, n) \in Under(k.up) => u = k.up
      BY NamesOfUploads, SMTT(20) DEF Under
    <3>. QED
      BY <2>2, <3>1, <3>2, <3>3, Zenon
  <2>4. ASSUME NEW p \in Under(k.up) PROVE ~Owns(j, p)
    BY <1>4, <2>3, Zenon DEF Owns
  <2>5. k.op \in {"put", "delete", "complete"} => k.op = "complete" /\ j.op \notin {"put", "delete", "complete"}
    BY <1>6, SMTT(20) DEF Apart
  <2>6. {Object, Meta} \cap Under(j.up) = {} /\ {Object, Meta} \cap {Part(j.up, j.num), PartMeta(j.up, j.num)} = {}
    BY <1>4, NamesOfUploads, SMTT(20) DEF Bucketwide
  <2>. QED
    BY <2>1, <2>4, <2>5, <2>6, Zenon DEF Owns
<1>7. CASE k.op \notin {"part", "createUpload", "complete", "abort"}
  <2>1. k.op \in {"put", "delete", "complete"} => j.op \notin {"put", "delete", "complete"}
    BY SMTT(20) DEF Apart
  <2>2. {Object, Meta} \cap Under(j.up) = {} /\ {Object, Meta} \cap {Part(j.up, j.num), PartMeta(j.up, j.num)} = {}
    BY <1>4, NamesOfUploads, SMTT(20) DEF Bucketwide
  <2>. QED
    BY <1>7, <2>1, <2>2, Zenon DEF Owns
<1>. QED
  BY <1>5, <1>6, <1>7, Zenon

\* A step of one orderly handler leaves the others what they rely on.
LEMMA Elsewhere ==
  ASSUME NEW j, NEW k, Apart(j, k), JobOK(k), k.pc # "idle", NEW f, NEW g, Changes(j, f, g), NEW s, NEW s2,
         Orderly(k, f, s), k.op = "part" => s2[k.up][k.num] = s[k.up][k.num]
  PROVE  Orderly(k, g, s2)
<1>1. /\ k.op = "part" => ~Owns(j, Part(k.up, k.num)) /\ ~Owns(j, PartMeta(k.up, k.num)) /\ ~Owns(j, Upload(k.up))
      /\ k.op \in {"createUpload", "complete", "abort"} => \A p \in Under(k.up) : ~Owns(j, p)
      /\ k.op \in {"put", "delete", "complete"} => ~Owns(j, Object) /\ ~Owns(j, Meta)
  BY NotOwned, Zenon
<1>2. \A n : {Part(k.up, n), Upload(k.up)} \cap Common = {}
  BY NamesOfUploads, Zenon DEF Common
<1>3. Under(k.up) \cap Common = {} /\ Object \notin Common /\ Meta \notin Common
  BY UnderNotBucketwide, Zenon DEF Common
<1>4. Staged(k.op, k.pc) /\ (k.op = "part" => k.num \in PartNumbers)
  BY Zenon DEF JobOK
<1>5. Sending(k, g, s2)
  <2>1. SUFFICES ASSUME k.op = "part" PROVE Sending(k, g, s2)
    BY Zenon DEF Sending
  <2>2. Same(f, g, Part(k.up, k.num)) /\ Same(f, g, Upload(k.up))
    BY <1>1, <1>2, <2>1, Zenon DEF Changes
  <2>. QED
    BY <2>1, <2>2, Zenon DEF Orderly, Sending, Same
<1>6. Clearing(k, g)
  <2>1. SUFFICES ASSUME k.pc = "remove" PROVE Clearing(k, g)
    BY Zenon DEF Clearing
  <2>2. k.op \in {"complete", "abort"} /\ k.todo = Under(k.up) \cap DOMAIN f
    BY <2>1, Zenon DEF Orderly, Clearing
  <2>3. \A p \in Under(k.up) : Same(f, g, p)
    BY <1>1, <1>3, <2>2, Zenon DEF Changes
  <2>. QED
    BY <2>2, <2>3, Zenon DEF Clearing, Same
<1>7. Gathering(k, g)
  <2>1. SUFFICES ASSUME k.op = "complete" PROVE Gathering(k, g)
    BY Zenon DEF Gathering
  <2>2. \A p \in Under(k.up) : Same(f, g, p)
    BY <1>1, <1>3, <2>1, Zenon DEF Changes
  <2>3. Upload(k.up) \in Under(k.up) /\ \A n \in PartNumbers : Part(k.up, n) \in Under(k.up)
    BY Zenon DEF Under
  <2>4. Gathering(k, f)
    BY Zenon DEF Orderly
  <2>5. k.list \in Seq(PartNumbers) /\ k.at \in Nat \ {0}
    BY <2>1, <2>4, PartAssumption, Zenon DEF Gathering
  <2>6. ASSUME NEW i, i \in 1..Len(k.list)
        PROVE  Same(f, g, Part(k.up, k.list[i])) /\ BlockOf(g, Part(k.up, k.list[i])) = BlockOf(f, Part(k.up, k.list[i]))
    <3>1. k.list[i] \in PartNumbers
      BY <2>5, <2>6, SMTT(20)
    <3>2. Same(f, g, Part(k.up, k.list[i]))
      BY <2>2, <2>3, <3>1, Zenon
    <3>. QED
      BY <3>2, Zenon DEF Same, BlockOf
  <2>7. HasTmp(k) => \E h : Joins(h, k, g)
    <3>1. SUFFICES ASSUME HasTmp(k) PROVE \E h : Joins(h, k, g)
      BY Zenon
    <3>2. PICK h : Joins(h, k, f)
      BY <2>1, <2>4, <3>1, Zenon DEF Gathering
    <3>3. Got(k) \in Nat /\ Got(k) <= Len(k.list)
      BY <2>1, <2>4, <2>5, <3>1, SMTT(20) DEF Gathering, Got
    <3>4. \A i \in 1..Got(k) : i \in 1..Len(k.list)
      BY <2>5, <3>3, SMTT(20)
    <3>5. Joins(h, k, g)
      BY <2>6, <3>2, <3>4, Zenon DEF Joins, Same
    <3>. QED
      BY <3>5, Zenon
  <2>8. k.pc = "digest" => BlockOf(g, Part(k.up, k.list[k.at])) = BlockOf(f, Part(k.up, k.list[k.at]))
    <3>1. k.pc = "digest" => k.at \in 1..Len(k.list)
      BY <2>1, <2>4, <2>5, SMTT(20) DEF Gathering
    <3>. QED
      BY <2>6, <3>1, Zenon
  <2>9. Same(f, g, Upload(k.up))
    BY <2>2, <2>3, Zenon
  <2>. QED
    BY <2>1, <2>4, <2>7, <2>8, <2>9, Zenon DEF Gathering, Same
<1>8. Replacing(k, g)
  <2>1. CASE k.op \in {"put", "delete", "complete"}
    <3>1. Same(f, g, Object) /\ Same(f, g, Meta) /\ (MetaDir \in DOMAIN f => MetaDir \in DOMAIN g)
      BY <1>1, <1>3, <2>1, Zenon DEF Changes
    <3>. QED
      BY <3>1, Zenon DEF Orderly, Replacing, Same
  <2>2. CASE k.op \notin {"put", "delete", "complete"}
    <3>1. k.pc \notin {"finish", "readmeta", "rewrite", "prune"} /\ k.op # "put"
      BY <1>4, <2>2, SMTT(20) DEF Staged
    <3>. QED
      BY <3>1, SMTT(20) DEF Replacing
  <2>. QED
    BY <2>1, <2>2, Zenon
<1>. QED
  BY <1>5, <1>6, <1>7, <1>8, Zenon DEF Orderly

\* Two handlers at work are apart.
LEMMA ApartPairs ==
  ASSUME Disciplined, NEW t \in Threads, NEW q \in Threads, t # q, Busy(t), Busy(q)
  PROVE  Apart(job[t], job[q])
BY Zenon DEF Disciplined, Apart

\* Whoever is about to change the object, or has just been refused, finds it described.
LEMMA DescribedHere ==
  ASSUME MultipartInv, OrderInv, env.orderly, NEW t \in Threads, Busy(t), job[t].op \in {"put", "delete", "complete"},
         job[t].pc # "finish"
  PROVE  Described
<1>1. ASSUME NEW q \in Threads, job[q].pc = "finish" PROVE FALSE
  <2>1. Busy(q) /\ q # t
    BY <1>1, SMTT(20) DEF Busy
  <2>2. job[q].op \in {"put", "delete", "complete"}
    BY <1>1, <2>1, JobFacts, SMTT(20) DEF Staged
  <2>3. Apart(job[t], job[q])
    BY <2>1, ApartPairs, Zenon DEF OrderInv
  <2>. QED
    BY <2>2, <2>3, SMTT(20) DEF Apart
<1>. QED
  BY <1>1, Zenon DEF OrderInv

\* A part whose files and history a step leaves alone is as it was.
LEMMA PartSame ==
  ASSUME NEW u, NEW n, PartInv(u, n), Same(fs, fs', Part(u, n)), Same(fs, fs', PartMeta(u, n)), Same(fs, fs', Upload(u)),
         life'[u] = life[u], acked'[u][n] = acked[u][n], settled'[u][n] = settled[u][n], Leaving(u) => Leaving(u)'
  PROVE  PartInv(u, n)'
BY Zenon DEF PartInv, Same, tree

\* What of the uploads a handler is at.
Mine(t, u, n) == job[t].op \in UploadOps /\ job[t].up = u /\ (job[t].op = "part" => job[t].num = n)

\* The paths of an upload.
LEMMA PathsUnder ==
  ASSUME NEW u
  PROVE  Upload(u) \in Under(u) /\ \A n \in PartNumbers : Part(u, n) \in Under(u) /\ PartMeta(u, n) \in Under(u)
BY Zenon DEF Under

\* A handler touches no part but its own.
LEMMA OthersParts ==
  ASSUME NEW t, NEW u, NEW n \in PartNumbers, ~Mine(t, u, n)
  PROVE  ~Owns(job[t], Part(u, n)) /\ ~Owns(job[t], PartMeta(u, n))
<1>0. {Part(u, n), PartMeta(u, n)} \subseteq Under(u)
  BY Zenon DEF Under
<1>1. Part(u, n) \notin {Object, Meta} /\ PartMeta(u, n) \notin {Object, Meta}
  <2>1. {Object, Meta} \subseteq Bucketwide
    BY SMTT(20) DEF Bucketwide
  <2>. QED
    BY <1>0, <2>1, UnderNotBucketwide, Zenon
<1>2. CASE job[t].op = "part"
  <2>1. job[t].up # u \/ job[t].num # n
    BY <1>2, SMTT(20) DEF Mine, UploadOps
  <2>2. /\ Part(u, n) \notin {Part(job[t].up, job[t].num), PartMeta(job[t].up, job[t].num)}
        /\ PartMeta(u, n) \notin {Part(job[t].up, job[t].num), PartMeta(job[t].up, job[t].num)}
    BY <2>1, SMTT(20) DEF Part, PartMeta
  <2>3. job[t].op \notin {"createUpload", "complete", "abort"}
    BY <1>2, SMTT(20)
  <2>. QED
    BY <1>1, <2>2, <2>3, Zenon DEF Owns
<1>3. CASE job[t].op \in {"createUpload", "complete", "abort"}
  <2>1. job[t].up # u /\ job[t].op # "part"
    BY <1>3, SMTT(20) DEF Mine, UploadOps
  <2>2. Part(u, n) \notin Under(job[t].up) /\ PartMeta(u, n) \notin Under(job[t].up)
    BY <1>0, <2>1, UnderApart, Zenon
  <2>. QED
    BY <1>1, <2>1, <2>2, Zenon DEF Owns
<1>4. CASE job[t].op \notin {"createUpload", "complete", "abort", "part"}
  BY <1>1, <1>4, Zenon DEF Owns
<1>. QED
  BY <1>2, <1>3, <1>4, Zenon

\* And no upload's directory but its own.
LEMMA OthersUploads ==
  ASSUME NEW t, NEW u, ~Owns(job[t], Upload(u)) \/ u # job[t].up \/ job[t].op \in {"part", "put", "delete"} \/ job[t].op \notin UploadOps
  PROVE  ~Owns(job[t], Upload(u))
<1>0. Upload(u) \in Under(u)
  BY Zenon DEF Under
<1>1. Upload(u) \notin {Object, Meta} /\ Upload(u) \notin {Part(job[t].up, job[t].num), PartMeta(job[t].up, job[t].num)}
  <2>1. Upload(u) \notin {Object, Meta}
    <3>1. {Object, Meta} \subseteq Bucketwide
      BY SMTT(20) DEF Bucketwide
    <3>. QED
      BY <1>0, <3>1, UnderNotBucketwide, Zenon
  <2>. QED
    BY <2>1, SMTT(20) DEF Upload, Part, PartMeta
<1>2. u # job[t].up => Upload(u) \notin Under(job[t].up)
  BY <1>0, UnderApart, Zenon
<1>3. job[t].op \in {"part", "put", "delete"} => job[t].op \notin {"createUpload", "complete", "abort"}
  BY SMTT(20)
<1>4. job[t].op \notin UploadOps => job[t].op \notin {"createUpload", "complete", "abort"}
  BY SMTT(20) DEF UploadOps
<1>. QED
  BY <1>1, <1>2, <1>3, <1>4, Zenon DEF Owns

\* The frame of a handler's step in a world of orderly clients.
LEMMA Acting ==
  ASSUME MultipartInv, OrderInv, env.orderly, Disciplined', NEW t \in Threads, Busy(t), NEW k,
         job'[t] = k, \A q \in Threads \ {t} : Like(job[q], job'[q]),
         env' = env, Changes(job[t], fs, fs'), Orderly(k, fs', settled'), k = NoJob \/ k.op = job[t].op, Typed',
         \A u \in Uploads, n \in PartNumbers :
             Mine(t, u, n) \/ (life'[u] = life[u] /\ acked'[u][n] = acked[u][n] /\ settled'[u][n] = settled[u][n]),
         \A u \in Uploads, n \in PartNumbers : Mine(t, u, n) => PartInv(u, n)',
         job[t].op \in {"put", "delete", "complete"} => Described' \/ k.pc = "finish"
  PROVE  OrderInv'
<1>0. /\ Orderly(job[t], fs, settled) /\ JobOK(job[t]) /\ job[t].pc # "idle"
      /\ MarkerInv /\ Typed
  BY JobFacts, Zenon DEF OrderInv, JobInv, Busy
<1>1. ASSUME NEW q \in Threads PROVE Orderly(job'[q], fs', settled')
  <2>1. CASE q = t
    BY <2>1, Zenon
  <2>2. CASE q # t /\ Busy(q)
    <3>1. Apart(job[t], job[q])
      BY <2>2, ApartPairs, Zenon DEF OrderInv
    <3>2. JobOK(job[q]) /\ job[q].pc # "idle" /\ Orderly(job[q], fs, settled)
      BY <2>2, JobFacts, Zenon DEF OrderInv, JobInv, Busy
    <3>3. job[q].op = "part" => settled'[job[q].up][job[q].num] = settled[job[q].up][job[q].num]
      <4>1. SUFFICES ASSUME job[q].op = "part" PROVE ~Mine(t, job[q].up, job[q].num)
        BY <2>2, JobFacts, SMTT(20) DEF UploadOps
      <4>2. job[q].up # Empty
        BY <2>2, <4>1, JobFacts, EmptyAssumption, SMTT(20) DEF UploadOps
      <4>. QED
        BY <3>1, <4>1, <4>2, Zenon DEF Apart, Mine
    <3>4. Orderly(job[q], fs', settled')
      BY <3>1, <3>2, <3>3, Elsewhere, Zenon
    <3>. QED
      BY <2>2, <3>4, LikeOrderly, Zenon
  <2>3. CASE q # t /\ ~Busy(q)
    <3>1. job'[q].pc = "idle" /\ job'[q].op = "none"
      <4>1. job[q] = NoJob
        BY <2>3, Zenon DEF MultipartInv, JobsInv, JobInv, JobOK, Busy
      <4>2. job[q].pc = "idle" /\ job[q].op = "none"
        BY <4>1, IdleJob, Zenon
      <4>. QED
        BY <2>3, <4>2, Zenon DEF Like
    <3>. QED
      BY <3>1, SMTT(20) DEF Orderly, Sending, Clearing, Gathering, Replacing
  <2>. QED
    BY <2>1, <2>2, <2>3, Zenon
<1>2. ASSUME NEW u \in Uploads, NEW n \in PartNumbers PROVE PartInv(u, n)'
  <2>1. CASE Mine(t, u, n)
    BY <2>1, Zenon
  <2>2. CASE ~Mine(t, u, n)
    <3>1. ~Owns(job[t], Part(u, n)) /\ ~Owns(job[t], PartMeta(u, n))
      BY <2>2, OthersParts, Zenon
    <3>2. ~Owns(job[t], Upload(u))
      <4>1. u # job[t].up \/ job[t].op \in {"part", "put", "delete"} \/ job[t].op \notin UploadOps
        BY <2>2, Zenon DEF Mine
      <4>. QED
        BY <4>1, OthersUploads, Zenon
    <3>3. Part(u, n) \notin Common /\ PartMeta(u, n) \notin Common /\ Upload(u) \notin Common
      <4>1. Part(u, n) \in Under(u) /\ PartMeta(u, n) \in Under(u) /\ Upload(u) \in Under(u)
        BY PathsUnder, Zenon
      <4>. QED
        BY <4>1, UnderNotBucketwide, Zenon DEF Common
    <3>4. Same(fs, fs', Part(u, n)) /\ Same(fs, fs', PartMeta(u, n)) /\ Same(fs, fs', Upload(u))
      BY <3>1, <3>2, <3>3, Zenon DEF Changes
    <3>5. Leaving(u) => Leaving(u)'
      <4>1. SUFFICES ASSUME NEW q \in Threads, job[q].pc = "remove", job[q].up = u PROVE Leaving(u)'
        BY Zenon DEF Leaving
      <4>2. q # t
        <5>1. SUFFICES ASSUME q = t PROVE FALSE
          BY Zenon
        <5>2. job[t].op \in {"complete", "abort"}
          BY <1>0, <4>1, <5>1, Zenon DEF Orderly, Clearing
        <5>. QED
          BY <2>2, <4>1, <5>1, <5>2, SMTT(20) DEF Mine, UploadOps
      <4>3. job'[q].pc = "remove" /\ job'[q].up = u
        BY <4>1, <4>2, Zenon DEF Like
      <4>. QED
        BY <4>3, Zenon DEF Leaving
    <3>6. PartInv(u, n)
      BY Zenon DEF OrderInv
    <3>. QED
      BY <2>2, <3>4, <3>5, <3>6, PartSame, Zenon
  <2>. QED
    BY <2>1, <2>2, Zenon
<1>3. MarkerInv'
  <2>1. SUFFICES ASSUME Marker \notin tree'
        PROVE  (\A u \in Uploads : Upload(u) \notin tree') /\ \A q \in Threads : job'[q].pc # "idle" => job'[q].op = "createBucket"
    BY Zenon DEF MarkerInv, Busy
  <2>2. Marker \notin tree
    BY <2>1, Zenon DEF Changes, tree
  <2>3. job[t].op = "createBucket"
    BY <1>0, <2>2, Zenon DEF MarkerInv
  <2>4. \A q \in Threads : job'[q].pc # "idle" => job'[q].op = "createBucket"
    <3>1. NoJob.pc = "idle"
      BY IdleJob, Zenon
    <3>2. ASSUME NEW q \in Threads, q # t, job'[q].pc # "idle" PROVE job'[q].op = "createBucket"
      BY <1>0, <2>2, <3>2, Zenon DEF Like, MarkerInv, Busy
    <3>. QED
      BY <2>3, <3>1, <3>2, Zenon
  <2>5. ASSUME NEW u \in Uploads PROVE Upload(u) \notin tree'
    <3>1. job[t].op \notin UploadOps
      BY <2>3, SMTT(20) DEF UploadOps
    <3>2. ~Owns(job[t], Upload(u))
      BY <3>1, OthersUploads, Zenon
    <3>3. Upload(u) \in Under(u)
      BY Zenon DEF Under
    <3>4. Upload(u) \notin Common
      BY <3>3, UnderNotBucketwide, Zenon DEF Common
    <3>5. Same(fs, fs', Upload(u))
      BY <3>2, <3>4, Zenon DEF Changes
    <3>6. Upload(u) \notin tree
      BY <1>0, <2>2, Zenon DEF MarkerInv
    <3>. QED
      BY <3>5, <3>6, Zenon DEF Same, tree
  <2>. QED
    BY <2>4, <2>5, Zenon
<1>4. Described' \/ \E q \in Threads : job'[q].pc = "finish"
  <2>1. CASE job[t].op \in {"put", "delete", "complete"}
    BY <2>1, Zenon
  <2>2. CASE job[t].op \notin {"put", "delete", "complete"}
    <3>1. Object \notin Common /\ Meta \notin Common
      BY Zenon DEF Common
    <3>2. ~Owns(job[t], Object) /\ ~Owns(job[t], Meta)
      <4>1. {Object, Meta} \cap Under(job[t].up) = {}
        BY UnderNotBucketwide, SMTT(20) DEF Bucketwide
      <4>2. {Object, Meta} \cap {Part(job[t].up, job[t].num), PartMeta(job[t].up, job[t].num)} = {}
        BY NamesOfUploads, SMTT(20) DEF Bucketwide
      <4>. QED
        BY <2>2, <4>1, <4>2, Zenon DEF Owns
    <3>3. Same(fs, fs', Object) /\ Same(fs, fs', Meta)
      BY <3>1, <3>2, Zenon DEF Changes
    <3>4. CASE Described
      BY <3>3, <3>4, Zenon DEF Described, Same, tree
    <3>5. ASSUME NEW q \in Threads, job[q].pc = "finish" PROVE job'[q].pc = "finish"
      <4>1. q # t
        BY <1>0, <2>2, <3>5, SMTT(20) DEF JobOK, Staged
      <4>. QED
        BY <3>5, <4>1, Zenon DEF Like
    <3>. QED
      BY <3>4, <3>5, Zenon DEF OrderInv
  <2>. QED
    BY <2>1, <2>2, Zenon
<1>. QED
  BY <1>1, <1>2, <1>3, <1>4, Zenon DEF OrderInv

----------------------------------------------------------------------------
(* Requests that come in, and what the steps of the file system change.    *)

\* A step that changes nothing of the parts and the object, and acknowledges nothing.
Aside(s2) ==
    /\ MetaDir \in tree => MetaDir \in tree'
    /\ Marker \in tree => Marker \in tree'
    /\ \A p : p \in Common \/ Same(fs, fs', p)
    /\ UNCHANGED <<env, life, acked>>
    /\ settled' = s2
    /\ \A u \in Uploads, n \in PartNumbers : s2[u][n] = settled[u][n] \/ (~s2[u][n] /\ life[u] # "none")

\* A handler that has no part in a step keeps what it relies on.
LEMMA Aloof ==
  ASSUME MultipartInv, OrderInv, env.orderly, NEW s2, Aside(s2), NEW q \in Threads
  PROVE  Orderly(job[q], fs', settled')
<1>1. CASE Busy(q)
  <2>1. Orderly(job[q], fs, settled) /\ JobOK(job[q]) /\ job[q].pc # "idle"
    BY <1>1, JobFacts, Zenon DEF OrderInv, JobInv, Busy
  <2>2. Apart(NoJob, job[q])
    <3>1. NoJob.op = "none" /\ NoJob.up = Empty
      BY SMTT(20) DEF NoJob
    <3>. QED
      BY <3>1, SMTT(20) DEF Apart
  <2>3. Changes(NoJob, fs, fs')
    BY Zenon DEF Aside, Changes, tree
  <2>4. job[q].op = "part" => ~settled[job[q].up][job[q].num] /\ job[q].up \in Uploads /\ job[q].num \in PartNumbers
    BY <1>1, <2>1, JobFacts, SMTT(20) DEF Orderly, Sending, UploadOps
  <2>5. Orderly(job[q], fs', settled)
    BY <2>1, <2>2, <2>3, Elsewhere, Zenon
  <2>6. job[q].op = "part" => ~settled'[job[q].up][job[q].num]
    BY <2>4, Zenon DEF Aside
  <2>. QED
    BY <2>5, <2>6, Zenon DEF Orderly, Sending
<1>2. CASE ~Busy(q)
  <2>1. job[q] = NoJob
    BY <1>2, Zenon DEF MultipartInv, JobsInv, JobInv, JobOK, Busy
  <2>2. job[q].pc = "idle" /\ job[q].op = "none"
    BY <2>1, IdleJob, Zenon
  <2>. QED
    BY <2>2, SMTT(20) DEF Orderly, Sending, Clearing, Gathering, Replacing
<1>. QED
  BY <1>1, <1>2, Zenon

\* The parts and the object are as they were.
LEMMA AloofParts ==
  ASSUME MultipartInv, OrderInv, env.orderly, NEW s2, Aside(s2),
         \A u : Leaving(u) => Leaving(u)'
  PROVE  /\ \A u \in Uploads, n \in PartNumbers : PartInv(u, n)'
         /\ Described => Described'
         /\ \A u \in Uploads : Upload(u) \in tree' <=> Upload(u) \in tree
<1>1. ASSUME NEW u PROVE \A n \in PartNumbers : {Upload(u), Part(u, n), PartMeta(u, n)} \cap Common = {}
  BY PathsUnder, UnderNotBucketwide, Zenon DEF Common
<1>2. ASSUME NEW u \in Uploads, NEW n \in PartNumbers PROVE PartInv(u, n)'
  <2>1. Same(fs, fs', Part(u, n)) /\ Same(fs, fs', PartMeta(u, n)) /\ Same(fs, fs', Upload(u))
    BY <1>1, Zenon DEF Aside
  <2>2. PartInv(u, n) /\ life'[u] = life[u] /\ acked'[u][n] = acked[u][n] /\ (Leaving(u) => Leaving(u)')
    BY Zenon DEF OrderInv, Aside
  <2>3. CASE settled'[u][n] = settled[u][n]
    BY <2>1, <2>2, <2>3, PartSame, Zenon
  <2>4. CASE ~settled'[u][n] /\ life[u] # "none"
    BY <2>1, <2>2, <2>4, Zenon DEF PartInv, Same, tree
  <2>. QED
    BY <2>3, <2>4, Zenon DEF Aside
<1>3. Described => Described'
  <2>1. Object \notin Common /\ Meta \notin Common
    BY Zenon DEF Common
  <2>2. Same(fs, fs', Object) /\ Same(fs, fs', Meta)
    BY <2>1, Zenon DEF Aside
  <2>. QED
    BY <2>2, Zenon DEF Described, Same, tree
<1>4. ASSUME NEW u \in Uploads PROVE Upload(u) \in tree' <=> Upload(u) \in tree
  <2>1. Upload(u) \notin Common
    BY PathsUnder, UnderNotBucketwide, Zenon DEF Common
  <2>. QED
    BY <2>1, Zenon DEF Aside, Same, tree
<1>. QED
  BY <1>2, <1>3, <1>4, Zenon

\* A request that is refused at once, or a step of nobody.
LEMMA Refused ==
  ASSUME MultipartInv, OrderInv, env.orderly, Disciplined', NEW s2, Aside(s2), UNCHANGED job, Typed'
  PROVE  OrderInv'
<1>1. \A q \in Threads : Orderly(job'[q], fs', settled')
  BY Aloof, Zenon
<1>2. \A u : Leaving(u) => Leaving(u)'
  BY Zenon DEF Leaving
<1>3. /\ \A u \in Uploads, n \in PartNumbers : PartInv(u, n)'
      /\ Described => Described'
      /\ \A u \in Uploads : Upload(u) \in tree' <=> Upload(u) \in tree
  BY <1>2, AloofParts, Zenon
<1>4. MarkerInv'
  BY <1>3, Zenon DEF MarkerInv, OrderInv, Aside, Busy
<1>5. Described' \/ \E t \in Threads : job'[t].pc = "finish"
  BY <1>3, Zenon DEF OrderInv
<1>. QED
  BY <1>1, <1>3, <1>4, <1>5, Zenon DEF OrderInv, Aside

\* A request whose first checks pass.
LEMMA Coming ==
  ASSUME MultipartInv, OrderInv, env.orderly, Disciplined', NEW s2, Aside(s2), Typed',
         NEW t \in Threads, NEW r, NEW next, Arrives(t, r, next), DOMAIN r = JobFields, next # "idle",
         Orderly([r EXCEPT !.pc = next], fs', settled'), Marker \in tree' \/ r.op = "createBucket"
  PROVE  OrderInv'
<1>1. PICK m : job'[t] = [r EXCEPT !.pc = next, !.met = m]
  BY Zenon DEF Arrives
<1>. DEFINE j == [r EXCEPT !.pc = next]
<1>2. Like(j, job'[t]) /\ job'[t].op = r.op
  BY <1>1, SMTT(20) DEF Like, JobFields
<1>3. Orderly(job'[t], fs', settled')
  <2>1. Orderly(j, fs', settled')
    BY Zenon
  <2>. HIDE DEF j
  <2>. QED
    BY <1>2, <2>1, LikeOrderly, Zenon
<1>4. ASSUME NEW q \in Threads, q # t PROVE Like(job[q], job'[q])
  <2>1. job'[q] = IF Busy(q) THEN [job[q] EXCEPT !.met = @ \/ r.op \in Deletions] ELSE job[q]
    BY <1>4, Zenon DEF Arrives
  <2>2. CASE Busy(q)
    <3>1. DOMAIN job[q] = JobFields
      BY <2>2, JobFacts, Zenon
    <3>2. PICK x : job'[q] = [job[q] EXCEPT !.met = x]
      BY <2>1, <2>2, Zenon
    <3>. QED
      BY <3>1, <3>2, SMTT(20) DEF Like, JobFields
  <2>3. CASE ~Busy(q)
    BY <2>1, <2>3, Zenon DEF Like
  <2>. QED
    BY <2>2, <2>3, Zenon
<1>5. ASSUME NEW q \in Threads PROVE Orderly(job'[q], fs', settled')
  <2>1. CASE q = t
    BY <1>3, <2>1, Zenon
  <2>2. CASE q # t
    BY <1>4, <2>2, Aloof, LikeOrderly, Zenon
  <2>. QED
    BY <2>1, <2>2, Zenon
<1>6. job[t].pc = "idle"
  BY Zenon DEF Arrives, Busy
<1>7. \A u : Leaving(u) => Leaving(u)'
  <2>1. ASSUME NEW u, NEW q \in Threads, job[q].pc = "remove", job[q].up = u PROVE Leaving(u)'
    <3>1. q # t
      BY <1>6, <2>1, SMTT(20)
    <3>2. job'[q].pc = "remove" /\ job'[q].up = u
      BY <1>4, <2>1, <3>1, Zenon DEF Like
    <3>. QED
      BY <3>2, Zenon DEF Leaving
  <2>. QED
    BY <2>1, Zenon DEF Leaving
<1>8. /\ \A u \in Uploads, n \in PartNumbers : PartInv(u, n)'
      /\ Described => Described'
      /\ \A u \in Uploads : Upload(u) \in tree' <=> Upload(u) \in tree
  BY <1>7, AloofParts, Zenon
<1>9. MarkerInv'
  <2>1. ASSUME Marker \notin tree', NEW q \in Threads, job'[q].pc # "idle" PROVE job'[q].op = "createBucket"
    <3>1. CASE q = t
      BY <1>2, <2>1, <3>1, Zenon
    <3>2. CASE q # t
      BY <1>4, <2>1, <3>2, Zenon DEF MarkerInv, OrderInv, Aside, Like, Busy
    <3>. QED
      BY <3>1, <3>2, Zenon
  <2>2. ASSUME Marker \notin tree', NEW u \in Uploads PROVE Upload(u) \notin tree'
    BY <1>8, <2>2, Zenon DEF MarkerInv, OrderInv, Aside
  <2>. QED
    BY <2>1, <2>2, Zenon DEF MarkerInv, Busy
<1>10. Described' \/ \E q \in Threads : job'[q].pc = "finish"
  <2>1. CASE Described
    BY <1>8, <2>1, Zenon
  <2>2. ASSUME NEW q \in Threads, job[q].pc = "finish" PROVE job'[q].pc = "finish"
    <3>1. q # t
      BY <1>6, <2>2, SMTT(20)
    <3>. QED
      BY <1>4, <2>2, <3>1, Zenon DEF Like
  <2>. QED
    BY <2>1, <2>2, Zenon DEF OrderInv
<1>. QED
  BY <1>5, <1>8, <1>9, <1>10, Zenon DEF OrderInv, Aside

----------------------------------------------------------------------------
\* What the steps of the file system change.
LEMMA MakeSame ==
  ASSUME NEW ps, fs' = Make(fs, ps), NEW p, p \notin ps
  PROVE  Same(fs, fs', p)
BY MakeIs, Zenon DEF Same

\* As MakeSame, of what is there already.
LEMMA MakeThere ==
  ASSUME NEW ps, fs' = Make(fs, ps), NEW p \in tree
  PROVE  Same(fs, fs', p)
BY MakeIs, Zenon DEF Same, tree

\* As MakeSame, of a write.
LEMMA WriteSame ==
  ASSUME NEW f, NEW w, NEW x, NEW p, p # w
  PROVE  Same(f, Write(f, w, x), p)
<1>1. \A y \in DOMAIN f \ {w} : Write(f, w, x)[y] = f[y]
  BY Zenon DEF Write
<1>2. DOMAIN Write(f, w, x) = DOMAIN f \cup {w}
  BY WriteIs, Zenon
<1>. QED
  BY <1>1, <1>2, Zenon DEF Same

\* As MakeSame, of an unlink.
LEMMA EraseSame ==
  ASSUME NEW ps, fs' = Erase(fs, ps), NEW p, p \notin ps
  PROVE  Same(fs, fs', p)
<1>1. DOMAIN fs' = DOMAIN fs \ ps /\ \A y \in DOMAIN fs \ ps : fs'[y] = fs[y]
  BY EraseIs, Zenon
<1>. QED
  BY <1>1, Zenon DEF Same

\* Making paths of the bucket's own changes nothing of any handler's.
LEMMA MakeAside ==
  ASSUME NEW ps, fs' = fs \/ fs' = Make(fs, ps), ps \subseteq Common, NEW j
  PROVE  /\ MetaDir \in tree => MetaDir \in tree'
         /\ Marker \in tree => Marker \in tree'
         /\ \A p : p \in Common \/ Same(fs, fs', p)
         /\ Changes(j, fs, fs')
<1>1. \A p : p \in Common \/ Same(fs, fs', p)
  <2>1. CASE fs' = fs
    BY <2>1, Zenon DEF Same
  <2>2. CASE fs' = Make(fs, ps)
    BY <2>2, MakeSame, Zenon
  <2>. QED
    BY <2>1, <2>2, Zenon
<1>2. \A p \in DOMAIN fs : p \in DOMAIN fs'
  <2>1. CASE fs' = fs
    BY <2>1, Zenon
  <2>2. CASE fs' = Make(fs, ps)
    BY <2>2, MakeIs, Zenon
  <2>. QED
    BY <2>1, <2>2, Zenon
<1>. QED
  BY <1>1, <1>2, Zenon DEF Changes, tree

\* A write changes one path.
LEMMA WriteChanges ==
  ASSUME NEW j, NEW p, NEW x, fs' = Write(fs, p, x), p \in Common \/ Owns(j, p)
  PROVE  Changes(j, fs, fs')
<1>1. \A q : q # p => Same(fs, Write(fs, p, x), q)
  BY WriteSame, Zenon
<1>2. DOMAIN fs' = DOMAIN fs \cup {p}
  BY WriteIs, Zenon
<1>. QED
  BY <1>1, <1>2, Zenon DEF Changes

\* Making changes the paths made.
LEMMA MakeChanges ==
  ASSUME NEW j, NEW ps, fs' = Make(fs, ps), \A p \in ps : p \in Common \/ Owns(j, p)
  PROVE  Changes(j, fs, fs')
<1>1. \A q : q \in ps \/ Same(fs, fs', q)
  BY MakeSame, Zenon
<1>2. DOMAIN fs' = DOMAIN fs \cup ps
  BY MakeIs, Zenon
<1>. QED
  BY <1>1, <1>2, Zenon DEF Changes

\* An unlink changes the paths unlinked.
LEMMA EraseChanges ==
  ASSUME NEW j, NEW ps, fs' = Erase(fs, ps), \A p \in ps : p \in Common \ {MetaDir, Marker} \/ Owns(j, p),
         MetaDir \notin ps, Marker \notin ps
  PROVE  Changes(j, fs, fs')
<1>1. \A q : q \in ps \/ Same(fs, fs', q)
  BY EraseSame, Zenon
<1>2. DOMAIN fs' = DOMAIN fs \ ps
  BY EraseIs, Zenon
<1>. QED
  BY <1>1, <1>2, Zenon DEF Changes

\* A step that leaves the files alone.
LEMMA NoChanges ==
  ASSUME NEW j, fs' = fs
  PROVE  Changes(j, fs, fs')
BY Zenon DEF Changes, Same

\* A handler that is at nothing the invariant speaks of.
LEMMA OrderlyPlain ==
  ASSUME NEW j, j.op \notin {"part", "complete", "deleteBucket", "put"},
         j.pc \notin {"remove", "finish", "readmeta", "rewrite", "prune"}, NEW f, NEW s
  PROVE  Orderly(j, f, s)
<1>1. j.op # "part" /\ j.op # "complete" /\ j.op # "deleteBucket" /\ j.op # "put"
  BY Zenon
<1>2. j.pc # "remove" /\ j.pc # "readmeta" /\ j.pc # "rewrite" /\ j.pc # "prune" /\ j.pc \notin {"finish", "readmeta", "rewrite"}
  BY Zenon
<1>. QED
  BY <1>1, <1>2, Zenon DEF Orderly, Sending, Clearing, Gathering, Replacing

\* As OrderlyPlain, of a thread that serves nobody.
LEMMA OrderlyIdle ==
  ASSUME NEW f, NEW s
  PROVE  Orderly(NoJob, f, s)
<1>1. NoJob.op = "none" /\ NoJob.pc = "idle"
  BY IdleJob, Zenon
<1>2. NoJob.op \notin {"part", "complete", "deleteBucket", "put"} /\ NoJob.pc \notin {"remove", "finish", "readmeta", "rewrite", "prune"}
  BY <1>1, SMTT(20)
<1>. QED
  BY <1>2, OrderlyPlain, Zenon

\* What orderly clients send, and which of their handlers may stop.
LEMMA Environment ==
  ASSUME MultipartInv, env.orderly
  PROVE  /\ env.bodies \subseteq Bodies /\ env.parts \subseteq PartNumbers /\ env.lists \subseteq Lists
         /\ "deleteBucket" \notin env.ops /\ {"put", "complete", "abort"} \cap env.faults = {}
<1>1. env \in Worlds /\ env \in World
  BY WorldAssumption, Zenon DEF MultipartInv, FilesInv
<1>2. env.bodies \in SUBSET Bodies /\ env.parts \in SUBSET PartNumbers /\ env.lists \in SUBSET Lists
  BY <1>1, SMTT(20) DEF World
<1>. QED
  BY <1>1, <1>2, OrderlyAssumption, Zenon

\* A step that makes paths of the bucket's own, if any, is aside from parts and object.
LEMMA CalmAside ==
  ASSUME OrderInv, env.orderly, NEW ps, fs' = fs \/ fs' = Make(fs, ps), ps \subseteq Common, UNCHANGED <<env, life, acked, settled>>
  PROVE  Aside(settled) /\ Typed' /\ (Marker \in tree => Marker \in tree')
<1>1. /\ MetaDir \in tree => MetaDir \in tree'
      /\ Marker \in tree => Marker \in tree'
      /\ \A p : p \in Common \/ Same(fs, fs', p)
  BY MakeAside, Zenon
<1>2. Typed'
  BY Zenon DEF OrderInv, Typed
<1>. QED
  BY <1>1, <1>2, Zenon DEF Aside

\* A request that is refused at once.
LEMMA CalmRefused ==
  ASSUME MultipartInv, OrderInv, env.orderly, Disciplined', UNCHANGED <<job, env, life, acked, settled>>,
         NEW ps, fs' = fs \/ fs' = Make(fs, ps), ps \subseteq Common
  PROVE  OrderInv'
BY CalmAside, Refused, Zenon

\* A request for the bucket, the object or its tags.
LEMMA PlainComing ==
  ASSUME MultipartInv, OrderInv, env.orderly, Disciplined', NEW t \in Threads, NEW op, NEW next, Arrives(t, Plain(op), next),
         op \notin {"part", "complete", "deleteBucket", "put"},
         next \notin {"idle", "remove", "finish", "readmeta", "rewrite", "prune"},
         UNCHANGED <<env, life, acked, settled>>, NEW ps, fs' = fs \/ fs' = Make(fs, ps), ps \subseteq Common,
         Marker \in tree \/ op = "createBucket"
  PROVE  OrderInv'
<1>. DEFINE r == Plain(op)
<1>1. DOMAIN r = JobFields /\ r.op = op
  BY PlainIs, Zenon
<1>. DEFINE j == [r EXCEPT !.pc = next]
<1>2. j.op = op /\ j.pc = next
  <2>. HIDE DEF r
  <2>. QED
    BY <1>1, SMTT(20) DEF JobFields
<1>3. Orderly(j, fs', settled')
  <2>. HIDE DEF j
  <2>1. j.pc \notin {"remove", "finish", "readmeta", "rewrite", "prune"} /\ j.op \notin {"part", "complete", "deleteBucket", "put"}
    BY <1>2, SMTT(20)
  <2>. QED
    BY <2>1, OrderlyPlain, Zenon
<1>4. Aside(settled) /\ Typed' /\ (Marker \in tree' \/ r.op = "createBucket")
  BY <1>1, CalmAside, Zenon
<1>5. next # "idle"
  BY SMTT(20)
<1>. QED
  BY <1>1, <1>3, <1>4, <1>5, Coming, Zenon

\* The directory of an upload lies in a bucket.
LEMMA MarkerOfUpload ==
  ASSUME OrderInv, env.orderly, NEW u \in Uploads, Upload(u) \in tree
  PROVE  Marker \in tree
BY Zenon DEF OrderInv, MarkerInv

\* CreateBucket, PutObjectTagging and DeleteObjectTagging arrive.
LEMMA OrderCreateBucket ==
  ASSUME MultipartInv, OrderInv, env.orderly, Disciplined', NEW t \in Threads,
         CreateBucket(t) \/ PutTagging(t) \/ DeleteTagging(t)
  PROVE  OrderInv'
<1>1. UNCHANGED <<fs, env, life, acked, settled>> /\ {} \subseteq Common
  BY Zenon DEF CreateBucket, PutTagging, DeleteTagging, uploadHistory
<1>2. CASE UNCHANGED job
  BY <1>1, <1>2, CalmRefused, Zenon
<1>3. CASE CreateBucket(t) /\ Arrives(t, Plain("createBucket"), "mkbucket")
  <2>. DEFINE op == "createBucket" next == "mkbucket"
  <2>1. op \notin {"part", "complete", "deleteBucket", "put"} /\ next \notin {"idle", "remove", "finish", "readmeta", "rewrite", "prune"}
    BY SMTT(20)
  <2>. QED
    BY <1>1, <1>3, <2>1, PlainComing, Zenon
<1>4. CASE Marker \in tree /\ Arrives(t, Plain("putTagging"), "mktags")
  <2>. DEFINE op == "putTagging" next == "mktags"
  <2>1. op \notin {"part", "complete", "deleteBucket", "put"} /\ next \notin {"idle", "remove", "finish", "readmeta", "rewrite", "prune"}
    BY SMTT(20)
  <2>. QED
    BY <1>1, <1>4, <2>1, PlainComing, Zenon
<1>5. CASE Marker \in tree /\ Arrives(t, Plain("deleteTagging"), "unlinktags")
  <2>. DEFINE op == "deleteTagging" next == "unlinktags"
  <2>1. op \notin {"part", "complete", "deleteBucket", "put"} /\ next \notin {"idle", "remove", "finish", "readmeta", "rewrite", "prune"}
    BY SMTT(20)
  <2>. QED
    BY <1>1, <1>5, <2>1, PlainComing, Zenon
<1>. QED
  BY <1>2, <1>3, <1>4, <1>5, Zenon DEF CreateBucket, PutTagging, DeleteTagging, Begin, Arrives

\* DeleteBucket does not arrive.
LEMMA OrderDeleteBucket ==
  ASSUME MultipartInv, env.orderly, NEW t \in Threads
  PROVE  ~DeleteBucket(t)
<1>1. Plain("deleteBucket").op = "deleteBucket"
  BY PlainIs, Zenon
<1>. QED
  BY <1>1, Environment, Zenon DEF DeleteBucket, Begin

\* PutObject arrives.
LEMMA OrderPut ==
  ASSUME MultipartInv, OrderInv, env.orderly, Disciplined', NEW t \in Threads, Put(t)
  PROVE  OrderInv'
<1>1. UNCHANGED <<fs, env, life, acked, settled>> /\ {} \subseteq Common
  BY Zenon DEF Put, uploadHistory
<1>2. PICK b \in env.bodies : Begin(t, [Plain("put") EXCEPT !.sum = <<b>>], Marker \in tree, "mkparent")
  BY Zenon DEF Put
<1>3. CASE Marker \notin tree
  <2>1. UNCHANGED job
    BY <1>2, <1>3, Zenon DEF Begin
  <2>. QED
    BY <1>1, <2>1, CalmRefused, Zenon
<1>4. CASE Marker \in tree
  <2>. DEFINE r == [Plain("put") EXCEPT !.sum = <<b>>]
  <2>1. Arrives(t, r, "mkparent")
    BY <1>2, <1>4, Zenon DEF Begin, Arrives
  <2>2. DOMAIN r = JobFields /\ r.op = "put" /\ r.sum = <<b>>
    <3>1. DOMAIN Plain("put") = JobFields /\ Plain("put").op = "put"
      BY PlainIs, Zenon
    <3>. QED
      BY <3>1, SMTT(20) DEF JobFields
  <2>. HIDE DEF r
  <2>. DEFINE j == [r EXCEPT !.pc = "mkparent"]
  <2>3. j.op = "put" /\ j.pc = "mkparent" /\ j.sum = <<b>>
    BY <2>2, SMTT(20) DEF JobFields
  <2>4. b \in Bodies
    BY Environment, Zenon
  <2>. HIDE DEF j
  <2>5. Orderly(j, fs', settled')
    <3>1. j.op # "deleteBucket" /\ Sending(j, fs', settled') /\ Clearing(j, fs')
      BY <2>3, SMTT(20) DEF Sending, Clearing
    <3>2. Gathering(j, fs')
      BY <2>3, SMTT(20) DEF Gathering
    <3>3. Replacing(j, fs')
      <4>1. j.pc \notin {"finish", "readmeta", "rewrite"} /\ j.pc # "readmeta" /\ j.pc # "rewrite" /\ j.pc # "prune"
        BY <2>3, SMTT(20)
      <4>. QED
        BY <2>3, <2>4, <4>1, Zenon DEF Replacing
    <3>. QED
      BY <3>1, <3>2, <3>3, Zenon DEF Orderly
  <2>6. Orderly([r EXCEPT !.pc = "mkparent"], fs', settled')
    BY <2>5, Zenon DEF j
  <2>7. Aside(settled) /\ Typed' /\ Marker \in tree'
    BY <1>1, <1>4, CalmAside, Zenon
  <2>. DEFINE next == "mkparent"
  <2>8. next # "idle"
    BY SMTT(20)
  <2>. QED
    BY <2>1, <2>2, <2>6, <2>7, <2>8, Coming, Zenon
<1>. QED
  BY <1>3, <1>4, Zenon

\* DeleteObject arrives; with versions its delete marker is made at once.
LEMMA OrderDeleteObject ==
  ASSUME MultipartInv, OrderInv, env.orderly, Disciplined', NEW t \in Threads, DeleteObject(t)
  PROVE  OrderInv'
<1>1. UNCHANGED <<env, life, acked, settled>>
  BY Zenon DEF DeleteObject, uploadHistory
<1>2. fs' = fs \/ fs' = Make(fs, Upto(Version))
  BY Zenon DEF DeleteObject
<1>3. Upto(Version) \subseteq Common
  BY UptoAll, NamesOfBucket, SMTT(20) DEF Common, Bucketwide
<1>4. CASE UNCHANGED job
  BY <1>1, <1>2, <1>3, <1>4, CalmRefused, Zenon
<1>5. CASE Marker \in tree /\ Arrives(t, Plain("delete"), "unlink")
  <2>. DEFINE op == "delete" next == "unlink"
  <2>1. op \notin {"part", "complete", "deleteBucket", "put"} /\ next \notin {"idle", "remove", "finish", "readmeta", "rewrite", "prune"}
    BY SMTT(20)
  <2>. QED
    BY <1>1, <1>2, <1>3, <1>5, <2>1, PlainComing, Zenon
<1>. QED
  BY <1>4, <1>5, Zenon DEF DeleteObject, Begin, Arrives

\* CreateMultipartUpload arrives.
LEMMA OrderCreateUpload ==
  ASSUME MultipartInv, OrderInv, env.orderly, Disciplined', NEW t \in Threads, CreateUpload(t)
  PROVE  OrderInv'
<1>1. UNCHANGED <<fs, env, life, acked, settled>> /\ {} \subseteq Common
  BY Zenon DEF CreateUpload, uploadHistory
<1>2. PICK u \in Uploads : Begin(t, OnUpload("createUpload", u), Marker \in tree, "mkupload")
  BY Zenon DEF CreateUpload
<1>3. CASE Marker \notin tree
  <2>1. UNCHANGED job
    BY <1>2, <1>3, Zenon DEF Begin
  <2>. QED
    BY <1>1, <2>1, CalmRefused, Zenon
<1>4. CASE Marker \in tree
  <2>. DEFINE r == OnUpload("createUpload", u) next == "mkupload"
  <2>1. Arrives(t, r, next)
    BY <1>2, <1>4, Zenon DEF Begin, Arrives
  <2>2. DOMAIN r = JobFields /\ r.op = "createUpload"
    BY OnUploadIs, Zenon
  <2>. HIDE DEF r
  <2>. DEFINE j == [r EXCEPT !.pc = next]
  <2>3. j.op = "createUpload" /\ j.pc = "mkupload"
    BY <2>2, SMTT(20) DEF JobFields
  <2>. HIDE DEF j
  <2>4. Orderly(j, fs', settled')
    <3>1. j.pc \notin {"remove", "finish", "readmeta", "rewrite", "prune"} /\ j.op \notin {"part", "complete", "deleteBucket", "put"}
      BY <2>3, SMTT(20)
    <3>. QED
      BY <3>1, OrderlyPlain, Zenon
  <2>5. Orderly([r EXCEPT !.pc = next], fs', settled')
    BY <2>4, Zenon DEF j
  <2>6. Aside(settled) /\ Typed' /\ Marker \in tree' /\ next # "idle"
    <3>1. next # "idle"
      BY SMTT(20)
    <3>. QED
      BY <1>1, <1>4, <3>1, CalmAside, Zenon
  <2>. HIDE DEF next
  <2>. QED
    BY <2>1, <2>2, <2>5, <2>6, Coming, Zenon
<1>. QED
  BY <1>3, <1>4, Zenon

\* UploadPart arrives: from now on the part is not settled.
LEMMA OrderUploadPart ==
  ASSUME MultipartInv, OrderInv, env.orderly, Disciplined', NEW t \in Threads, UploadPart(t)
  PROVE  OrderInv'
<1>1. UNCHANGED <<fs, env, life, acked>>
  BY Zenon DEF UploadPart
<1>2. PICK u \in Uploads, n \in env.parts, b \in env.bodies :
        /\ Known(u) /\ Begin(t, [OnUpload("part", u) EXCEPT !.num = n, !.body = b], Upload(u) \in tree, "openpart")
        /\ settled' = [settled EXCEPT ![u][n] = FALSE]
  BY Zenon DEF UploadPart
<1>3. n \in PartNumbers /\ b \in Bodies /\ life[u] # "none"
  BY <1>2, Environment, Zenon DEF Known
<1>4. Typed /\ Typed' /\ settled'[u][n] = FALSE
      /\ \A v \in Uploads, m \in PartNumbers : (v = u /\ m = n) \/ settled'[v][m] = settled[v][m]
  <2>1. Typed
    BY Zenon DEF OrderInv
  <2>2. DOMAIN settled = Uploads /\ \A v \in Uploads : DOMAIN settled[v] = PartNumbers
    BY <2>1, Zenon DEF Typed
  <2>3. PICK x : x = [settled[u] EXCEPT ![n] = FALSE]
    BY Zenon
  <2>4. settled' = [settled EXCEPT ![u] = x]
    BY <1>2, <2>3, Zenon
  <2>5. DOMAIN x = PartNumbers /\ x[n] = FALSE /\ \A m \in PartNumbers \ {n} : x[m] = settled[u][m]
    BY <1>3, <2>2, <2>3, Zenon
  <2>6. DOMAIN settled' = Uploads /\ settled'[u] = x /\ \A v \in Uploads \ {u} : settled'[v] = settled[v]
    BY <2>2, <2>4, Zenon
  <2>7. \A v \in Uploads : DOMAIN settled'[v] = PartNumbers
    BY <2>2, <2>5, <2>6, Zenon
  <2>8. Typed'
    BY <1>1, <2>1, <2>6, <2>7, Zenon DEF Typed
  <2>. QED
    BY <2>1, <2>5, <2>6, <2>8, Zenon
<1>5. Aside(settled')
  <2>1. \A v \in Uploads, m \in PartNumbers : settled'[v][m] = settled[v][m] \/ (~settled'[v][m] /\ life[v] # "none")
    BY <1>3, <1>4, Zenon
  <2>2. \A p : Same(fs, fs', p)
    BY <1>1, Zenon DEF Same
  <2>. QED
    BY <1>1, <2>1, <2>2, Zenon DEF Aside, tree
<1>. DEFINE s2 == settled'
<1>6. CASE Upload(u) \notin tree
  <2>1. UNCHANGED job
    BY <1>2, <1>6, Zenon DEF Begin
  <2>. QED
    BY <1>4, <1>5, <2>1, Refused, Zenon
<1>7. CASE Upload(u) \in tree
  <2>. DEFINE r == [OnUpload("part", u) EXCEPT !.num = n, !.body = b] next == "openpart"
  <2>1. Arrives(t, r, next)
    BY <1>2, <1>7, Zenon DEF Begin, Arrives
  <2>2. DOMAIN r = JobFields /\ r.op = "part" /\ r.up = u /\ r.num = n /\ r.body = b
    <3>1. DOMAIN OnUpload("part", u) = JobFields /\ OnUpload("part", u).op = "part" /\ OnUpload("part", u).up = u
      BY OnUploadIs, Zenon
    <3>. QED
      BY <3>1, SMTT(20) DEF JobFields
  <2>. HIDE DEF r
  <2>. DEFINE j == [r EXCEPT !.pc = next]
  <2>3. j.op = "part" /\ j.pc = "openpart" /\ j.up = u /\ j.num = n /\ j.body = b
    BY <2>2, SMTT(20) DEF JobFields
  <2>. HIDE DEF j
  <2>4. Orderly(j, fs', settled')
    <3>1. j.pc \notin {"remove", "finish", "readmeta", "rewrite", "prune"} /\ j.pc # "writepart" /\ j.pc # "partmeta"
          /\ j.op # "complete" /\ j.op # "put" /\ j.op # "deleteBucket"
      BY <2>3, SMTT(20)
    <3>2. Upload(u) \in DOMAIN fs'
      BY <1>1, <1>7, Zenon DEF tree
    <3>3. Sending(j, fs', settled')
      BY <1>3, <1>4, <2>3, <3>1, <3>2, Zenon DEF Sending
    <3>4. Clearing(j, fs') /\ Gathering(j, fs') /\ Replacing(j, fs')
      <4>1. j.pc # "remove" /\ j.pc \notin {"finish", "readmeta", "rewrite"} /\ j.pc # "readmeta" /\ j.pc # "rewrite" /\ j.pc # "prune"
        BY <2>3, SMTT(20)
      <4>. QED
        BY <3>1, <4>1, Zenon DEF Clearing, Gathering, Replacing
    <3>. QED
      BY <3>1, <3>3, <3>4, Zenon DEF Orderly
  <2>5. Orderly([r EXCEPT !.pc = next], fs', settled')
    BY <2>4, Zenon DEF j
  <2>6. Marker \in tree' /\ next # "idle"
    <3>1. next # "idle"
      BY SMTT(20)
    <3>2. Marker \in tree
      BY <1>7, MarkerOfUpload, Zenon
    <3>. QED
      BY <1>1, <3>1, <3>2, Zenon DEF tree
  <2>. HIDE DEF next
  <2>. QED
    BY <1>4, <1>5, <2>1, <2>2, <2>5, <2>6, Coming, Zenon
<1>. QED
  BY <1>6, <1>7, Zenon

\* The record of a request starts with nothing read.
LEMMA OnUploadFresh ==
  ASSUME NEW op, NEW u
  PROVE  OnUpload(op, u).at = 1 /\ OnUpload(op, u).sum = <<>> /\ OnUpload(op, u).md5s = <<>>
BY SMTT(20) DEF OnUpload, Plain, NoJob

\* CompleteMultipartUpload arrives.
LEMMA OrderComplete ==
  ASSUME MultipartInv, OrderInv, env.orderly, Disciplined', NEW t \in Threads, Complete(t)
  PROVE  OrderInv'
<1>1. UNCHANGED <<fs, env, life, acked, settled>> /\ {} \subseteq Common
  BY Zenon DEF Complete, uploadHistory
<1>2. PICK u \in Uploads, list \in env.lists :
        Known(u) /\ Begin(t, [OnUpload("complete", u) EXCEPT !.list = list], Upload(u) \in tree, "writer")
  BY Zenon DEF Complete
<1>3. list \in Lists
  BY Environment, Zenon
<1>4. CASE Upload(u) \notin tree
  <2>1. UNCHANGED job
    BY <1>2, <1>4, Zenon DEF Begin
  <2>. QED
    BY <1>1, <2>1, CalmRefused, Zenon
<1>5. CASE Upload(u) \in tree
  <2>. DEFINE r == [OnUpload("complete", u) EXCEPT !.list = list] next == "writer"
  <2>1. Arrives(t, r, next)
    BY <1>2, <1>5, Zenon DEF Begin, Arrives
  <2>2. DOMAIN r = JobFields /\ r.op = "complete" /\ r.up = u /\ r.list = list /\ r.at = 1 /\ r.sum = <<>> /\ r.md5s = <<>>
    <3>. DEFINE o == OnUpload("complete", u)
    <3>1. DOMAIN o = JobFields /\ o.op = "complete" /\ o.up = u /\ o.at = 1 /\ o.sum = <<>> /\ o.md5s = <<>>
      <4>1. DOMAIN o = JobFields /\ o.op = "complete" /\ o.up = u
        BY OnUploadIs, Zenon
      <4>2. o.at = 1 /\ o.sum = <<>> /\ o.md5s = <<>>
        BY OnUploadFresh, Zenon
      <4>. QED
        BY <4>1, <4>2, Zenon
    <3>. HIDE DEF o
    <3>2. r = [o EXCEPT !.list = list]
      BY Zenon DEF o
    <3>. HIDE DEF r
    <3>. QED
      BY <3>1, <3>2, SMTT(20) DEF JobFields
  <2>. HIDE DEF r
  <2>. DEFINE j == [r EXCEPT !.pc = next]
  <2>3. /\ j.op = "complete" /\ j.pc = "writer" /\ j.up = u /\ j.list = list
        /\ j.at = 1 /\ j.sum = <<>> /\ j.md5s = <<>>
    BY <2>2, SMTT(20) DEF JobFields
  <2>. HIDE DEF j
  <2>4. Orderly(j, fs', settled')
    <3>1. /\ j.pc # "remove" /\ j.pc \notin {"finish", "readmeta", "rewrite"} /\ j.pc # "readmeta" /\ j.pc # "rewrite"
          /\ j.pc # "prune" /\ j.pc \notin {"read", "digest"} /\ j.pc # "digest" /\ ~HasTmp(j) /\ j.pc # "rename"
          /\ j.op # "part" /\ j.op # "put" /\ j.op # "deleteBucket" /\ j.at \in Nat \ {0}
      BY <2>3, SMTT(20) DEF HasTmp
    <3>2. Upload(u) \in DOMAIN fs'
      BY <1>1, <1>5, Zenon DEF tree
    <3>3. Gathering(j, fs')
      BY <1>3, <2>3, <3>1, <3>2, Zenon DEF Gathering
    <3>4. Sending(j, fs', settled') /\ Clearing(j, fs') /\ Replacing(j, fs')
      BY <3>1, Zenon DEF Sending, Clearing, Replacing
    <3>. QED
      BY <3>1, <3>3, <3>4, Zenon DEF Orderly
  <2>5. Orderly([r EXCEPT !.pc = next], fs', settled')
    BY <2>4, Zenon DEF j
  <2>6. Aside(settled) /\ Typed' /\ Marker \in tree' /\ next # "idle"
    <3>1. next # "idle"
      BY SMTT(20)
    <3>2. Marker \in tree
      BY <1>5, MarkerOfUpload, Zenon
    <3>. QED
      BY <1>1, <3>1, <3>2, CalmAside, Zenon
  <2>. HIDE DEF next
  <2>. QED
    BY <2>1, <2>2, <2>5, <2>6, Coming, Zenon
<1>. QED
  BY <1>4, <1>5, Zenon

\* remove_dir_all of an upload's directory finds all that is left of the upload.
LEMMA BelowIsAll ==
  ASSUME MultipartInv, NEW u \in Uploads
  PROVE  Below(Upload(u)) = Under(u) \cap tree
<1>1. tree \subseteq Nodes
  BY Zenon DEF MultipartInv, FilesInv
<1>2. Below(Upload(u)) \subseteq Under(u) /\ Below(Upload(u)) \subseteq tree
  BY <1>1, BelowUpload, Zenon DEF Below
<1>3. ASSUME NEW q \in Under(u) PROVE Upload(u) \in Upto(q)
  <2>1. /\ Upload(u) \in Upto(Upload(u)) /\ Upload(u) \in Upto(Info(u)) /\ Upload(u) \in Upto(Parts(u))
        /\ \A n : Upload(u) \in Upto(Part(u, n)) /\ Upload(u) \in Upto(PartMeta(u, n))
    <3>1. /\ Upto(Upload(u)) = {Root, <<"uploads">>, Upload(u)}
          /\ Upto(Parts(u)) = {Root, <<"uploads">>, Upload(u), Parts(u)}
          /\ Upto(Info(u)) = {Root, <<"uploads">>, Upload(u), Info(u)}
      BY UptoUpload, Zenon
    <3>2. ASSUME NEW n
          PROVE  /\ Upto(Part(u, n)) = {Root, <<"uploads">>, Upload(u), Parts(u), Part(u, n)}
                 /\ Upto(PartMeta(u, n)) = {Root, <<"uploads">>, Upload(u), Parts(u), PartMeta(u, n)}
      BY UptoUpload, Zenon
    <3>3. Upload(u) \in Upto(Upload(u)) /\ Upload(u) \in Upto(Info(u)) /\ Upload(u) \in Upto(Parts(u))
      BY <3>1, Zenon
    <3>4. ASSUME NEW n PROVE Upload(u) \in Upto(Part(u, n)) /\ Upload(u) \in Upto(PartMeta(u, n))
      BY <3>2, Zenon
    <3>. QED
      BY <3>3, <3>4, Zenon
  <2>2. CASE q \in {Upload(u), Info(u), Parts(u)}
    BY <2>1, <2>2, Zenon
  <2>3. CASE \E n \in PartNumbers : q \in {Part(u, n), PartMeta(u, n)}
    BY <2>1, <2>3, Zenon
  <2>. QED
    BY <2>2, <2>3, Zenon DEF Under
<1>. QED
  BY <1>2, <1>3, Zenon DEF Below

\* AbortMultipartUpload arrives.
LEMMA OrderAbort ==
  ASSUME MultipartInv, OrderInv, env.orderly, Disciplined', NEW t \in Threads, Abort(t)
  PROVE  OrderInv'
<1>1. UNCHANGED <<fs, env, life, acked, settled>> /\ {} \subseteq Common
  BY Zenon DEF Abort, uploadHistory
<1>2. PICK u \in Uploads :
        Known(u) /\ Begin(t, [OnUpload("abort", u) EXCEPT !.todo = Below(Upload(u))], Upload(u) \in tree, "remove")
  BY Zenon DEF Abort
<1>4. CASE Upload(u) \notin tree
  <2>1. UNCHANGED job
    BY <1>2, <1>4, Zenon DEF Begin
  <2>. QED
    BY <1>1, <2>1, CalmRefused, Zenon
<1>5. CASE Upload(u) \in tree
  <2>. DEFINE next == "remove"
  <2>0. PICK b : b = Below(Upload(u))
    BY Zenon
  <2>. DEFINE r == [OnUpload("abort", u) EXCEPT !.todo = b]
  <2>1. Arrives(t, r, next)
    BY <1>2, <1>5, <2>0, Zenon DEF Begin, Arrives
  <2>2. DOMAIN r = JobFields /\ r.op = "abort" /\ r.up = u /\ r.todo = b
    <3>. DEFINE o == OnUpload("abort", u)
    <3>1. DOMAIN o = JobFields /\ o.op = "abort" /\ o.up = u
      BY OnUploadIs, Zenon
    <3>. HIDE DEF o
    <3>2. r = [o EXCEPT !.todo = b]
      BY Zenon DEF o
    <3>. HIDE DEF r
    <3>. QED
      BY <3>1, <3>2, SMTT(20) DEF JobFields
  <2>. HIDE DEF r
  <2>. DEFINE j == [r EXCEPT !.pc = next]
  <2>3. j.op = "abort" /\ j.pc = "remove" /\ j.up = u /\ j.todo = b
    BY <2>2, SMTT(20) DEF JobFields
  <2>. HIDE DEF j
  <2>4. Orderly(j, fs', settled')
    <3>1. /\ j.pc \notin {"finish", "readmeta", "rewrite"} /\ j.pc # "readmeta" /\ j.pc # "rewrite"
          /\ j.pc # "prune" /\ j.op # "part" /\ j.op # "put" /\ j.op # "deleteBucket" /\ j.op # "complete"
      BY <2>3, SMTT(20) DEF HasTmp
    <3>2. j.todo = Under(j.up) \cap DOMAIN fs'
      BY <1>1, <2>0, <2>3, BelowIsAll, Zenon DEF tree
    <3>3. Clearing(j, fs')
      BY <2>3, <3>2, Zenon DEF Clearing
    <3>4. Sending(j, fs', settled') /\ Gathering(j, fs') /\ Replacing(j, fs')
      BY <3>1, Zenon DEF Sending, Gathering, Replacing
    <3>. QED
      BY <3>1, <3>3, <3>4, Zenon DEF Orderly
  <2>5. Orderly([r EXCEPT !.pc = next], fs', settled')
    BY <2>4, Zenon DEF j
  <2>6. Aside(settled) /\ Typed' /\ Marker \in tree' /\ next # "idle"
    <3>1. next # "idle"
      BY SMTT(20)
    <3>2. Marker \in tree
      BY <1>5, MarkerOfUpload, Zenon
    <3>. QED
      BY <1>1, <3>1, <3>2, CalmAside, Zenon
  <2>. HIDE DEF next
  <2>. QED
    BY <2>1, <2>2, <2>5, <2>6, Coming, Zenon
<1>. QED
  BY <1>4, <1>5, Zenon

----------------------------------------------------------------------------
(* The steps of the bucket and of the object.                              *)

\* The frame of a step at the bucket's own paths only, of a handler that removes no upload.
LEMMA ActingOn ==
  ASSUME MultipartInv, OrderInv, env.orderly, Disciplined', NEW t \in Threads, Busy(t), job[t].pc # "remove",
         NEW k, job' = [job EXCEPT ![t] = k], k = NoJob \/ k.op = job[t].op,
         UNCHANGED <<env, life, acked, settled>>,
         NEW ps, ps \subseteq Bucketwide, \A p : p \in ps \/ Same(fs, fs', p),
         MetaDir \in tree => MetaDir \in tree', Marker \in tree => Marker \in tree',
         ps \cap {Object, Meta} = {} \/ job[t].op \in {"put", "delete", "complete"},
         Orderly(k, fs', settled'),
         job[t].op \in {"put", "delete", "complete"} => Described' \/ k.pc = "finish"
  PROVE  OrderInv'
<1>1. DOMAIN job' = Threads /\ job'[t] = k /\ \A q \in Threads \ {t} : job'[q] = job[q]
  BY OnlyOne, Zenon
<1>2. \A q \in Threads \ {t} : Like(job[q], job'[q])
  BY <1>1, Zenon DEF Like
<1>3. Changes(job[t], fs, fs')
  <2>1. \A p \in ps : p \in Common \/ Owns(job[t], p)
    BY Zenon DEF Common, Owns
  <2>. QED
    BY <2>1, Zenon DEF Changes, tree
<1>4. Typed'
  BY Zenon DEF OrderInv, Typed
<1>5. ASSUME NEW u \in Uploads, NEW n \in PartNumbers PROVE PartInv(u, n)'
  <2>1. Upload(u) \in Under(u) /\ Part(u, n) \in Under(u) /\ PartMeta(u, n) \in Under(u)
    BY PathsUnder, Zenon
  <2>2. Same(fs, fs', Part(u, n)) /\ Same(fs, fs', PartMeta(u, n)) /\ Same(fs, fs', Upload(u))
    BY <2>1, UnderNotBucketwide, Zenon
  <2>3. Leaving(u) => Leaving(u)'
    <3>1. ASSUME NEW q \in Threads, job[q].pc = "remove", job[q].up = u PROVE Leaving(u)'
      BY <1>1, <3>1, Zenon DEF Leaving
    <3>. QED
      BY <3>1, Zenon DEF Leaving
  <2>4. PartInv(u, n)
    BY Zenon DEF OrderInv
  <2>. QED
    BY <2>2, <2>3, <2>4, PartSame, Zenon
<1>6. Changes(job[t], fs, fs') /\ env' = env /\ \A u \in Uploads, n \in PartNumbers : life'[u] = life[u] /\ acked'[u][n] = acked[u][n] /\ settled'[u][n] = settled[u][n]
  BY <1>3, Zenon
<1>. QED
  BY <1>1, <1>2, <1>4, <1>5, <1>6, Acting, Zenon

\* A step of the bucket's creation or of the tags.
LEMMA ActingAside ==
  ASSUME MultipartInv, OrderInv, env.orderly, Disciplined', NEW t \in Threads, Busy(t),
         job[t].op \in {"createBucket", "putTagging", "deleteTagging"},
         Done(t) \/ \E next \in {"mark", "writetags"} : Goto(t, next),
         UNCHANGED <<env, life, acked, settled>>,
         NEW ps, ps \subseteq Common, fs' = fs \/ fs' = Make(fs, ps) \/ (fs' = Erase(fs, ps) /\ ps = {Tags})
  PROVE  OrderInv'
<1>1. /\ job[t].op \notin {"put", "delete", "complete"} /\ job[t].op \notin {"part", "complete", "deleteBucket", "put"}
      /\ job[t].pc # "remove" /\ DOMAIN job[t] = JobFields
  <2>1. Staged(job[t].op, job[t].pc) /\ DOMAIN job[t] = JobFields
    BY JobFacts, Zenon
  <2>. QED
    BY <2>1, SMTT(20) DEF Staged
<1>2. \A p : p \in ps \/ Same(fs, fs', p)
  BY MakeSame, EraseSame, Zenon DEF Same
<1>3. (MetaDir \in tree => MetaDir \in tree') /\ (Marker \in tree => Marker \in tree')
  <2>1. MetaDir # Tags /\ Marker # Tags
    BY SMTT(20) DEF MetaDir, Marker, Tags
  <2>2. CASE fs' = fs \/ fs' = Make(fs, ps)
    <3>1. tree \subseteq tree'
      BY <2>2, Made, Zenon DEF tree
    <3>. QED
      BY <3>1, Zenon
  <2>3. CASE fs' = Erase(fs, ps) /\ ps = {Tags}
    <3>1. tree' = tree \ {Tags}
      BY <2>3, Erased, Zenon
    <3>. QED
      BY <2>1, <3>1, Zenon
  <2>. QED
    BY <2>2, <2>3, Zenon
<1>4. ps \subseteq Bucketwide /\ ps \cap {Object, Meta} = {}
  BY Zenon DEF Common
<1>5. PICK k : job' = [job EXCEPT ![t] = k] /\ (k = NoJob \/ \E next \in {"mark", "writetags"} : k = [job[t] EXCEPT !.pc = next])
  BY Zenon DEF Done, Goto
<1>6. (k = NoJob \/ k.op = job[t].op) /\ Orderly(k, fs', settled')
  <2>1. CASE k = NoJob
    BY <2>1, OrderlyIdle, Zenon
  <2>2. ASSUME NEW next \in {"mark", "writetags"}, k = [job[t] EXCEPT !.pc = next]
        PROVE  k.op = job[t].op /\ Orderly(k, fs', settled')
    <3>1. k.op = job[t].op /\ k.pc = next
      BY <1>1, <2>2, SMTT(20) DEF JobFields
    <3>2. k.op \notin {"part", "complete", "deleteBucket", "put"} /\ k.pc \notin {"remove", "finish", "readmeta", "rewrite", "prune"}
      BY <1>1, <3>1, SMTT(20)
    <3>. QED
      BY <3>1, <3>2, OrderlyPlain, Zenon
  <2>. QED
    BY <1>5, <2>1, <2>2, Zenon
<1>. QED
  BY <1>1, <1>2, <1>3, <1>4, <1>5, <1>6, ActingOn, Zenon

\* create_bucket: the directories, and the marker.
LEMMA OrderMakeBucket ==
  ASSUME MultipartInv, OrderInv, env.orderly, Disciplined', NEW t \in Threads, Busy(t), MakeBucket(t) \/ MarkBucket(t)
  PROVE  OrderInv'
<1>1. job[t].op \in {"createBucket", "putTagging", "deleteTagging"}
  <2>1. Staged(job[t].op, job[t].pc) /\ job[t].pc \in {"mkbucket", "mark"}
    BY JobFacts, Zenon DEF MakeBucket, MarkBucket
  <2>. QED
    BY <2>1, SMTT(20) DEF Staged
<1>2. PICK ps : ps \subseteq Common /\ (fs' = fs \/ fs' = Make(fs, ps))
  <2>1. {Root, Data, MetaDir} \subseteq Common /\ {Marker} \subseteq Common
    BY NamesOfBucket, SMTT(20) DEF Common, Bucketwide
  <2>. QED
    BY <2>1, Zenon DEF MakeBucket, MarkBucket
<1>. QED
  BY <1>1, <1>2, ActingAside, Zenon DEF MakeBucket, MarkBucket, history, uploadHistory

\* The tags: made, written, unlinked.
LEMMA OrderTags ==
  ASSUME MultipartInv, OrderInv, env.orderly, Disciplined', NEW t \in Threads, Busy(t), MakeTagDir(t) \/ WriteTags(t) \/ UnlinkTags(t)
  PROVE  OrderInv'
<1>1. job[t].op \in {"createBucket", "putTagging", "deleteTagging"}
  <2>1. Staged(job[t].op, job[t].pc) /\ job[t].pc \in {"mktags", "writetags", "unlinktags"}
    BY JobFacts, Zenon DEF MakeTagDir, WriteTags, UnlinkTags
  <2>. QED
    BY <2>1, SMTT(20) DEF Staged
<1>2. PICK ps : ps \subseteq Common /\ (fs' = fs \/ fs' = Make(fs, ps) \/ (fs' = Erase(fs, ps) /\ ps = {Tags}))
  <2>1. Upto(TagDir) \subseteq Common /\ {Tags} \subseteq Common
    BY UptoAll, NamesOfBucket, SMTT(20) DEF Common, Bucketwide
  <2>. QED
    BY <2>1, Zenon DEF MakeTagDir, WriteTags, UnlinkTags
<1>. QED
  BY <1>1, <1>2, ActingAside, Zenon DEF MakeTagDir, WriteTags, UnlinkTags, history, uploadHistory

\* delete_bucket is at nothing.
LEMMA OrderScan ==
  ASSUME MultipartInv, OrderInv, env.orderly, NEW t \in Threads, Busy(t)
  PROVE  ~ScanData(t) /\ ~ScanVersions(t)
<1>1. job[t].op # "deleteBucket" /\ Staged(job[t].op, job[t].pc)
  BY JobFacts, Zenon DEF OrderInv, Orderly
<1>2. job[t].pc # "scandata" /\ job[t].pc # "scanversions"
  BY <1>1, SMTT(20) DEF Staged
<1>. QED
  BY <1>2, Zenon DEF ScanData, ScanVersions

\* A step of the object's handlers that leaves the object and its metadata alone.
LEMMA ActingCalmly ==
  ASSUME MultipartInv, OrderInv, env.orderly, Disciplined', NEW t \in Threads, Busy(t),
         job[t].op \in {"put", "delete", "complete"}, job[t].pc \notin {"finish", "remove"},
         NEW k, job' = [job EXCEPT ![t] = k], k = NoJob \/ k.op = job[t].op,
         UNCHANGED <<env, life, acked, settled>>,
         NEW ps, ps \subseteq Common, fs' = fs \/ fs' = Make(fs, ps) \/ (fs' = Erase(fs, ps) /\ ps = {Tmp}),
         Orderly(job[t], fs', settled') => Orderly(k, fs', settled')
  PROVE  OrderInv'
<1>1. \A p : p \in ps \/ Same(fs, fs', p)
  BY MakeSame, EraseSame, Zenon DEF Same
<1>2. (MetaDir \in tree => MetaDir \in tree') /\ (Marker \in tree => Marker \in tree')
  <2>1. MetaDir # Tmp /\ Marker # Tmp
    BY SMTT(20) DEF MetaDir, Marker, Tmp
  <2>2. CASE fs' = fs \/ fs' = Make(fs, ps)
    <3>1. tree \subseteq tree'
      BY <2>2, Made, Zenon DEF tree
    <3>. QED
      BY <3>1, Zenon
  <2>3. CASE fs' = Erase(fs, ps) /\ ps = {Tmp}
    <3>1. tree' = tree \ {Tmp}
      BY <2>3, Erased, Zenon
    <3>. QED
      BY <2>1, <3>1, Zenon
  <2>. QED
    BY <2>2, <2>3, Zenon
<1>3. Orderly(k, fs', settled')
  <2>1. \A p : p \in Common \/ Same(fs, fs', p)
    BY <1>1, Zenon
  <2>2. Changes(NoJob, fs, fs')
    BY <1>2, <2>1, Zenon DEF Changes, tree
  <2>3. Apart(NoJob, job[t])
    <3>1. NoJob.op = "none" /\ NoJob.up = Empty
      BY SMTT(20) DEF NoJob
    <3>. QED
      BY <3>1, SMTT(20) DEF Apart
  <2>4. JobOK(job[t]) /\ job[t].pc # "idle" /\ Orderly(job[t], fs, settled)
    BY JobFacts, Zenon DEF OrderInv, JobInv, Busy
  <2>5. Orderly(job[t], fs', settled')
    BY <2>2, <2>3, <2>4, Elsewhere, Zenon
  <2>. QED
    BY <2>5, Zenon
<1>4. Described'
  <2>1. job[t].pc # "finish"
    BY Zenon
  <2>2. Described
    BY <2>1, DescribedHere, Zenon
  <2>3. Object \notin ps /\ Meta \notin ps
    BY Zenon DEF Common
  <2>4. Same(fs, fs', Object) /\ Same(fs, fs', Meta)
    BY <1>1, <2>3, Zenon
  <2>. QED
    BY <2>2, <2>4, Zenon DEF Described, Same, tree
<1>5. ps \subseteq Bucketwide /\ job[t].pc # "remove"
  BY Zenon DEF Common
<1>. QED
  BY <1>1, <1>2, <1>3, <1>4, <1>5, ActingOn, Zenon

\* The facts a step of a completion or a PUT starts from.
LEMMA WriterFacts ==
  ASSUME MultipartInv, OrderInv, env.orderly, NEW t \in Threads, Busy(t)
  PROVE  /\ DOMAIN job[t] = JobFields /\ Staged(job[t].op, job[t].pc) /\ Orderly(job[t], fs, settled)
         /\ job[t].op # "deleteBucket" /\ Sending(job[t], fs, settled) /\ Clearing(job[t], fs)
         /\ Gathering(job[t], fs) /\ Replacing(job[t], fs)
         /\ job[t].op = "complete" => job[t].list \in Seq(PartNumbers) /\ job[t].at \in Nat \ {0}
<1>1. Orderly(job[t], fs, settled)
  BY Zenon DEF OrderInv
<1>2. /\ job[t].op # "deleteBucket" /\ Sending(job[t], fs, settled) /\ Clearing(job[t], fs)
      /\ Gathering(job[t], fs) /\ Replacing(job[t], fs)
  BY <1>1, Zenon DEF Orderly
<1>3. job[t].op = "complete" => job[t].list \in Seq(PartNumbers) /\ job[t].at \in Nat \ {0}
  BY <1>2, PartAssumption, Zenon DEF Gathering
<1>. QED
  BY <1>1, <1>2, <1>3, JobFacts, Zenon

\* A writer between two of its first steps, with nothing read yet.
Early(j, k) ==
    /\ k.op = j.op /\ k.up = j.up /\ k.list = j.list /\ k.at = j.at /\ k.sum = j.sum /\ k.md5s = j.md5s
    /\ j.op \in {"put", "complete"}
    /\ j.pc \in {"writer", "mkparent", "open"} /\ k.pc \in {"mkparent", "open"}

\* It relies on what it relied on.
LEMMA EarlyOrderly ==
  ASSUME NEW j, NEW k, Early(j, k), NEW f, NEW s, Orderly(j, f, s)
  PROVE  Orderly(k, f, s)
<1>1. /\ k.op = j.op /\ k.up = j.up /\ k.list = j.list /\ k.at = j.at /\ k.sum = j.sum /\ k.md5s = j.md5s
      /\ j.pc \in {"writer", "mkparent", "open"} /\ k.op \in {"put", "complete"}
  BY Zenon DEF Early
<1>2. /\ k.pc # "remove" /\ k.pc \notin {"finish", "readmeta", "rewrite"} /\ k.pc # "readmeta" /\ k.pc # "rewrite"
      /\ k.pc # "prune" /\ k.pc \notin {"read", "digest"} /\ k.pc # "digest" /\ ~HasTmp(k) /\ k.pc # "rename"
      /\ k.op # "part" /\ j.pc # "digest" /\ j.pc # "remove" /\ k.op # "deleteBucket"
  BY SMTT(20) DEF Early, HasTmp
<1>3. Gathering(j, f) /\ Replacing(j, f) 
  BY Zenon DEF Orderly
<1>4. Gathering(k, f)
  BY <1>1, <1>2, <1>3, Zenon DEF Gathering
<1>5. Replacing(k, f)
  BY <1>1, <1>2, <1>3, Zenon DEF Replacing
<1>. QED
  BY <1>1, <1>2, <1>4, <1>5, Zenon DEF Orderly, Sending, Clearing

\* put_object_writer: the bucket is asked for again.
LEMMA OrderOpenWriter ==
  ASSUME MultipartInv, OrderInv, env.orderly, Disciplined', NEW t \in Threads, Busy(t), OpenWriter(t)
  PROVE  OrderInv'
<1>1. DOMAIN job[t] = JobFields /\ job[t].op = "complete" /\ job[t].pc = "writer"
  <2>1. job[t].pc = "writer" /\ Staged(job[t].op, job[t].pc) /\ DOMAIN job[t] = JobFields
    BY JobFacts, Zenon DEF OpenWriter
  <2>. QED
    BY <2>1, SMTT(20) DEF Staged
<1>2. job[t].op \in {"put", "delete", "complete"} /\ job[t].pc \notin {"finish", "remove"}
  BY <1>1, SMTT(20)
<1>3. UNCHANGED <<env, life, acked, settled, fs>> /\ {} \subseteq Common
  BY Zenon DEF OpenWriter, history, uploadHistory
<1>4. CASE Done(t)
  <2>1. job' = [job EXCEPT ![t] = NoJob] /\ Orderly(NoJob, fs', settled')
    BY <1>4, OrderlyIdle, Zenon DEF Done
  <2>. QED
    BY <1>2, <1>3, <2>1, ActingCalmly, Zenon
<1>5. CASE Goto(t, "mkparent")
  <2>. DEFINE k == [job[t] EXCEPT !.pc = "mkparent"]
  <2>1. job' = [job EXCEPT ![t] = k]
    BY <1>5, Zenon DEF Goto
  <2>2. k.op = job[t].op /\ Early(job[t], k)
    BY <1>1, SMTT(20) DEF Early, JobFields
  <2>. HIDE DEF k
  <2>3. Orderly(job[t], fs', settled') => Orderly(k, fs', settled')
    BY <2>2, EarlyOrderly, Zenon
  <2>. QED
    BY <1>2, <1>3, <2>1, <2>2, <2>3, ActingCalmly, Zenon
<1>. QED
  BY <1>4, <1>5, Zenon DEF OpenWriter, Check

\* put_object_writer: create_dir_all of the key's parent.
LEMMA OrderMakeParent ==
  ASSUME MultipartInv, OrderInv, env.orderly, Disciplined', NEW t \in Threads, Busy(t), MakeParent(t)
  PROVE  OrderInv'
<1>1. DOMAIN job[t] = JobFields /\ job[t].op \in {"put", "complete"} /\ job[t].pc = "mkparent"
  <2>1. job[t].pc = "mkparent" /\ Staged(job[t].op, job[t].pc) /\ DOMAIN job[t] = JobFields
    BY JobFacts, Zenon DEF MakeParent
  <2>. QED
    BY <2>1, SMTT(20) DEF Staged
<1>2. job[t].op \in {"put", "delete", "complete"} /\ job[t].pc \notin {"finish", "remove"}
  BY <1>1, SMTT(20)
<1>3. UNCHANGED <<env, life, acked, settled>> /\ fs' = Make(fs, Upto(Dir)) /\ Goto(t, "open")
  BY Zenon DEF MakeParent, history, uploadHistory
<1>4. Upto(Dir) \subseteq Common
  BY UptoAll, NamesOfBucket, SMTT(20) DEF Common, Bucketwide
<1>. DEFINE k == [job[t] EXCEPT !.pc = "open"]
<1>5. job' = [job EXCEPT ![t] = k]
  BY <1>3, Zenon DEF Goto
<1>6. k.op = job[t].op /\ Early(job[t], k)
  BY <1>1, SMTT(20) DEF Early, JobFields
<1>. HIDE DEF k
<1>7. Orderly(job[t], fs', settled') => Orderly(k, fs', settled')
  BY <1>6, EarlyOrderly, Zenon
<1>. QED
  BY <1>2, <1>3, <1>4, <1>5, <1>6, <1>7, ActingCalmly, Zenon

----------------------------------------------------------------------------
(* complete_multipart.                                                     *)

\* A completion that has its temporary file: what it relies on, in short.
Reads(k, f) ==
    /\ k.op = "complete" /\ HasTmp(k)
    /\ Upload(k.up) \in DOMAIN f /\ k.list \in Lists /\ k.at \in Nat \ {0} /\ k.at <= Len(k.list) + 1
    /\ k.pc \in {"read", "digest"} => k.at <= Len(k.list)
    /\ k.pc = "rename" => Len(k.list) < k.at
    /\ \E g : Joins(g, k, f)
    /\ IF k.pc = "digest" THEN k.sum = k.md5s \o BlockOf(f, Part(k.up, k.list[k.at])) ELSE k.sum = k.md5s

\* It is Orderly.
LEMMA ReadsOrderly ==
  ASSUME NEW k, NEW f, NEW s, k.op = "complete", HasTmp(k)
  PROVE  Orderly(k, f, s) <=> Reads(k, f)
<1>1. /\ k.pc # "remove" /\ k.pc \notin {"finish", "readmeta", "rewrite"} /\ k.pc # "readmeta" /\ k.pc # "rewrite"
      /\ k.pc # "prune" /\ k.pc \notin {"writer", "mkparent", "open"}
      /\ k.op # "part" /\ k.op # "deleteBucket" /\ k.op # "put"
  BY SMTT(20) DEF HasTmp
<1>2. Gathering(k, f) <=> Reads(k, f)
  <2>1. CASE Gathering(k, f)
    BY <1>1, <2>1, Zenon DEF Gathering, Reads
  <2>2. CASE Reads(k, f)
    BY <1>1, <2>2, Zenon DEF Gathering, Reads
  <2>. QED
    BY <2>1, <2>2, Zenon
<1>. QED
  BY <1>1, <1>2, Zenon DEF Orderly, Sending, Clearing, Replacing

\* put_object_writer: the temporary file.
LEMMA OrderOpenTmp ==
  ASSUME MultipartInv, OrderInv, env.orderly, Disciplined', NEW t \in Threads, Busy(t), OpenTmp(t)
  PROVE  OrderInv'
<1>1. DOMAIN job[t] = JobFields /\ job[t].op \in {"put", "complete"} /\ job[t].pc = "open"
  <2>1. job[t].pc = "open" /\ Staged(job[t].op, job[t].pc) /\ DOMAIN job[t] = JobFields
    BY JobFacts, Zenon DEF OpenTmp
  <2>. QED
    BY <2>1, SMTT(20) DEF Staged
<1>2. job[t].op \in {"put", "delete", "complete"} /\ job[t].pc \notin {"finish", "remove"}
  BY <1>1, SMTT(20)
<1>3. PICK ps : ps \subseteq Common /\ (fs' = fs \/ fs' = Make(fs, ps))
  <2>1. {Tmp} \subseteq Common
    BY NamesOfBucket, SMTT(20) DEF Common, Bucketwide
  <2>. QED
    BY <2>1, Zenon DEF OpenTmp
<1>4. UNCHANGED <<env, life, acked, settled>>
  BY Zenon DEF OpenTmp, history, uploadHistory
<1>5. CASE Done(t)
  <2>1. job' = [job EXCEPT ![t] = NoJob] /\ Orderly(NoJob, fs', settled')
    BY <1>5, OrderlyIdle, Zenon DEF Done
  <2>. QED
    BY <1>2, <1>3, <1>4, <2>1, ActingCalmly, Zenon
<1>6. CASE job[t].op = "put" /\ Goto(t, "rename")
  <2>. DEFINE k == [job[t] EXCEPT !.pc = "rename"]
  <2>1. job' = [job EXCEPT ![t] = k]
    BY <1>6, Zenon DEF Goto
  <2>2. k.op = "put" /\ k.pc = "rename" /\ k.sum = job[t].sum
    BY <1>1, <1>6, SMTT(20) DEF JobFields
  <2>. HIDE DEF k
  <2>3. /\ k.pc # "remove" /\ k.pc \notin {"finish", "readmeta", "rewrite"} /\ k.pc # "readmeta" /\ k.pc # "rewrite"
        /\ k.pc # "prune" /\ k.op # "part" /\ k.op # "deleteBucket" /\ k.op # "complete"
    BY <2>2, SMTT(20)
  <2>4. \E b \in Bodies : k.sum = <<b>>
    BY <1>6, <2>2, WriterFacts, Zenon DEF Replacing
  <2>5. Orderly(k, fs', settled')
    BY <2>2, <2>3, <2>4, Zenon DEF Orderly, Sending, Clearing, Gathering, Replacing
  <2>. QED
    BY <1>2, <1>3, <1>4, <1>6, <2>1, <2>2, <2>5, ActingCalmly, Zenon
<1>7. CASE job[t].op # "put" /\ Goto(t, "exists")
  <2>. DEFINE k == [job[t] EXCEPT !.pc = "exists"]
  <2>1. job' = [job EXCEPT ![t] = k]
    BY <1>7, Zenon DEF Goto
  <2>2. /\ k.op = job[t].op /\ k.op = "complete" /\ k.pc = "exists" /\ k.sum = job[t].sum /\ k.up = job[t].up /\ k.list = job[t].list
        /\ k.at = job[t].at /\ k.md5s = job[t].md5s
    BY <1>1, <1>7, SMTT(20) DEF JobFields
  <2>3. HasTmp(k)
    BY <2>2, SMTT(20) DEF HasTmp
  <2>. HIDE DEF k
  <2>4. ASSUME Orderly(job[t], fs', settled') PROVE Orderly(k, fs', settled')
    <3>1. Gathering(job[t], fs')
      BY <2>4, Zenon DEF Orderly
    <3>2. /\ job[t].pc \in {"writer", "mkparent", "open"} /\ job[t].pc # "digest" /\ job[t].pc # "remove" /\ job[t].op = "complete"
      BY <1>1, <2>2, SMTT(20)
    <3>3. /\ Upload(k.up) \in DOMAIN fs' /\ k.list \in Lists /\ k.at = 1 /\ k.sum = <<>> /\ k.sum = k.md5s
      BY <2>2, <3>1, <3>2, Zenon DEF Gathering
    <3>4. k.list \in Seq(PartNumbers)
      BY <3>3, PartAssumption, Zenon
    <3>5. k.at \in Nat \ {0} /\ k.at <= Len(k.list) + 1 /\ k.pc \notin {"read", "digest"} /\ k.pc # "rename" /\ k.pc # "digest"
          /\ Got(k) = 0 /\ 1..Got(k) = {}
      BY <2>2, <3>3, <3>4, SMTT(20) DEF Got
    <3>. DEFINE g == [i \in {0} |-> <<>>]
    <3>6. Joins(g, k, fs')
      <4>1. g[0] = <<>>
        BY Zenon
      <4>. HIDE DEF g
      <4>. QED
        BY <3>3, <3>5, <4>1, Zenon DEF Joins
    <3>7. Reads(k, fs')
      BY <2>2, <2>3, <3>3, <3>5, <3>6, Zenon DEF Reads
    <3>. QED
      BY <2>2, <2>3, <3>7, ReadsOrderly, Zenon
  <2>. QED
    BY <1>2, <1>3, <1>4, <2>1, <2>2, <2>4, ActingCalmly, Zenon
<1>8. Done(t) \/ (job[t].op = "put" /\ Goto(t, "rename")) \/ (job[t].op # "put" /\ Goto(t, "exists"))
  <2>1. CASE job[t].op = "put"
    BY <2>1, Zenon DEF OpenTmp, Check
  <2>2. CASE job[t].op # "put"
    BY <2>2, Zenon DEF OpenTmp, Check
  <2>. QED
    BY <2>1, <2>2, Zenon
<1>. QED
  BY <1>5, <1>6, <1>7, <1>8, Zenon

\* complete_multipart at the parts of its list: what the steps start from.
LEMMA ReaderFacts ==
  ASSUME MultipartInv, OrderInv, env.orderly, NEW t \in Threads, Busy(t), job[t].pc \in {"exists", "read", "digest"}
  PROVE  /\ DOMAIN job[t] = JobFields /\ job[t].op = "complete" /\ HasTmp(job[t])
         /\ job[t].op \in {"put", "delete", "complete"} /\ job[t].pc \notin {"finish", "remove"}
         /\ \A f, s : Orderly(job[t], f, s) <=> Reads(job[t], f)
<1>1. Staged(job[t].op, job[t].pc) /\ DOMAIN job[t] = JobFields
  BY JobFacts, Zenon
<1>2. /\ job[t].op = "complete" /\ HasTmp(job[t])
      /\ job[t].op \in {"put", "delete", "complete"} /\ job[t].pc \notin {"finish", "remove"}
  BY <1>1, SMTT(20) DEF Staged, HasTmp
<1>. QED
  BY <1>1, <1>2, ReadsOrderly, Zenon

\* complete_multipart: the next part is looked for.
LEMMA OrderPartExists ==
  ASSUME MultipartInv, OrderInv, env.orderly, Disciplined', NEW t \in Threads, Busy(t), PartExists(t)
  PROVE  OrderInv'
<1>0. job[t].pc = "exists" /\ job[t].pc \in {"exists", "read", "digest"}
  <2>1. job[t].pc = "exists"
    BY Zenon DEF PartExists
  <2>. QED
    BY <2>1, SMTT(20)
<1>1. /\ DOMAIN job[t] = JobFields /\ job[t].op = "complete" /\ HasTmp(job[t])
      /\ job[t].op \in {"put", "delete", "complete"} /\ job[t].pc \notin {"finish", "remove"}
      /\ \A f, s : Orderly(job[t], f, s) <=> Reads(job[t], f)
  BY <1>0, ReaderFacts, Zenon
<1>3. PICK ps : ps \subseteq Common /\ (fs' = fs \/ (fs' = Erase(fs, ps) /\ ps = {Tmp}))
  <2>1. {Tmp} \subseteq Common
    BY NamesOfBucket, SMTT(20) DEF Common, Bucketwide
  <2>. QED
    BY <2>1, Zenon DEF PartExists
<1>4. UNCHANGED <<env, life, acked, settled>>
  BY Zenon DEF PartExists, history, uploadHistory
<1>5. CASE Done(t)
  <2>1. job' = [job EXCEPT ![t] = NoJob] /\ Orderly(NoJob, fs', settled')
    BY <1>5, OrderlyIdle, Zenon DEF Done
  <2>. QED
    BY <1>1, <1>3, <1>4, <2>1, ActingCalmly, Zenon
<1>6. ASSUME NEW next, Goto(t, next), (next = "read" /\ PartsLeft(t)) \/ (next = "rename" /\ ~PartsLeft(t))
      PROVE  OrderInv'
  <2>. DEFINE k == [job[t] EXCEPT !.pc = next]
  <2>1. job' = [job EXCEPT ![t] = k]
    BY <1>6, Zenon DEF Goto
  <2>2. /\ k.op = job[t].op /\ k.op = "complete" /\ k.pc = next /\ k.sum = job[t].sum /\ k.up = job[t].up /\ k.list = job[t].list
        /\ k.at = job[t].at /\ k.md5s = job[t].md5s
    BY <1>1, SMTT(20) DEF JobFields
  <2>. HIDE DEF k
  <2>3. HasTmp(k) /\ k.pc # "digest" /\ job[t].pc # "digest" /\ (k.pc = "rename" <=> ~PartsLeft(t))
    BY <1>0, <1>6, <2>2, SMTT(20) DEF HasTmp
  <2>4. ASSUME Reads(job[t], fs') PROVE Reads(k, fs')
    <3>1. PICK g : Joins(g, job[t], fs')
      BY <2>4, Zenon DEF Reads
    <3>2. Got(k) = Got(job[t])
      BY <2>2, <2>3, Zenon DEF Got
    <3>3. Joins(g, k, fs')
      BY <2>2, <3>1, <3>2, Zenon DEF Joins
    <3>4. job[t].list \in Seq(PartNumbers) /\ job[t].at \in Nat
      BY <2>4, PartAssumption, Zenon DEF Reads
    <3>5. PartsLeft(t) <=> k.at <= Len(k.list)
      BY <2>2, Zenon DEF PartsLeft
    <3>6. ~PartsLeft(t) => Len(k.list) < k.at
      BY <2>2, <3>4, SMTT(20) DEF PartsLeft
    <3>7. k.pc \in {"read", "digest"} => PartsLeft(t)
      BY <1>6, <2>2, SMTT(20)
    <3>. QED
      BY <2>2, <2>3, <2>4, <3>3, <3>5, <3>6, <3>7, Zenon DEF Reads
  <2>5. Orderly(job[t], fs', settled') => Orderly(k, fs', settled')
    BY <1>1, <2>2, <2>3, <2>4, ReadsOrderly, Zenon
  <2>. QED
    BY <1>1, <1>3, <1>4, <2>1, <2>2, <2>5, ActingCalmly, Zenon
<1>7. Done(t) \/ \E next : Goto(t, next) /\ ((next = "read" /\ PartsLeft(t)) \/ (next = "rename" /\ ~PartsLeft(t)))
  <2>1. PICK next : next = IF PartsLeft(t) THEN "read" ELSE "rename"
    BY Zenon
  <2>2. Done(t) \/ Goto(t, next)
    BY <2>1, Zenon DEF PartExists, Check
  <2>. QED
    BY <2>1, <2>2, Zenon
<1>. QED
  BY <1>5, <1>6, <1>7, Zenon

\* complete_multipart: a part is copied, or has gone since it was looked for.
LEMMA OrderReadPart ==
  ASSUME MultipartInv, OrderInv, env.orderly, Disciplined', NEW t \in Threads, Busy(t), ReadPart(t)
  PROVE  OrderInv'
<1>0. job[t].pc = "read" /\ job[t].pc \in {"exists", "read", "digest"}
  <2>1. job[t].pc = "read"
    BY Zenon DEF ReadPart
  <2>. QED
    BY <2>1, SMTT(20)
<1>1. /\ DOMAIN job[t] = JobFields /\ job[t].op = "complete" /\ HasTmp(job[t])
      /\ job[t].op \in {"put", "delete", "complete"} /\ job[t].pc \notin {"finish", "remove"}
      /\ \A f, s : Orderly(job[t], f, s) <=> Reads(job[t], f)
  BY <1>0, ReaderFacts, Zenon
<1>2. UNCHANGED <<env, life, acked, settled, fs>> /\ {} \subseteq Common
  BY Zenon DEF ReadPart, history, uploadHistory
<1>3. CASE Done(t)
  <2>1. job' = [job EXCEPT ![t] = NoJob] /\ Orderly(NoJob, fs', settled')
    BY <1>3, OrderlyIdle, Zenon DEF Done
  <2>. QED
    BY <1>1, <1>2, <2>1, ActingCalmly, Zenon
<1>. DEFINE p == Part(job[t].up, Listed(t))
<1>4. CASE p \in tree /\ job' = [job EXCEPT ![t].pc = "digest", ![t].sum = @ \o Block(p)]
  <2>0. PICK x : x = job[t].sum \o Block(p)
    BY Zenon
  <2>. DEFINE k == [job[t] EXCEPT !.pc = "digest", !.sum = x]
  <2>1. job' = [job EXCEPT ![t] = k]
    BY <1>4, <2>0, Zenon
  <2>2. /\ k.op = job[t].op /\ k.op = "complete" /\ k.pc = "digest" /\ k.sum = x /\ k.up = job[t].up /\ k.list = job[t].list
        /\ k.at = job[t].at /\ k.md5s = job[t].md5s
    BY <1>1, SMTT(20) DEF JobFields
  <2>. HIDE DEF k
  <2>3. HasTmp(k) /\ k.pc \in {"read", "digest"} /\ k.pc # "rename" /\ job[t].pc # "digest" /\ job[t].pc \in {"read", "digest"}
    BY <1>0, <2>2, SMTT(20) DEF HasTmp
  <2>4. ASSUME Reads(job[t], fs') PROVE Reads(k, fs')
    <3>1. PICK g : Joins(g, job[t], fs')
      BY <2>4, Zenon DEF Reads
    <3>2. Got(k) = k.at /\ Got(job[t]) = k.at - 1
      BY <2>2, <2>3, Zenon DEF Got
    <3>3. k.at \in Nat \ {0}
      BY <2>2, <2>4, Zenon DEF Reads
    <3>4. p = Part(k.up, k.list[k.at]) /\ p \in DOMAIN fs' /\ Block(p) = BlockOf(fs', p)
      BY <1>2, <1>4, <2>2, Zenon DEF Listed, Block, BlockOf, tree
    <3>. DEFINE h == [i \in 0..k.at |-> IF i = k.at THEN x ELSE g[i]]
    <3>5. k.at \in 0..k.at /\ h[k.at] = x
      BY <3>3, SMTT(20)
    <3>6. \A i \in 0..(k.at - 1) : h[i] = g[i]
      BY <3>3, SMTT(20)
    <3>. HIDE DEF h
    <3>7. g[0] = <<>> /\ job[t].sum = g[k.at - 1]
          /\ \A i \in 1..(k.at - 1) : Part(k.up, k.list[i]) \in DOMAIN fs' /\ g[i] = g[i - 1] \o BlockOf(fs', Part(k.up, k.list[i]))
      BY <2>2, <3>1, <3>2, Zenon DEF Joins
    <3>8. 0 \in 0..(k.at - 1) /\ k.at - 1 \in 0..(k.at - 1) /\ \A i \in 1..(k.at - 1) : i \in 0..(k.at - 1) /\ i - 1 \in 0..(k.at - 1)
      BY <3>3, SMTT(20)
    <3>9. h[0] = <<>>
      BY <3>6, <3>7, <3>8, Zenon
    <3>10. ASSUME NEW i \in 1..k.at PROVE Part(k.up, k.list[i]) \in DOMAIN fs' /\ h[i] = h[i - 1] \o BlockOf(fs', Part(k.up, k.list[i]))
      <4>1. CASE i = k.at
        <5>1. h[i] = x /\ h[i - 1] = g[k.at - 1]
          BY <3>5, <3>6, <3>8, <4>1, Zenon
        <5>2. x = g[k.at - 1] \o BlockOf(fs', p)
          BY <2>0, <3>4, <3>7, Zenon
        <5>. QED
          BY <3>4, <4>1, <5>1, <5>2, Zenon
      <4>2. CASE i # k.at
        <5>1. i \in 1..(k.at - 1)
          BY <3>3, <4>2, SMTT(20)
        <5>. QED
          BY <3>6, <3>7, <3>8, <5>1, Zenon
      <4>. QED
        BY <4>1, <4>2, Zenon
    <3>11. Joins(h, k, fs')
      BY <2>2, <3>2, <3>5, <3>9, <3>10, Zenon DEF Joins
    <3>12. k.sum = k.md5s \o BlockOf(fs', Part(k.up, k.list[k.at]))
      <4>1. job[t].sum = job[t].md5s
        BY <2>3, <2>4, Zenon DEF Reads
      <4>. QED
        BY <2>0, <2>2, <3>4, <4>1, Zenon
    <3>. QED
      BY <2>2, <2>3, <2>4, <3>11, <3>12, Zenon DEF Reads
  <2>5. Orderly(job[t], fs', settled') => Orderly(k, fs', settled')
    BY <1>1, <2>2, <2>3, <2>4, ReadsOrderly, Zenon
  <2>. QED
    BY <1>1, <1>2, <2>1, <2>2, <2>5, ActingCalmly, Zenon
<1>. QED
  BY <1>3, <1>4, Zenon DEF ReadPart

\* The part a completion reads is whole, and its digest is of it.
LEMMA DigestOfPart ==
  ASSUME MultipartInv, OrderInv, env.orderly, NEW t \in Threads, Busy(t), job[t].op = "complete", job[t].pc # "remove",
         NEW i \in 1..Len(job[t].list)
  PROVE  BlockOf(fs, PartMeta(job[t].up, job[t].list[i])) = BlockOf(fs, Part(job[t].up, job[t].list[i]))
<1>. DEFINE u == job[t].up n == job[t].list[i]
<1>1. settled[u][n]
  BY Zenon DEF OrderInv, Disciplined
<1>2. u \in Uploads /\ u # Empty
  <2>1. job[t].op \in UploadOps
    BY SMTT(20) DEF UploadOps
  <2>. QED
    BY <2>1, JobFacts, EmptyAssumption, Zenon
<1>3. Upload(u) \in tree /\ n \in PartNumbers
  <2>1. Gathering(job[t], fs) /\ job[t].list \in Seq(PartNumbers)
    BY WriterFacts, Zenon
  <2>2. n \in PartNumbers
    BY <2>1, SMTT(20)
  <2>. QED
    BY <2>1, <2>2, Zenon DEF Gathering, tree
<1>4. ~Leaving(u)
  <2>1. ASSUME NEW q \in Threads, job[q].pc = "remove", job[q].up = u PROVE FALSE
    <3>1. q # t
      BY <2>1, Zenon
    <3>2. Busy(q)
      BY <2>1, SMTT(20) DEF Busy
    <3>3. Apart(job[t], job[q])
      BY <3>1, <3>2, ApartPairs, Zenon DEF OrderInv
    <3>4. job[t].op = "part"
      BY <1>2, <2>1, <3>3, Zenon DEF Apart
    <3>. QED
      BY <3>4, SMTT(20)
  <2>. QED
    BY <2>1, Zenon DEF Leaving
<1>5. PartInv(u, n)
  BY <1>2, <1>3, Zenon DEF OrderInv
<1>6. IF acked[u][n] = Empty THEN Part(u, n) \notin tree /\ PartMeta(u, n) \notin tree
      ELSE /\ Part(u, n) \in tree /\ PartMeta(u, n) \in tree
           /\ fs[Part(u, n)] = acked[u][n] /\ fs[PartMeta(u, n)] = acked[u][n]
  BY <1>1, <1>3, <1>4, <1>5, Zenon DEF PartInv
<1>. QED
  BY <1>6, Zenon DEF BlockOf, tree

\* complete_multipart: the digest of the part just copied.
LEMMA OrderReadDigest ==
  ASSUME MultipartInv, OrderInv, env.orderly, Disciplined', NEW t \in Threads, Busy(t), ReadDigest(t)
  PROVE  OrderInv'
<1>0. job[t].pc = "digest" /\ job[t].pc \in {"exists", "read", "digest"} /\ job[t].pc \in {"read", "digest"}
  <2>1. job[t].pc = "digest"
    BY Zenon DEF ReadDigest
  <2>. QED
    BY <2>1, SMTT(20)
<1>1. /\ DOMAIN job[t] = JobFields /\ job[t].op = "complete" /\ HasTmp(job[t])
      /\ job[t].op \in {"put", "delete", "complete"} /\ job[t].pc \notin {"finish", "remove"}
      /\ \A f, s : Orderly(job[t], f, s) <=> Reads(job[t], f)
  BY <1>0, ReaderFacts, Zenon
<1>2. UNCHANGED <<env, life, acked, settled, fs>> /\ {} \subseteq Common
  BY Zenon DEF ReadDigest, history, uploadHistory
<1>. DEFINE p == PartMeta(job[t].up, Listed(t))
<1>3. PICK x : x = job[t].md5s \o Block(p)
  BY Zenon
<1>4. PICK a : a = job[t].at + 1
  BY Zenon
<1>. DEFINE k == [job[t] EXCEPT !.pc = "exists", !.at = a, !.md5s = x]
<1>5. job' = [job EXCEPT ![t] = k]
  BY <1>3, <1>4, Zenon DEF ReadDigest
<1>6. /\ k.op = job[t].op /\ k.op = "complete" /\ k.pc = "exists" /\ k.sum = job[t].sum /\ k.up = job[t].up /\ k.list = job[t].list
      /\ k.at = a /\ k.md5s = x
  BY <1>1, SMTT(20) DEF JobFields
<1>. HIDE DEF k
<1>7. HasTmp(k) /\ k.pc \notin {"read", "digest"} /\ k.pc # "rename" /\ k.pc # "digest"
  BY <1>6, SMTT(20) DEF HasTmp
<1>8. ASSUME Reads(job[t], fs') PROVE Reads(k, fs')
  <2>1. PICK g : Joins(g, job[t], fs')
    BY <1>8, Zenon DEF Reads
  <2>2. job[t].at \in Nat \ {0} /\ job[t].at <= Len(job[t].list) /\ job[t].list \in Seq(PartNumbers)
    BY <1>0, <1>8, PartAssumption, Zenon DEF Reads
  <2>3. a \in Nat \ {0} /\ a <= Len(job[t].list) + 1 /\ a - 1 = job[t].at /\ job[t].at \in 1..Len(job[t].list)
    BY <1>4, <2>2, SMTT(20)
  <2>4. Got(k) = job[t].at /\ Got(job[t]) = job[t].at
    BY <1>0, <1>6, <1>7, <2>3, Zenon DEF Got
  <2>5. Joins(g, k, fs')
    BY <1>6, <2>1, <2>4, Zenon DEF Joins
  <2>6. k.sum = k.md5s
    <3>1. job[t].sum = job[t].md5s \o BlockOf(fs', Part(job[t].up, job[t].list[job[t].at]))
      BY <1>0, <1>8, Zenon DEF Reads
    <3>2. job[t].pc # "remove"
      BY <1>0, SMTT(20)
    <3>3. BlockOf(fs, PartMeta(job[t].up, job[t].list[job[t].at])) = BlockOf(fs, Part(job[t].up, job[t].list[job[t].at]))
      BY <1>1, <2>3, <3>2, DigestOfPart, Zenon
    <3>4. Block(p) = BlockOf(fs, PartMeta(job[t].up, job[t].list[job[t].at]))
      BY Zenon DEF Block, BlockOf, Listed, tree
    <3>. QED
      BY <1>2, <1>3, <1>6, <3>1, <3>3, <3>4, Zenon
  <2>7. Upload(k.up) \in DOMAIN fs' /\ k.list \in Lists
    BY <1>6, <1>8, Zenon DEF Reads
  <2>. QED
    BY <1>6, <1>7, <2>3, <2>5, <2>6, <2>7, Zenon DEF Reads
<1>9. Orderly(job[t], fs', settled') => Orderly(k, fs', settled')
  BY <1>1, <1>6, <1>7, <1>8, ReadsOrderly, Zenon
<1>. QED
  BY <1>1, <1>2, <1>5, <1>6, <1>9, ActingCalmly, Zenon

\* A completion after the rename.
Replaced(k, f) ==
    /\ Upload(k.up) \in DOMAIN f /\ k.list \in Lists /\ k.at \in Nat \ {0} /\ k.sum = k.md5s
    /\ Object \in DOMAIN f /\ f[Object] = k.sum /\ MetaDir \in DOMAIN f

\* What a writer relies on then.
LEMMA ReplacedOrderly ==
  ASSUME NEW k, k.op = "complete", k.pc \in {"finish", "readmeta", "rewrite"}, NEW f, NEW s, Replaced(k, f),
         k.pc = "readmeta" => Meta \in DOMAIN f /\ f[Meta].of = k.sum, k.pc = "rewrite" => k.seen = k.sum
  PROVE  Orderly(k, f, s)
<1>1. /\ k.pc # "remove" /\ k.pc # "prune" /\ k.pc \notin {"read", "digest"} /\ k.pc # "digest" /\ ~HasTmp(k) /\ k.pc # "rename"
      /\ k.pc \notin {"writer", "mkparent", "open"} /\ k.op # "part" /\ k.op # "deleteBucket" /\ k.op # "put"
  BY SMTT(20) DEF HasTmp
<1>. QED
  BY <1>1, Zenon DEF Replaced, Orderly, Sending, Clearing, Gathering, Replacing

\* And the other way around.
LEMMA ReplacedFacts ==
  ASSUME NEW k, k.op = "complete", k.pc \in {"rename", "finish", "readmeta", "rewrite"}, NEW f, NEW s, Orderly(k, f, s)
  PROVE  /\ Upload(k.up) \in DOMAIN f /\ k.list \in Lists /\ k.at \in Nat \ {0} /\ k.sum = k.md5s
         /\ k.pc # "rename" => Replaced(k, f)
         /\ k.pc = "rewrite" => k.seen = k.sum
         /\ k.pc = "readmeta" => Meta \in DOMAIN f /\ f[Meta].of = k.sum
<1>1. k.pc # "remove" /\ k.pc # "digest" /\ (k.pc # "rename" => k.pc \in {"finish", "readmeta", "rewrite"})
  BY SMTT(20)
<1>2. Gathering(k, f) /\ Replacing(k, f)
  BY Zenon DEF Orderly
<1>3. Upload(k.up) \in DOMAIN f /\ k.list \in Lists /\ k.at \in Nat \ {0} /\ k.sum = k.md5s
  BY <1>1, <1>2, Zenon DEF Gathering
<1>. QED
  BY <1>1, <1>2, <1>3, Zenon DEF Replacing, Replaced

\* finish up to the rename: from here on the object is the upload's contents.
LEMMA OrderRename ==
  ASSUME MultipartInv, OrderInv, env.orderly, Disciplined', NEW t \in Threads, Busy(t), Rename(t)
  PROVE  OrderInv'
<1>1. DOMAIN job[t] = JobFields /\ job[t].op \in {"put", "complete"} /\ job[t].pc = "rename"
  <2>1. job[t].pc = "rename" /\ Staged(job[t].op, job[t].pc) /\ DOMAIN job[t] = JobFields
    BY JobFacts, Zenon DEF Rename
  <2>. QED
    BY <2>1, SMTT(20) DEF Staged
<1>2. job[t].op \in {"put", "delete", "complete"} /\ job[t].pc \notin {"finish", "remove"}
  BY <1>1, SMTT(20)
<1>3. UNCHANGED <<env, life, acked, settled>>
  BY Zenon DEF Rename, history, uploadHistory
<1>4. CASE ~(Tmp \in tree /\ Nest \notin tree)
  <2>1. fs' = Make(fs, Upto(MetaDir)) /\ job' = [job EXCEPT ![t] = NoJob] /\ Orderly(NoJob, fs', settled')
    BY <1>4, OrderlyIdle, Zenon DEF Rename, Check, Done
  <2>2. Upto(MetaDir) \subseteq Common
    BY UptoAll, NamesOfBucket, SMTT(20) DEF Common, Bucketwide
  <2>. QED
    BY <1>2, <1>3, <2>1, <2>2, ActingCalmly, Zenon
<1>5. CASE Tmp \in tree /\ Nest \notin tree
  <2>. DEFINE k == [job[t] EXCEPT !.pc = "finish"]
  <2>1. job' = [job EXCEPT ![t] = k]
    BY <1>5, Zenon DEF Rename, Check, Goto
  <2>2. /\ k.op = job[t].op /\ k.pc = "finish" /\ k.sum = job[t].sum /\ k.up = job[t].up /\ k.list = job[t].list
        /\ k.at = job[t].at /\ k.md5s = job[t].md5s
    BY <1>1, SMTT(20) DEF JobFields
  <2>. HIDE DEF k
  <2>3. PICK made : made = Make(fs, Upto(MetaDir))
    BY Zenon
  <2>4. PICK g : g = Write(made, Object, job[t].sum)
    BY Zenon
  <2>5. fs' = Erase(g, {Tmp})
    BY <1>5, <2>3, <2>4, Zenon DEF Rename
  <2>6. DOMAIN made = DOMAIN fs \cup {Root, MetaDir} /\ \A p \in DOMAIN fs : made[p] = fs[p]
    <3>1. Upto(MetaDir) = {Root, MetaDir}
      BY UptoAll, Zenon
    <3>2. DOMAIN made = DOMAIN fs \cup Upto(MetaDir)
      BY <2>3, MakeIs, Zenon
    <3>3. \A p \in DOMAIN fs : made[p] = fs[p]
      BY <2>3, Zenon DEF Make
    <3>. QED
      BY <3>1, <3>2, <3>3, Zenon
  <2>7. DOMAIN g = DOMAIN made \cup {Object} /\ g[Object] = job[t].sum /\ \A p \in DOMAIN made \ {Object} : g[p] = made[p]
    BY <2>4, Zenon DEF Write
  <2>8. DOMAIN fs' = DOMAIN g \ {Tmp} /\ \A p \in DOMAIN g \ {Tmp} : fs'[p] = g[p]
    BY <2>5, EraseIs, Zenon
  <2>9. PICK ps : ps = {Root, MetaDir, Object, Tmp}
    BY Zenon
  <2>10. ps \subseteq Bucketwide /\ Tmp \notin {Root, MetaDir, Marker, Object}
    BY <2>9, NamesOfBucket, SMTT(20) DEF Bucketwide
  <2>11. \A p : p \in ps \/ Same(fs, fs', p)
    BY <2>6, <2>7, <2>8, <2>9, Zenon DEF Same
  <2>12. Object \in tree' /\ fs'[Object] = job[t].sum /\ MetaDir \in tree' /\ (Marker \in tree => Marker \in tree')
    BY <2>6, <2>7, <2>8, <2>10, Zenon DEF tree
  <2>13. Orderly(k, fs', settled')
    <3>1. CASE job[t].op = "complete"
      <4>1. Upload(job[t].up) \in DOMAIN fs'
        <5>1. Upload(job[t].up) \in DOMAIN fs
          BY <1>1, <3>1, WriterFacts, ReplacedFacts, Zenon
        <5>2. Upload(job[t].up) \notin ps
          BY <2>10, PathsUnder, UnderNotBucketwide, Zenon
        <5>. QED
          BY <2>11, <5>1, <5>2, Zenon DEF Same
      <4>2. job[t].pc \in {"rename", "finish", "readmeta", "rewrite"}
        BY <1>1, SMTT(20)
      <4>3. job[t].list \in Lists /\ job[t].at \in Nat \ {0} /\ job[t].sum = job[t].md5s
        BY <3>1, <4>2, WriterFacts, ReplacedFacts, Zenon
      <4>4. Replaced(k, fs')
        BY <2>2, <2>12, <4>1, <4>3, Zenon DEF Replaced, tree
      <4>5. k.pc \in {"finish", "readmeta", "rewrite"} /\ k.pc # "readmeta" /\ k.pc # "rewrite"
        BY <2>2, SMTT(20)
      <4>. QED
        BY <2>2, <3>1, <4>4, <4>5, ReplacedOrderly, Zenon
    <3>2. CASE job[t].op = "put"
      <4>1. /\ k.pc # "remove" /\ k.pc # "prune" /\ k.pc # "readmeta" /\ k.pc # "rewrite"
            /\ k.op # "part" /\ k.op # "deleteBucket" /\ k.op # "complete"
        BY <2>2, <3>2, SMTT(20)
      <4>2. \E b \in Bodies : k.sum = <<b>>
        BY <2>2, <3>2, WriterFacts, Zenon DEF Replacing
      <4>. QED
        BY <2>2, <2>12, <4>1, <4>2, Zenon DEF Orderly, Sending, Clearing, Gathering, Replacing, tree
    <3>. QED
      BY <1>1, <3>1, <3>2, Zenon
  <2>14. job[t].pc # "remove"
    BY <1>1, SMTT(20)
  <2>. QED
    BY <1>2, <1>3, <2>1, <2>2, <2>10, <2>11, <2>12, <2>13, <2>14, ActingOn, Zenon
<1>. QED
  BY <1>4, <1>5, Zenon

\* finish after the rename: version and metadata.
LEMMA OrderFinish ==
  ASSUME MultipartInv, OrderInv, env.orderly, Disciplined', NEW t \in Threads, Busy(t), Finish(t)
  PROVE  OrderInv'
<1>1. DOMAIN job[t] = JobFields /\ job[t].op \in {"put", "complete"} /\ job[t].pc = "finish"
  <2>1. job[t].pc = "finish" /\ Staged(job[t].op, job[t].pc) /\ DOMAIN job[t] = JobFields
    BY JobFacts, Zenon DEF Finish
  <2>. QED
    BY <2>1, SMTT(20) DEF Staged
<1>2. job[t].op \in {"put", "delete", "complete"} /\ job[t].pc # "remove" /\ job[t].pc \in {"finish", "readmeta", "rewrite"}
      /\ job[t].pc \in {"rename", "finish", "readmeta", "rewrite"} /\ job[t].pc # "rename"
  BY <1>1, SMTT(20)
<1>3. UNCHANGED <<env, life, acked, settled>>
  BY Zenon DEF Finish, uploadHistory
<1>4. Object \in tree /\ fs[Object] = job[t].sum /\ MetaDir \in tree
  BY <1>2, WriterFacts, Zenon DEF Replacing, tree
<1>6. PICK kept, vs : vs \subseteq {Root, Versions, Version} /\ (kept = fs \/ kept = Make(fs, vs))
                      /\ fs' = Write(kept, Meta, [of |-> job[t].sum, etag |-> <<"plain", job[t].sum>>])
  <2>1. Upto(Version) = {Root, Versions, Version}
    BY UptoAll, Zenon
  <2>2. CASE env.versioned
    BY <1>4, <2>1, <2>2, Zenon DEF Finish
  <2>3. CASE ~env.versioned
    BY <1>4, <2>1, <2>3, Zenon DEF Finish
  <2>. QED
    BY <2>2, <2>3, Zenon
<1>7. DOMAIN fs \subseteq DOMAIN kept /\ DOMAIN kept \subseteq DOMAIN fs \cup vs /\ \A p \in DOMAIN fs : kept[p] = fs[p]
  <2>1. CASE kept = fs
    BY <2>1, Zenon
  <2>2. CASE kept = Make(fs, vs)
    <3>1. DOMAIN kept = DOMAIN fs \cup vs
      BY <2>2, MakeIs, Zenon
    <3>2. \A p \in DOMAIN fs : kept[p] = fs[p]
      BY <2>2, Zenon DEF Make
    <3>. QED
      BY <3>1, <3>2, Zenon
  <2>. QED
    BY <1>6, <2>1, <2>2, Zenon
<1>8. PICK m : m = [of |-> job[t].sum, etag |-> <<"plain", job[t].sum>>]
  BY Zenon
<1>9. m.of = job[t].sum /\ m.etag[2] = job[t].sum
  BY <1>8, SMTT(20)
<1>10. DOMAIN fs' = DOMAIN kept \cup {Meta} /\ fs'[Meta] = m /\ \A p \in DOMAIN kept \ {Meta} : fs'[p] = kept[p]
  BY <1>6, <1>8, Zenon DEF Write
<1>11. PICK ps : ps = {Root, Versions, Version, Meta}
  BY Zenon
<1>12. ps \subseteq Bucketwide /\ Object # Meta
  BY <1>11, NamesOfBucket, SMTT(20) DEF Bucketwide
<1>13. \A p : p \in ps \/ Same(fs, fs', p)
  BY <1>6, <1>7, <1>10, <1>11, Zenon DEF Same
<1>14. /\ Object \in tree' /\ fs'[Object] = job[t].sum /\ MetaDir \in tree' /\ (Marker \in tree => Marker \in tree')
       /\ Meta \in tree' /\ fs'[Meta] = m
  BY <1>4, <1>7, <1>10, <1>12, Zenon DEF tree
<1>15. Described'
  BY <1>9, <1>14, Zenon DEF Described, tree
<1>16. PICK k : /\ job' = [job EXCEPT ![t] = k]
                /\ \/ k = NoJob
                   \/ job[t].op = "complete" /\ k = [job[t] EXCEPT !.pc = "readmeta"]
  BY Zenon DEF Finish, Check, Goto, Done
<1>17. (k = NoJob \/ k.op = job[t].op) /\ Orderly(k, fs', settled')
  <2>1. CASE k = NoJob
    BY <2>1, OrderlyIdle, Zenon
  <2>2. CASE job[t].op = "complete" /\ k = [job[t] EXCEPT !.pc = "readmeta"]
    <3>1. /\ k.op = job[t].op /\ k.pc = "readmeta" /\ k.sum = job[t].sum /\ k.up = job[t].up /\ k.list = job[t].list
          /\ k.at = job[t].at /\ k.md5s = job[t].md5s
      BY <1>1, <2>2, SMTT(20) DEF JobFields
    <3>2. Replaced(job[t], fs)
      BY <1>2, <2>2, WriterFacts, ReplacedFacts, Zenon
    <3>3. Upload(job[t].up) \in DOMAIN fs'
      <4>1. Upload(job[t].up) \notin ps
        BY <1>12, PathsUnder, UnderNotBucketwide, Zenon
      <4>. QED
        BY <1>13, <3>2, <4>1, Zenon DEF Same, Replaced
    <3>4. Replaced(k, fs')
      BY <1>14, <3>1, <3>2, <3>3, Zenon DEF Replaced, tree
    <3>5. k.pc \in {"finish", "readmeta", "rewrite"} /\ k.pc # "rewrite"
      BY <3>1, SMTT(20)
    <3>6. Meta \in DOMAIN fs' /\ fs'[Meta].of = k.sum
      BY <1>9, <1>14, <3>1, Zenon DEF tree
    <3>. QED
      BY <2>2, <3>1, <3>4, <3>5, <3>6, ReplacedOrderly, Zenon
  <2>. QED
    BY <1>16, <2>1, <2>2, Zenon
<1>. QED
  BY <1>2, <1>3, <1>12, <1>13, <1>14, <1>15, <1>16, <1>17, ActingOn, Zenon

\* What a handler at the object's metadata starts from.
LEMMA RewriterFacts ==
  ASSUME MultipartInv, OrderInv, env.orderly, NEW t \in Threads, Busy(t), job[t].pc \in {"readmeta", "rewrite"}
  PROVE  /\ DOMAIN job[t] = JobFields /\ job[t].op = "complete" /\ job[t].up \in Uploads
         /\ job[t].op \in {"put", "delete", "complete"} /\ job[t].pc \notin {"finish", "remove"} /\ job[t].pc # "remove"
         /\ Replaced(job[t], fs)
         /\ job[t].pc = "rewrite" => job[t].seen = job[t].sum
         /\ job[t].pc = "readmeta" => Meta \in tree /\ fs[Meta].of = job[t].sum
<1>1. Staged(job[t].op, job[t].pc) /\ DOMAIN job[t] = JobFields
  BY JobFacts, Zenon
<1>2. /\ job[t].op = "complete" /\ job[t].op \in UploadOps
      /\ job[t].op \in {"put", "delete", "complete"} /\ job[t].pc \notin {"finish", "remove"} /\ job[t].pc # "remove"
      /\ job[t].pc \in {"rename", "finish", "readmeta", "rewrite"} /\ job[t].pc # "rename"
  BY <1>1, SMTT(20) DEF Staged, UploadOps
<1>. QED
  BY <1>1, <1>2, JobFacts, WriterFacts, ReplacedFacts, Zenon DEF tree

\* rewrite_meta_etag: the metadata, which finish has written, is read.
LEMMA OrderRewriteRead ==
  ASSUME MultipartInv, OrderInv, env.orderly, Disciplined', NEW t \in Threads, Busy(t), RewriteRead(t)
  PROVE  OrderInv'
<1>0. job[t].pc = "readmeta" /\ job[t].pc \in {"readmeta", "rewrite"}
  <2>1. job[t].pc = "readmeta"
    BY Zenon DEF RewriteRead
  <2>. QED
    BY <2>1, SMTT(20)
<1>1. /\ DOMAIN job[t] = JobFields /\ job[t].op = "complete"
      /\ job[t].op \in {"put", "delete", "complete"} /\ job[t].pc \notin {"finish", "remove"}
      /\ Replaced(job[t], fs) /\ Meta \in tree /\ fs[Meta].of = job[t].sum
  BY <1>0, RewriterFacts, Zenon
<1>2. UNCHANGED <<env, life, acked, settled, fs>> /\ {} \subseteq Common
  BY Zenon DEF RewriteRead, history, uploadHistory
<1>3. PICK x : x = fs[Meta].of
  BY Zenon
<1>. DEFINE k == [job[t] EXCEPT !.pc = "rewrite", !.seen = x]
<1>4. job' = [job EXCEPT ![t] = k]
  BY <1>1, <1>3, Zenon DEF RewriteRead
<1>5. /\ k.op = job[t].op /\ k.pc = "rewrite" /\ k.sum = job[t].sum /\ k.up = job[t].up /\ k.list = job[t].list
      /\ k.at = job[t].at /\ k.md5s = job[t].md5s /\ k.seen = x
  BY <1>1, SMTT(20) DEF JobFields
<1>. HIDE DEF k
<1>6. Replaced(k, fs')
  BY <1>1, <1>2, <1>5, Zenon DEF Replaced
<1>7. k.pc \in {"finish", "readmeta", "rewrite"} /\ k.pc # "readmeta"
  BY <1>5, SMTT(20)
<1>8. Orderly(k, fs', settled')
  BY <1>1, <1>3, <1>5, <1>6, <1>7, ReplacedOrderly, Zenon
<1>. QED
  BY <1>1, <1>2, <1>4, <1>5, <1>8, ActingCalmly, Zenon

\* rewrite_meta_etag: the metadata is written, with the ETag of the parts; the upload is about to be removed.
LEMMA OrderRewriteWrite ==
  ASSUME MultipartInv, OrderInv, env.orderly, Disciplined', NEW t \in Threads, Busy(t), RewriteWrite(t)
  PROVE  OrderInv'
<1>0. job[t].pc = "rewrite" /\ job[t].pc \in {"readmeta", "rewrite"}
  <2>1. job[t].pc = "rewrite"
    BY Zenon DEF RewriteWrite
  <2>. QED
    BY <2>1, SMTT(20)
<1>1. /\ DOMAIN job[t] = JobFields /\ job[t].op = "complete" /\ job[t].up \in Uploads
      /\ job[t].op \in {"put", "delete", "complete"} /\ job[t].pc # "remove"
      /\ Replaced(job[t], fs) /\ job[t].seen = job[t].sum
  BY <1>0, RewriterFacts, Zenon
<1>2. UNCHANGED <<env, life, acked, settled>>
  BY Zenon DEF RewriteWrite, history, uploadHistory
<1>3. PICK m : m = [of |-> job[t].seen, etag |-> <<"multi", job[t].md5s>>]
  BY Zenon
<1>4. m.of = job[t].sum /\ m.etag[2] = job[t].sum
  <2>1. m.of = job[t].seen /\ m.etag[2] = job[t].md5s
    BY <1>3, SMTT(20)
  <2>. QED
    BY <1>1, <2>1, Zenon DEF Replaced
<1>5. fs' = Write(fs, Meta, m)
  BY <1>1, <1>3, Zenon DEF RewriteWrite, Replaced, tree
<1>6. DOMAIN fs' = DOMAIN fs \cup {Meta} /\ fs'[Meta] = m /\ \A p \in DOMAIN fs \ {Meta} : fs'[p] = fs[p]
  BY <1>5, Zenon DEF Write
<1>7. PICK ps : ps = {Meta}
  BY Zenon
<1>8. ps \subseteq Bucketwide /\ Object # Meta
  BY <1>7, NamesOfBucket, SMTT(20) DEF Bucketwide
<1>9. \A p : p \in ps \/ Same(fs, fs', p)
  BY <1>6, <1>7, Zenon DEF Same
<1>10. (MetaDir \in tree => MetaDir \in tree') /\ (Marker \in tree => Marker \in tree')
  BY <1>6, Zenon DEF tree
<1>11. Described'
  <2>1. Object \in tree' /\ fs'[Object] = job[t].sum /\ Meta \in tree' /\ fs'[Meta] = m
    BY <1>1, <1>6, <1>8, Zenon DEF Replaced, tree
  <2>. QED
    BY <1>4, <2>1, Zenon DEF Described
<1>12. PICK b : b = Below(Upload(job[t].up))
  BY Zenon
<1>. DEFINE k == [job[t] EXCEPT !.pc = "remove", !.todo = b]
<1>13. job' = [job EXCEPT ![t] = k]
  BY <1>12, Zenon DEF RewriteWrite
<1>14. /\ k.op = "complete" /\ k.pc = "remove" /\ k.sum = job[t].sum /\ k.up = job[t].up /\ k.list = job[t].list
       /\ k.at = job[t].at /\ k.md5s = job[t].md5s /\ k.todo = b
  BY <1>1, SMTT(20) DEF JobFields
<1>. HIDE DEF k
<1>15. Orderly(k, fs', settled')
  <2>1. /\ k.op # "part" /\ k.op # "deleteBucket" /\ k.op # "put" /\ k.pc \notin {"finish", "readmeta", "rewrite"}
        /\ k.pc # "readmeta" /\ k.pc # "rewrite" /\ k.pc # "prune" /\ k.pc \notin {"read", "digest"} /\ k.pc # "digest"
        /\ ~HasTmp(k) /\ k.pc # "rename" /\ k.pc \notin {"writer", "mkparent", "open"} /\ k.op \in {"complete", "abort"}
    BY <1>14, SMTT(20) DEF HasTmp
  <2>2. Gathering(k, fs')
    BY <1>1, <1>14, <2>1, Zenon DEF Gathering, Replaced
  <2>3. b = Under(job[t].up) \cap DOMAIN fs
    BY <1>1, <1>12, BelowIsAll, Zenon DEF tree
  <2>4. Meta \notin Under(job[t].up)
    BY <1>7, <1>8, UnderNotBucketwide, Zenon
  <2>5. b = Under(job[t].up) \cap DOMAIN fs'
    BY <1>6, <2>3, <2>4, Zenon
  <2>6. Clearing(k, fs')
    BY <1>14, <2>1, <2>5, Zenon DEF Clearing
  <2>. QED
    BY <2>1, <2>2, <2>6, Zenon DEF Orderly, Sending, Replacing
<1>16. k.op = job[t].op
  BY <1>1, <1>14, Zenon
<1>. QED
  BY <1>1, <1>2, <1>8, <1>9, <1>10, <1>11, <1>13, <1>15, <1>16, ActingOn, Zenon

\* delete_object: the object's file.
LEMMA OrderUnlinkObject ==
  ASSUME MultipartInv, OrderInv, env.orderly, Disciplined', NEW t \in Threads, Busy(t), UnlinkObject(t)
  PROVE  OrderInv'
<1>1. /\ DOMAIN job[t] = JobFields /\ job[t].op = "delete" /\ job[t].pc # "remove" /\ job[t].op \in {"put", "delete", "complete"}
  <2>1. job[t].pc = "unlink" /\ Staged(job[t].op, job[t].pc) /\ DOMAIN job[t] = JobFields
    BY JobFacts, Zenon DEF UnlinkObject
  <2>. QED
    BY <2>1, SMTT(20) DEF Staged
<1>2. UNCHANGED <<env, life, acked, settled>> /\ fs' = Erase(fs, {Object}) /\ Goto(t, "prune")
  BY Zenon DEF UnlinkObject, history, uploadHistory
<1>3. PICK ps : ps = {Object}
  BY Zenon
<1>4. tree' = tree \ ps
  BY <1>2, <1>3, Erased, Zenon
<1>5. \A p : p \in ps \/ Same(fs, fs', p)
  BY <1>2, <1>3, EraseSame, Zenon
<1>6. ps \subseteq Bucketwide /\ MetaDir \notin ps /\ Marker \notin ps
  BY <1>3, NamesOfBucket, SMTT(20) DEF Bucketwide
<1>7. Described' /\ Object \notin tree'
  BY <1>3, <1>4, Zenon DEF Described
<1>. DEFINE k == [job[t] EXCEPT !.pc = "prune"]
<1>8. job' = [job EXCEPT ![t] = k]
  BY <1>2, Zenon DEF Goto
<1>9. k.op = job[t].op /\ k.op = "delete" /\ k.pc = "prune"
  BY <1>1, SMTT(20) DEF JobFields
<1>. HIDE DEF k
<1>10. Orderly(k, fs', settled')
  <2>1. /\ k.op # "part" /\ k.op # "deleteBucket" /\ k.op # "put" /\ k.op # "complete" /\ k.pc # "remove"
        /\ k.pc \notin {"finish", "readmeta", "rewrite"} /\ k.pc # "readmeta" /\ k.pc # "rewrite"
    BY <1>9, SMTT(20)
  <2>. QED
    BY <1>7, <2>1, Zenon DEF Orderly, Sending, Clearing, Gathering, Replacing, tree
<1>. QED
  BY <1>1, <1>2, <1>4, <1>5, <1>6, <1>7, <1>8, <1>9, <1>10, ActingOn, Zenon

\* delete_object: the metadata, and prune_empty_data_dirs.
LEMMA OrderPrune ==
  ASSUME MultipartInv, OrderInv, env.orderly, Disciplined', NEW t \in Threads, Busy(t), Prune(t)
  PROVE  OrderInv'
<1>1. /\ DOMAIN job[t] = JobFields /\ job[t].op = "delete" /\ job[t].pc # "remove" /\ job[t].op \in {"put", "delete", "complete"}
      /\ job[t].pc = "prune"
  <2>1. job[t].pc = "prune" /\ Staged(job[t].op, job[t].pc) /\ DOMAIN job[t] = JobFields
    BY JobFacts, Zenon DEF Prune
  <2>. QED
    BY <2>1, SMTT(20) DEF Staged
<1>2. UNCHANGED <<env, life, acked, settled>> /\ job' = [job EXCEPT ![t] = NoJob]
  BY Zenon DEF Prune, history, uploadHistory, Done
<1>3. PICK ps : ps \subseteq {Meta, Dir} /\ fs' = Erase(fs, ps)
  BY Zenon DEF Prune
<1>4. tree' = tree \ ps
  BY <1>3, Erased, Zenon
<1>5. \A p : p \in ps \/ Same(fs, fs', p)
  BY <1>3, EraseSame, Zenon
<1>6. ps \subseteq Bucketwide /\ MetaDir \notin ps /\ Marker \notin ps
  <2>1. {Meta, Dir} \subseteq Bucketwide
    BY SMTT(20) DEF Bucketwide
  <2>2. MetaDir \notin {Meta, Dir} /\ Marker \notin {Meta, Dir}
    BY SMTT(20) DEF MetaDir, Meta, Dir, Marker
  <2>. QED
    BY <1>3, <2>1, <2>2, Zenon
<1>7. Described'
  <2>1. Object \notin tree
    BY <1>1, WriterFacts, Zenon DEF Replacing, tree
  <2>. QED
    BY <1>4, <2>1, Zenon DEF Described
<1>8. Orderly(NoJob, fs', settled')
  BY OrderlyIdle, Zenon
<1>. QED
  BY <1>1, <1>2, <1>4, <1>5, <1>6, <1>7, <1>8, ActingOn, Zenon

----------------------------------------------------------------------------
(* remove_dir_all of an upload.                                            *)

\* What a remover of orderly clients may be at.
LEMMA ClearerFacts ==
  ASSUME MultipartInv, OrderInv, env.orderly, NEW t \in Threads, job[t].pc = "remove"
  PROVE  /\ Busy(t) /\ DOMAIN job[t] = JobFields /\ job[t].op \in {"complete", "abort"} /\ job[t].op \in UploadOps /\ job[t].op # "part"
         /\ job[t].up \in Uploads /\ job[t].up # Empty /\ life[job[t].up] # "none"
         /\ job[t].todo = Under(job[t].up) \cap tree /\ Gathering(job[t], fs)
<1>1. Busy(t)
  BY SMTT(20) DEF Busy
<1>2. Clearing(job[t], fs) /\ Gathering(job[t], fs) /\ DOMAIN job[t] = JobFields
  BY <1>1, WriterFacts, Zenon
<1>3. job[t].op \in {"complete", "abort"} /\ job[t].todo = Under(job[t].up) \cap tree
  BY <1>2, Zenon DEF Clearing, tree
<1>4. job[t].op \in UploadOps /\ job[t].op # "part" /\ job[t].op \in {"part", "complete", "abort"}
  BY <1>3, SMTT(20) DEF UploadOps
<1>5. job[t].up \in Uploads
  BY <1>1, <1>4, JobFacts, Zenon
<1>6. life[job[t].up] # "none"
  BY <1>4, Zenon DEF MultipartInv, JobsInv, JobInv, Living
<1>. QED
  BY <1>1, <1>2, <1>3, <1>4, <1>5, <1>6, EmptyAssumption, Zenon

\* remove_dir_all: one entry of the upload is unlinked; there is never anything new below it.
LEMMA OrderRemove ==
  ASSUME MultipartInv, OrderInv, env.orderly, Disciplined', NEW t \in Threads, Remove(t)
  PROVE  OrderInv'
<1>0. job[t].pc = "remove"
  BY Zenon DEF Remove
<1>. DEFINE u == job[t].up
<1>1. /\ Busy(t) /\ DOMAIN job[t] = JobFields /\ job[t].op \in {"complete", "abort"} /\ job[t].op \in UploadOps /\ job[t].op # "part"
      /\ u \in Uploads /\ u # Empty /\ life[u] # "none"
      /\ job[t].todo = Under(u) \cap tree /\ Gathering(job[t], fs)
  BY <1>0, ClearerFacts, Zenon
<1>2. PICK p \in job[t].todo : /\ Children(p) \cap job[t].todo = {}
                               /\ Children(p) = {} => Unlink(t, p)
                               /\ Children(p) # {} \/ Unlink(t, p)
  BY Zenon DEF Remove
<1>3. Unlink(t, p)
  <2>1. tree \subseteq Nodes
    BY Zenon DEF MultipartInv, FilesInv
  <2>2. Children(p) \subseteq Under(u) \cap tree
    BY <1>1, <2>1, BelowUnder, ChildrenIn, Zenon
  <2>. QED
    BY <1>1, <1>2, <2>2, Zenon
<1>4. UNCHANGED <<env, life, acked, settled>>
  BY Zenon DEF Remove, history, uploadHistory
<1>5. fs' = Erase(fs, {p}) /\ p \in Under(u) /\ p \in tree
  BY <1>1, <1>3, Zenon DEF Unlink
<1>6. PICK x : x = job[t].todo \ {p}
  BY Zenon
<1>. DEFINE k == [job[t] EXCEPT !.todo = x]
<1>7. job'[t] = k
  BY <1>3, <1>6, Zenon DEF Unlink
<1>8. /\ k.op = job[t].op /\ k.pc = "remove" /\ k.todo = x /\ k.up = u /\ k.list = job[t].list
      /\ k.at = job[t].at /\ k.sum = job[t].sum /\ k.md5s = job[t].md5s
  BY <1>0, <1>1, SMTT(20) DEF JobFields
<1>. HIDE DEF k
<1>9. ASSUME NEW q \in Threads \ {t} PROVE Like(job[q], job'[q])
  <2>1. job'[q] = [job[q] EXCEPT !.linked = @ /\ p # Part(job[q].up, job[q].num)]
    BY <1>3, <1>9, Zenon DEF Unlink
  <2>3. job'[q] = [job[q] EXCEPT !.linked = @ /\ p # Part(job[q].up, job[q].num)] /\ DOMAIN job[q] = JobFields
    BY <2>1, <1>9, Zenon DEF MultipartInv, JobsInv, JobInv, JobOK
  <2>4. job[q].op = "part" => p # Part(job[q].up, job[q].num)
    <3>1. SUFFICES ASSUME job[q].op = "part" PROVE p # Part(job[q].up, job[q].num)
      BY Zenon
    <3>2. Busy(q)
      <4>1. NoJob.op # "part"
        BY SMTT(20) DEF NoJob
      <4>. QED
        BY <1>9, <3>1, <4>1, Zenon DEF MultipartInv, JobsInv, JobInv, JobOK, Busy
    <3>3. Apart(job[t], job[q]) /\ t # q
      BY <1>1, <1>9, <3>2, ApartPairs, Zenon DEF OrderInv
    <3>4. job[q].up # u
      BY <1>1, <3>3, Zenon DEF Apart
    <3>5. job[q].num \in PartNumbers
      BY <1>9, <3>1, <3>2, JobFacts, Zenon
    <3>6. Part(job[q].up, job[q].num) \in Under(job[q].up)
      BY <3>5, PathsUnder, Zenon
    <3>. QED
      BY <1>5, <3>4, <3>6, UnderApart, Zenon
  <2>5. PICK w : w = (job[q].linked /\ p # Part(job[q].up, job[q].num))
    BY Zenon
  <2>6. job'[q] = [job[q] EXCEPT !.linked = w]
    BY <2>3, <2>5, Zenon
  <2>7. job[q].op = "part" => (w <=> job[q].linked)
    BY <2>4, <2>5, Zenon
  <2>. QED
    BY <2>3, <2>6, <2>7, SMTT(20) DEF Like, JobFields
<1>10. Changes(job[t], fs, fs')
  <2>1. p # MetaDir /\ p # Marker
    <3>1. {MetaDir, Marker} \subseteq Bucketwide
      BY SMTT(20) DEF Bucketwide
    <3>. QED
      BY <1>5, <3>1, UnderNotBucketwide, Zenon
  <2>2. Owns(job[t], p)
    BY <1>1, <1>5, Zenon DEF Owns
  <2>. DEFINE ps == {p}
  <2>3. (\A q \in ps : q \in Common \ {MetaDir, Marker} \/ Owns(job[t], q)) /\ MetaDir \notin ps /\ Marker \notin ps
    BY <2>1, <2>2, Zenon
  <2>. HIDE DEF ps
  <2>4. fs' = Erase(fs, ps)
    BY <1>5, Zenon DEF ps
  <2>. QED
    BY <2>3, <2>4, EraseChanges, Zenon
<1>11. tree' = tree \ {p}
  BY <1>5, Erased, Zenon
<1>12. Orderly(k, fs', settled')
  <2>1. /\ k.op # "part" /\ k.op # "deleteBucket" /\ k.op # "put" /\ k.pc \notin {"finish", "readmeta", "rewrite"}
        /\ k.pc # "readmeta" /\ k.pc # "rewrite" /\ k.pc # "prune" /\ k.pc \notin {"read", "digest"} /\ k.pc # "digest"
        /\ ~HasTmp(k) /\ k.pc # "rename" /\ k.pc \notin {"writer", "mkparent", "open"} /\ k.op \in {"complete", "abort"}
        /\ job[t].pc # "digest"
    BY <1>0, <1>1, <1>8, SMTT(20) DEF HasTmp
  <2>2. Gathering(k, fs')
    BY <1>1, <1>8, <2>1, Zenon DEF Gathering
  <2>3. x = Under(u) \cap DOMAIN fs'
    BY <1>1, <1>6, <1>11, Zenon DEF tree
  <2>4. Clearing(k, fs')
    BY <1>8, <2>1, <2>3, Zenon DEF Clearing
  <2>. QED
    BY <2>1, <2>2, <2>4, Zenon DEF Orderly, Sending, Replacing
<1>13. ASSUME NEW v \in Uploads, NEW n \in PartNumbers, Mine(t, v, n) PROVE PartInv(v, n)'
  <2>1. v = u
    BY <1>13, Zenon DEF Mine
  <2>2. Leaving(v)'
    BY <1>7, <1>8, <2>1, Zenon DEF Leaving
  <2>3. PartInv(v, n)
    BY Zenon DEF OrderInv
  <2>4. Part(v, n) \in tree' => fs'[Part(v, n)] \in Bodies \cup {Empty}
    <3>1. Part(v, n) \in tree' => Same(fs, fs', Part(v, n))
      BY <1>5, <1>11, EraseSame, Zenon
    <3>. QED
      BY <1>11, <2>3, <3>1, Zenon DEF PartInv, Same, tree
  <2>. QED
    BY <1>1, <1>4, <2>1, <2>2, <2>4, Zenon DEF PartInv
<1>14. job[t].op \in {"put", "delete", "complete"} => Described'
  <2>1. SUFFICES ASSUME job[t].op \in {"put", "delete", "complete"} PROVE Described'
    BY Zenon
  <2>2. Described
    <3>1. job[t].pc # "finish"
      BY <1>0, SMTT(20)
    <3>. QED
      BY <1>1, <2>1, <3>1, DescribedHere, Zenon
  <2>3. Object # p /\ Meta # p
    <3>1. {Object, Meta} \subseteq Bucketwide
      BY SMTT(20) DEF Bucketwide
    <3>. QED
      BY <1>5, <3>1, UnderNotBucketwide, Zenon
  <2>4. Same(fs, fs', Object) /\ Same(fs, fs', Meta)
    <3>1. ASSUME NEW q, q # p PROVE Same(fs, fs', q)
      <4>1. q \notin {p}
        BY <3>1, Zenon
      <4>. QED
        BY <1>5, <4>1, EraseSame, Zenon
    <3>. QED
      BY <2>3, <3>1, Zenon
  <2>. QED
    BY <2>2, <2>4, Zenon DEF Described, Same, tree
<1>15. Typed' /\ env' = env
  BY <1>4, Zenon DEF OrderInv, Typed
<1>16. \A v \in Uploads, n \in PartNumbers : life'[v] = life[v] /\ acked'[v][n] = acked[v][n] /\ settled'[v][n] = settled[v][n]
  BY <1>4, Zenon
<1>. QED
  BY <1>1, <1>7, <1>8, <1>9, <1>10, <1>12, <1>13, <1>14, <1>15, <1>16, Acting, Zenon

\* The removal is over: nothing of the upload is left.
LEMMA OrderRemoved ==
  ASSUME MultipartInv, OrderInv, env.orderly, Disciplined', NEW t \in Threads, Removed(t)
  PROVE  OrderInv'
<1>0. job[t].pc = "remove" /\ job[t].todo = {}
  BY Zenon DEF Removed
<1>. DEFINE u == job[t].up
<1>1. /\ Busy(t) /\ DOMAIN job[t] = JobFields /\ job[t].op \in {"complete", "abort"} /\ job[t].op \in UploadOps /\ job[t].op # "part"
      /\ u \in Uploads /\ life[u] # "none" /\ job[t].todo = Under(u) \cap tree
  BY <1>0, ClearerFacts, Zenon
<1>2. UNCHANGED <<env, acked, settled, fs>> /\ job' = [job EXCEPT ![t] = NoJob]
  BY Zenon DEF Removed, Done
<1>3. DOMAIN life = Uploads
  BY Zenon DEF MultipartInv, FilesInv
<1>4. life'[u] # "none" /\ \A v \in Uploads \ {u} : life'[v] = life[v]
  <2>1. CASE job[t].op = "abort"
    <3>1. life' = [life EXCEPT ![u] = "aborted"] /\ "aborted" # "none"
      BY <2>1, SMTT(20) DEF Removed
    <3>. QED
      BY <1>1, <1>3, <3>1, Zenon
  <2>2. CASE job[t].op # "abort"
    BY <1>1, <2>2, Zenon DEF Removed
  <2>. QED
    BY <2>1, <2>2, Zenon
<1>5. DOMAIN job' = Threads /\ job'[t] = NoJob /\ \A q \in Threads \ {t} : Like(job[q], job'[q])
  <2>1. DOMAIN job' = Threads /\ job'[t] = NoJob /\ \A q \in Threads \ {t} : job'[q] = job[q]
    BY <1>2, OnlyOne, Zenon
  <2>. QED
    BY <2>1, Zenon DEF Like
<1>6. Changes(job[t], fs, fs') /\ Orderly(NoJob, fs', settled')
  BY <1>2, NoChanges, OrderlyIdle, Zenon
<1>7. ASSUME NEW v \in Uploads, NEW n \in PartNumbers, Mine(t, v, n) PROVE PartInv(v, n)'
  <2>1. v = u
    BY <1>7, Zenon DEF Mine
  <2>2. Upload(v) \notin tree' /\ Part(v, n) \notin tree'
    BY <1>0, <1>1, <1>2, <2>1, PathsUnder, Zenon DEF tree
  <2>. QED
    BY <1>4, <2>1, <2>2, Zenon DEF PartInv
<1>8. job[t].op \in {"put", "delete", "complete"} => Described'
  <2>1. SUFFICES ASSUME job[t].op \in {"put", "delete", "complete"} PROVE Described'
    BY Zenon
  <2>2. Described
    <3>1. job[t].pc # "finish"
      BY <1>0, SMTT(20)
    <3>. QED
      BY <1>1, <2>1, <3>1, DescribedHere, Zenon
  <2>. QED
    BY <1>2, <2>2, Zenon DEF Described, tree
<1>9. Typed' /\ env' = env
  BY <1>2, Zenon DEF OrderInv, Typed
<1>10. \A v \in Uploads, n \in PartNumbers :
          Mine(t, v, n) \/ (life'[v] = life[v] /\ acked'[v][n] = acked[v][n] /\ settled'[v][n] = settled[v][n])
  BY <1>1, <1>2, <1>4, Zenon DEF Mine
<1>. QED
  BY <1>1, <1>5, <1>6, <1>7, <1>8, <1>9, <1>10, Acting, Zenon

----------------------------------------------------------------------------
(* create_multipart and upload_part.                                       *)

\* What create_multipart starts its steps from.
LEMMA CreatorFacts ==
  ASSUME MultipartInv, OrderInv, env.orderly, NEW t \in Threads, Busy(t), job[t].pc \in {"mkupload", "info"}
  PROVE  /\ DOMAIN job[t] = JobFields /\ job[t].op = "createUpload" /\ job[t].op \in {"createUpload", "complete", "abort"}
         /\ job[t].op \in UploadOps /\ job[t].op # "part" /\ job[t].op \notin {"put", "delete", "complete"}
         /\ job[t].up \in Uploads /\ life[job[t].up] = "none"
<1>1. Staged(job[t].op, job[t].pc) /\ DOMAIN job[t] = JobFields
  BY JobFacts, Zenon
<1>2. /\ job[t].op = "createUpload" /\ job[t].op \in {"createUpload", "complete", "abort"}
      /\ job[t].op \in UploadOps /\ job[t].op # "part" /\ job[t].op \notin {"put", "delete", "complete"}
  BY <1>1, SMTT(20) DEF Staged, UploadOps
<1>3. job[t].up \in Uploads /\ life[job[t].up] = "none"
  BY <1>2, JobFacts, Zenon DEF JobInv, Living
<1>. QED
  BY <1>1, <1>2, <1>3, Zenon

\* create_multipart: the directories of an upload nobody knows.
LEMMA OrderMakeUpload ==
  ASSUME MultipartInv, OrderInv, env.orderly, Disciplined', NEW t \in Threads, Busy(t), MakeUpload(t)
  PROVE  OrderInv'
<1>. DEFINE u == job[t].up
<1>0. job[t].pc = "mkupload" /\ job[t].pc \in {"mkupload", "info"}
  <2>1. job[t].pc = "mkupload"
    BY Zenon DEF MakeUpload
  <2>. QED
    BY <2>1, SMTT(20)
<1>1. /\ DOMAIN job[t] = JobFields /\ job[t].op = "createUpload" /\ job[t].op \in {"createUpload", "complete", "abort"}
      /\ job[t].op \in UploadOps /\ job[t].op # "part" /\ job[t].op \notin {"put", "delete", "complete"}
      /\ u \in Uploads /\ life[u] = "none"
  BY <1>0, CreatorFacts, Zenon
<1>2. UNCHANGED <<env, life, acked, settled>> /\ Goto(t, "info")
  BY Zenon DEF MakeUpload, history, uploadHistory
<1>3. PICK ps : ps = {Root, <<"uploads">>, Upload(u), Parts(u)} /\ fs' = Make(fs, ps)
  BY UptoUpload, Zenon DEF MakeUpload
<1>. DEFINE k == [job[t] EXCEPT !.pc = "info"]
<1>4. job' = [job EXCEPT ![t] = k]
  BY <1>2, Zenon DEF Goto
<1>5. k.op = job[t].op /\ k.pc = "info"
  BY <1>1, SMTT(20) DEF JobFields
<1>. HIDE DEF k
<1>6. Orderly(k, fs', settled')
  <2>1. k.op \notin {"part", "complete", "deleteBucket", "put"} /\ k.pc \notin {"remove", "finish", "readmeta", "rewrite", "prune"}
    BY <1>1, <1>5, SMTT(20)
  <2>. QED
    BY <2>1, OrderlyPlain, Zenon
<1>7. Changes(job[t], fs, fs')
  <2>1. {Root, <<"uploads">>} \subseteq Common
    BY NamesOfBucket, SMTT(20) DEF Common, Bucketwide
  <2>2. Upload(u) \in Under(u) /\ Parts(u) \in Under(u)
    BY Zenon DEF Under
  <2>3. \A p \in ps : p \in Common \/ Owns(job[t], p)
    BY <1>1, <1>3, <2>1, <2>2, Zenon DEF Owns
  <2>. QED
    BY <1>3, <2>3, MakeChanges, Zenon
<1>8. DOMAIN job' = Threads /\ job'[t] = k /\ \A q \in Threads \ {t} : Like(job[q], job'[q])
  <2>1. DOMAIN job' = Threads /\ job'[t] = k /\ \A q \in Threads \ {t} : job'[q] = job[q]
    BY <1>4, OnlyOne, Zenon
  <2>. QED
    BY <2>1, Zenon DEF Like
<1>9. ASSUME NEW v \in Uploads, NEW n \in PartNumbers, Mine(t, v, n) PROVE PartInv(v, n)'
  <2>1. v = u
    BY <1>9, Zenon DEF Mine
  <2>2. PartInv(v, n)
    BY Zenon DEF OrderInv
  <2>3. acked[v][n] = Empty /\ settled[v][n] /\ Part(v, n) \notin tree /\ PartMeta(v, n) \notin tree
    BY <1>1, <2>1, <2>2, Zenon DEF PartInv
  <2>4. Part(v, n) \notin ps /\ PartMeta(v, n) \notin ps
    <3>1. Part(v, n) \notin {Upload(u), Parts(u)} /\ PartMeta(v, n) \notin {Upload(u), Parts(u)}
      BY SMTT(20) DEF Upload, Parts, Part, PartMeta
    <3>2. Part(v, n) \notin {Root, <<"uploads">>} /\ PartMeta(v, n) \notin {Root, <<"uploads">>}
      BY SMTT(20) DEF Root, Part, PartMeta
    <3>. QED
      BY <1>3, <3>1, <3>2, Zenon
  <2>5. Part(v, n) \notin tree' /\ PartMeta(v, n) \notin tree'
    BY <1>3, <2>3, <2>4, Made, Zenon
  <2>. QED
    BY <1>2, <2>3, <2>5, Zenon DEF PartInv
<1>10. Typed' /\ env' = env
  BY <1>2, Zenon DEF OrderInv, Typed
<1>11. \A v \in Uploads, n \in PartNumbers : life'[v] = life[v] /\ acked'[v][n] = acked[v][n] /\ settled'[v][n] = settled[v][n]
  BY <1>2, Zenon
<1>. QED
  BY <1>1, <1>5, <1>6, <1>7, <1>8, <1>9, <1>10, <1>11, Acting, Zenon

\* create_multipart: .info, and the answer.
LEMMA OrderWriteInfo ==
  ASSUME MultipartInv, OrderInv, env.orderly, Disciplined', NEW t \in Threads, Busy(t), WriteInfo(t)
  PROVE  OrderInv'
<1>. DEFINE u == job[t].up
<1>0. job[t].pc = "info" /\ job[t].pc \in {"mkupload", "info"}
  <2>1. job[t].pc = "info"
    BY Zenon DEF WriteInfo
  <2>. QED
    BY <2>1, SMTT(20)
<1>1. /\ DOMAIN job[t] = JobFields /\ job[t].op = "createUpload" /\ job[t].op \in {"createUpload", "complete", "abort"}
      /\ job[t].op \in UploadOps /\ job[t].op # "part" /\ job[t].op \notin {"put", "delete", "complete"}
      /\ u \in Uploads /\ life[u] = "none"
  BY <1>0, CreatorFacts, Zenon
<1>2. UNCHANGED <<env, acked, settled>> /\ job' = [job EXCEPT ![t] = NoJob]
  BY Zenon DEF WriteInfo, Done
<1>3. PICK ps : ps = {Info(u)} /\ (fs' = fs \/ fs' = Make(fs, ps))
  BY Zenon DEF WriteInfo
<1>4. \A v \in Uploads \ {u} : life'[v] = life[v]
  <2>1. DOMAIN life = Uploads
    BY Zenon DEF MultipartInv, FilesInv
  <2>2. life' = life \/ life' = [life EXCEPT ![u] = "known"]
    BY Zenon DEF WriteInfo
  <2>. QED
    BY <2>1, <2>2, Zenon
<1>6. Orderly(NoJob, fs', settled')
  BY OrderlyIdle, Zenon
<1>7. Changes(job[t], fs, fs')
  <2>1. CASE fs' = fs
    BY <2>1, NoChanges, Zenon
  <2>2. CASE fs' = Make(fs, ps)
    <3>1. Info(u) \in Under(u)
      BY Zenon DEF Under
    <3>2. \A p \in ps : p \in Common \/ Owns(job[t], p)
      BY <1>1, <1>3, <3>1, Zenon DEF Owns
    <3>. QED
      BY <2>2, <3>2, MakeChanges, Zenon
  <2>. QED
    BY <1>3, <2>1, <2>2, Zenon
<1>8. DOMAIN job' = Threads /\ job'[t] = NoJob /\ \A q \in Threads \ {t} : Like(job[q], job'[q])
  <2>1. DOMAIN job' = Threads /\ job'[t] = NoJob /\ \A q \in Threads \ {t} : job'[q] = job[q]
    BY <1>2, OnlyOne, Zenon
  <2>. QED
    BY <2>1, Zenon DEF Like
<1>9. ASSUME NEW v \in Uploads, NEW n \in PartNumbers, Mine(t, v, n) PROVE PartInv(v, n)'
  <2>1. v = u
    BY <1>9, Zenon DEF Mine
  <2>2. PartInv(v, n)
    BY Zenon DEF OrderInv
  <2>3. acked[v][n] = Empty /\ settled[v][n] /\ Part(v, n) \notin tree /\ PartMeta(v, n) \notin tree
    BY <1>1, <2>1, <2>2, Zenon DEF PartInv
  <2>4. Part(v, n) \notin ps /\ PartMeta(v, n) \notin ps
    <3>1. Part(v, n) # Info(u) /\ PartMeta(v, n) # Info(u)
      BY SMTT(20) DEF Info, Part, PartMeta
    <3>. QED
      BY <1>3, <3>1, Zenon
  <2>5. Part(v, n) \notin tree' /\ PartMeta(v, n) \notin tree'
    <3>1. CASE fs' = fs
      BY <2>3, <3>1, Zenon DEF tree
    <3>2. CASE fs' = Make(fs, ps)
      BY <2>3, <2>4, <3>2, Made, Zenon
    <3>. QED
      BY <1>3, <3>1, <3>2, Zenon
  <2>. QED
    BY <1>2, <2>3, <2>5, Zenon DEF PartInv
<1>10. Typed' /\ env' = env
  BY <1>2, Zenon DEF OrderInv, Typed
<1>11. \A v \in Uploads, n \in PartNumbers :
          Mine(t, v, n) \/ (life'[v] = life[v] /\ acked'[v][n] = acked[v][n] /\ settled'[v][n] = settled[v][n])
  BY <1>1, <1>2, <1>4, Zenon DEF Mine
<1>. QED
  BY <1>1, <1>6, <1>7, <1>8, <1>9, <1>10, <1>11, Acting, Zenon

\* What upload_part starts its steps from.
LEMMA SenderFacts ==
  ASSUME MultipartInv, OrderInv, env.orderly, NEW t \in Threads, Busy(t), job[t].pc \in {"openpart", "writepart", "partmeta"}
  PROVE  /\ DOMAIN job[t] = JobFields /\ job[t].op = "part" /\ job[t].op \notin {"put", "delete", "complete"}
         /\ job[t].op \in UploadOps /\ job[t].up \in Uploads /\ job[t].num \in PartNumbers /\ life[job[t].up] # "none"
         /\ Sending(job[t], fs, settled) /\ ~settled[job[t].up][job[t].num] /\ job[t].body \in Bodies /\ Upload(job[t].up) \in tree
<1>1. Staged(job[t].op, job[t].pc) /\ DOMAIN job[t] = JobFields
  BY JobFacts, Zenon
<1>2. /\ job[t].op = "part" /\ job[t].op \notin {"put", "delete", "complete"} /\ job[t].op \in {"part", "complete", "abort"}
      /\ job[t].op \in UploadOps
  BY <1>1, SMTT(20) DEF Staged, UploadOps
<1>3. job[t].up \in Uploads /\ job[t].num \in PartNumbers /\ life[job[t].up] # "none"
  BY <1>2, JobFacts, Zenon DEF JobInv, Living
<1>4. Sending(job[t], fs, settled)
  BY WriterFacts, Zenon
<1>. QED
  BY <1>1, <1>2, <1>3, <1>4, Zenon DEF Sending, tree

\* A step of upload_part that acknowledges nothing yet.
LEMMA ActingOnPart ==
  ASSUME MultipartInv, OrderInv, env.orderly, Disciplined', NEW t \in Threads, Busy(t), job[t].pc \in {"openpart", "writepart", "partmeta"},
         NEW k, job' = [job EXCEPT ![t] = k], k = NoJob \/ k.op = job[t].op,
         UNCHANGED <<env, life, acked, settled>>,
         fs' = fs \/ \E x \in Bodies \cup {Empty} : fs' = Write(fs, Part(job[t].up, job[t].num), x),
         Orderly(k, fs', settled')
  PROVE  OrderInv'
<1>. DEFINE u == job[t].up n == job[t].num
<1>1. /\ job[t].op = "part" /\ job[t].op \notin {"put", "delete", "complete"}
      /\ u \in Uploads /\ n \in PartNumbers /\ life[u] # "none" /\ ~settled[u][n]
  BY SenderFacts, Zenon
<1>2. Changes(job[t], fs, fs')
  <2>1. CASE fs' = fs
    BY <2>1, NoChanges, Zenon
  <2>2. ASSUME NEW x \in Bodies \cup {Empty}, fs' = Write(fs, Part(u, n), x) PROVE Changes(job[t], fs, fs')
    <3>1. Owns(job[t], Part(u, n))
      BY <1>1, Zenon DEF Owns
    <3>. QED
      BY <2>2, <3>1, WriteChanges, Zenon
  <2>. QED
    BY <2>1, <2>2, Zenon
<1>3. DOMAIN job' = Threads /\ job'[t] = k /\ \A q \in Threads \ {t} : Like(job[q], job'[q])
  <2>1. DOMAIN job' = Threads /\ job'[t] = k /\ \A q \in Threads \ {t} : job'[q] = job[q]
    BY OnlyOne, Zenon
  <2>. QED
    BY <2>1, Zenon DEF Like
<1>4. ASSUME NEW v \in Uploads, NEW m \in PartNumbers, Mine(t, v, m) PROVE PartInv(v, m)'
  <2>1. v = u /\ m = n
    BY <1>1, <1>4, Zenon DEF Mine
  <2>2. PartInv(u, n)
    BY <1>1, Zenon DEF OrderInv
  <2>3. Part(u, n) \in tree' => fs'[Part(u, n)] \in Bodies \cup {Empty}
    <3>1. CASE fs' = fs
      BY <2>2, <3>1, Zenon DEF PartInv, tree
    <3>2. ASSUME NEW x \in Bodies \cup {Empty}, fs' = Write(fs, Part(u, n), x) PROVE fs'[Part(u, n)] \in Bodies \cup {Empty}
      <4>1. fs'[Part(u, n)] = x
        BY <3>2, Zenon DEF Write
      <4>. QED
        BY <4>1, Zenon
    <3>. QED
      BY <3>1, <3>2, Zenon
  <2>. QED
    BY <1>1, <2>1, <2>3, Zenon DEF PartInv
<1>5. Typed' /\ env' = env
  BY Zenon DEF OrderInv, Typed
<1>6. \A v \in Uploads, m \in PartNumbers : life'[v] = life[v] /\ acked'[v][m] = acked[v][m] /\ settled'[v][m] = settled[v][m]
  BY Zenon
<1>. QED
  BY <1>1, <1>2, <1>3, <1>4, <1>5, <1>6, Acting, Zenon

\* upload_part: the part is truncated.
LEMMA OrderOpenPart ==
  ASSUME MultipartInv, OrderInv, env.orderly, Disciplined', NEW t \in Threads, Busy(t), OpenPart(t)
  PROVE  OrderInv'
<1>. DEFINE u == job[t].up n == job[t].num
<1>0. job[t].pc = "openpart" /\ job[t].pc \in {"openpart", "writepart", "partmeta"}
  <2>1. job[t].pc = "openpart"
    BY Zenon DEF OpenPart
  <2>. QED
    BY <2>1, SMTT(20)
<1>1. /\ DOMAIN job[t] = JobFields /\ job[t].op = "part"
      /\ Sending(job[t], fs, settled) /\ ~settled[u][n] /\ job[t].body \in Bodies /\ Upload(u) \in tree
  BY <1>0, SenderFacts, Zenon
<1>2. UNCHANGED <<env, life, acked, settled>>
  BY Zenon DEF OpenPart, history, uploadHistory
<1>3. CASE Parts(u) \notin tree
  <2>1. fs' = fs /\ job' = [job EXCEPT ![t] = NoJob]
    BY <1>3, Zenon DEF OpenPart, Done
  <2>2. Orderly(NoJob, fs', settled')
    BY OrderlyIdle, Zenon
  <2>. QED
    BY <1>0, <1>2, <2>1, <2>2, ActingOnPart, Zenon
<1>4. CASE Parts(u) \in tree
  <2>1. fs' = Write(fs, Part(u, n), Empty) /\ Empty \in Bodies \cup {Empty}
    BY <1>4, Zenon DEF OpenPart
  <2>. DEFINE k == [job[t] EXCEPT !.pc = "writepart", !.linked = TRUE]
  <2>2. job' = [job EXCEPT ![t] = k]
    BY <1>4, Zenon DEF OpenPart
  <2>3. k.op = "part" /\ k.pc = "writepart" /\ k.up = u /\ k.num = n /\ k.body = job[t].body /\ k.linked
    BY <1>1, SMTT(20) DEF JobFields
  <2>. HIDE DEF k
  <2>4. /\ k.pc # "remove" /\ k.pc \notin {"finish", "readmeta", "rewrite"} /\ k.pc # "readmeta" /\ k.pc # "rewrite" /\ k.pc # "prune"
        /\ k.pc # "partmeta" /\ k.op # "deleteBucket" /\ k.op # "put" /\ k.op # "complete"
    BY <2>3, SMTT(20)
  <2>5. DOMAIN fs' = DOMAIN fs \cup {Part(u, n)}
    BY <2>1, Zenon DEF Write
  <2>6. Orderly(k, fs', settled')
    BY <1>1, <1>2, <2>3, <2>4, <2>5, Zenon DEF Orderly, Sending, Clearing, Gathering, Replacing, tree
  <2>7. k.op = job[t].op
    BY <1>1, <2>3, Zenon
  <2>. QED
    BY <1>0, <1>2, <2>1, <2>2, <2>6, <2>7, ActingOnPart, Zenon
<1>. QED
  BY <1>3, <1>4, Zenon

\* upload_part: the body.
LEMMA OrderWritePart ==
  ASSUME MultipartInv, OrderInv, env.orderly, Disciplined', NEW t \in Threads, Busy(t), WritePart(t)
  PROVE  OrderInv'
<1>. DEFINE u == job[t].up n == job[t].num
<1>0. job[t].pc = "writepart" /\ job[t].pc \in {"openpart", "writepart", "partmeta"}
  <2>1. job[t].pc = "writepart"
    BY Zenon DEF WritePart
  <2>. QED
    BY <2>1, SMTT(20)
<1>1. /\ DOMAIN job[t] = JobFields /\ job[t].op = "part"
      /\ Sending(job[t], fs, settled) /\ ~settled[u][n] /\ job[t].body \in Bodies /\ Upload(u) \in tree
  BY <1>0, SenderFacts, Zenon
<1>2. UNCHANGED <<env, life, acked, settled>>
  BY Zenon DEF WritePart, history, uploadHistory
<1>3. job[t].linked
  BY <1>0, <1>1, Zenon DEF Sending
<1>4. PICK b : b = job[t].body
  BY Zenon
<1>5. fs' = Write(fs, Part(u, n), b) /\ b \in Bodies \cup {Empty}
  BY <1>1, <1>3, <1>4, Zenon DEF WritePart
<1>. DEFINE k == [job[t] EXCEPT !.pc = "partmeta", !.linked = FALSE]
<1>6. job' = [job EXCEPT ![t] = k]
  BY Zenon DEF WritePart
<1>7. k.op = "part" /\ k.pc = "partmeta" /\ k.up = u /\ k.num = n /\ k.body = b
  BY <1>1, <1>4, SMTT(20) DEF JobFields
<1>. HIDE DEF k
<1>8. /\ k.pc # "remove" /\ k.pc \notin {"finish", "readmeta", "rewrite"} /\ k.pc # "readmeta" /\ k.pc # "rewrite" /\ k.pc # "prune"
      /\ k.pc # "writepart" /\ k.op # "deleteBucket" /\ k.op # "put" /\ k.op # "complete"
  BY <1>7, SMTT(20)
<1>9. DOMAIN fs' = DOMAIN fs \cup {Part(u, n)} /\ fs'[Part(u, n)] = b
  BY <1>5, Zenon DEF Write
<1>10. Orderly(k, fs', settled')
  BY <1>1, <1>2, <1>4, <1>7, <1>8, <1>9, Zenon DEF Orderly, Sending, Clearing, Gathering, Replacing, tree
<1>11. k.op = job[t].op
  BY <1>1, <1>7, Zenon
<1>. QED
  BY <1>0, <1>2, <1>5, <1>6, <1>10, <1>11, ActingOnPart, Zenon

\* One part's history, written.
Noted(f, u, n, x) == [f EXCEPT ![u][n] = x]
\* f has an entry for every part.
PerPart(f) == DOMAIN f = Uploads /\ \A u \in Uploads : DOMAIN f[u] = PartNumbers

\* It is that of this part.
LEMMA PartHistory ==
  ASSUME NEW f, PerPart(f), NEW u \in Uploads, NEW n \in PartNumbers, NEW x
  PROVE  /\ PerPart(Noted(f, u, n, x)) /\ Noted(f, u, n, x)[u][n] = x
         /\ \A v \in Uploads, m \in PartNumbers : (v = u /\ m = n) \/ Noted(f, u, n, x)[v][m] = f[v][m]
<1>0. DOMAIN f = Uploads /\ \A v \in Uploads : DOMAIN f[v] = PartNumbers
  BY Zenon DEF PerPart
<1>1. PICK y : y = [f[u] EXCEPT ![n] = x]
  BY Zenon
<1>2. PICK g : g = [f EXCEPT ![u] = y]
  BY Zenon
<1>3. g = Noted(f, u, n, x)
  BY <1>1, <1>2, Zenon DEF Noted
<1>4. DOMAIN y = PartNumbers /\ y[n] = x /\ \A m \in PartNumbers \ {n} : y[m] = f[u][m]
  BY <1>0, <1>1, Zenon
<1>5. DOMAIN g = Uploads /\ g[u] = y /\ \A v \in Uploads \ {u} : g[v] = f[v]
  BY <1>0, <1>2, Zenon
<1>6. PerPart(g)
  BY <1>0, <1>4, <1>5, Zenon DEF PerPart
<1>7. g[u][n] = x /\ \A v \in Uploads, m \in PartNumbers : (v = u /\ m = n) \/ g[v][m] = f[v][m]
  BY <1>4, <1>5, Zenon
<1>. QED
  BY <1>3, <1>6, <1>7, Zenon

\* upload_part: the digest, and the answer; the part is settled, unless its upload's directory is gone.
LEMMA OrderWritePartMeta ==
  ASSUME MultipartInv, OrderInv, env.orderly, Disciplined', NEW t \in Threads, Busy(t), WritePartMeta(t)
  PROVE  OrderInv'
<1>. DEFINE u == job[t].up n == job[t].num ok == Parts(u) \in tree
<1>0. job[t].pc = "partmeta" /\ job[t].pc \in {"openpart", "writepart", "partmeta"}
  <2>1. job[t].pc = "partmeta"
    BY Zenon DEF WritePartMeta
  <2>. QED
    BY <2>1, SMTT(20)
<1>1. /\ DOMAIN job[t] = JobFields /\ job[t].op = "part" /\ job[t].op \notin {"put", "delete", "complete"}
      /\ job[t].op \in UploadOps /\ u \in Uploads /\ n \in PartNumbers /\ life[u] # "none"
      /\ Sending(job[t], fs, settled) /\ job[t].body \in Bodies /\ Upload(u) \in tree
  BY <1>0, SenderFacts, Zenon
<1>2. UNCHANGED <<env, life>> /\ job' = [job EXCEPT ![t] = NoJob]
  BY Zenon DEF WritePartMeta, Done
<1>3. PICK b : b = job[t].body
  BY Zenon
<1>4. Part(u, n) \in tree /\ fs[Part(u, n)] = b /\ b \in Bodies /\ b # Empty
  BY <1>0, <1>1, <1>3, EmptyAssumption, Zenon DEF Sending, tree
<1>5. PICK o : o = ok
  BY Zenon
<1>6. /\ fs' = IF ok THEN Write(fs, PartMeta(u, n), b) ELSE fs
      /\ acked' = IF ok THEN [acked EXCEPT ![u][n] = b] ELSE acked
      /\ settled' = [settled EXCEPT ![u][n] = o]
  BY <1>3, <1>5, Zenon DEF WritePartMeta
<1>7. Typed
  BY Zenon DEF OrderInv
<1>8. /\ PerPart(settled') /\ settled'[u][n] = o
      /\ \A v \in Uploads, m \in PartNumbers : (v = u /\ m = n) \/ settled'[v][m] = settled[v][m]
  <2>1. PerPart(settled)
    BY <1>7, Zenon DEF Typed, PerPart
  <2>2. settled' = Noted(settled, u, n, o)
    BY <1>6, Zenon DEF Noted
  <2>. QED
    BY <1>1, <2>1, <2>2, PartHistory, SMTT(20)
<1>9. /\ PerPart(acked')
      /\ ok => acked'[u][n] = b
      /\ \A v \in Uploads, m \in PartNumbers : (v = u /\ m = n) \/ acked'[v][m] = acked[v][m]
  <2>0. PerPart(acked)
    BY <1>7, Zenon DEF Typed, PerPart
  <2>1. CASE ok
    <3>1. acked' = Noted(acked, u, n, b)
      BY <1>6, <2>1, Zenon DEF Noted
    <3>. QED
      BY <1>1, <2>0, <3>1, PartHistory, SMTT(20)
  <2>2. CASE ~ok
    BY <1>6, <2>0, <2>2, Zenon
  <2>. QED
    BY <2>1, <2>2, Zenon
<1>10. Typed' /\ env' = env
  <2>1. /\ DOMAIN settled' = Uploads /\ DOMAIN acked' = Uploads
        /\ \A v \in Uploads : DOMAIN settled'[v] = PartNumbers
        /\ \A v \in Uploads : DOMAIN acked'[v] = PartNumbers
    BY <1>8, <1>9, Zenon DEF PerPart
  <2>. QED
    BY <1>2, <2>1, Zenon DEF Typed
<1>11. Orderly(NoJob, fs', settled')
  BY OrderlyIdle, Zenon
<1>12. Changes(job[t], fs, fs')
  <2>1. CASE ok
    <3>1. Owns(job[t], PartMeta(u, n))
      BY <1>1, Zenon DEF Owns
    <3>. QED
      BY <1>6, <2>1, <3>1, WriteChanges, Zenon
  <2>2. CASE ~ok
    BY <1>6, <2>2, NoChanges, Zenon
  <2>. QED
    BY <2>1, <2>2, Zenon
<1>13. DOMAIN job' = Threads /\ job'[t] = NoJob /\ \A q \in Threads \ {t} : Like(job[q], job'[q])
  <2>1. DOMAIN job' = Threads /\ job'[t] = NoJob /\ \A q \in Threads \ {t} : job'[q] = job[q]
    BY <1>2, OnlyOne, Zenon
  <2>. QED
    BY <2>1, Zenon DEF Like
<1>14. ASSUME NEW v \in Uploads, NEW m \in PartNumbers, Mine(t, v, m) PROVE PartInv(v, m)'
  <2>1. v = u /\ m = n
    BY <1>1, <1>14, Zenon DEF Mine
  <2>2. Part(u, n) \in tree' /\ fs'[Part(u, n)] = b
    <3>1. PartMeta(u, n) # Part(u, n)
      BY SMTT(20) DEF Part, PartMeta
    <3>2. CASE ok
      BY <1>4, <1>6, <3>1, <3>2, Zenon DEF Write, tree
    <3>3. CASE ~ok
      BY <1>4, <1>6, <3>3, Zenon DEF tree
    <3>. QED
      BY <3>2, <3>3, Zenon
  <2>3. ok => PartMeta(u, n) \in tree' /\ fs'[PartMeta(u, n)] = b
    BY <1>6, Zenon DEF Write, tree
  <2>4. settled'[u][n] => ok
    BY <1>5, <1>8, Zenon
  <2>5. ok => acked'[u][n] = b
    BY <1>9, Zenon
  <2>6. life'[u] # "none" /\ b \in Bodies \cup {Empty} /\ b # Empty
    BY <1>1, <1>2, <1>4, Zenon
  <2>7. /\ Part(v, m) \in tree' /\ fs'[Part(v, m)] = b /\ (settled'[v][m] => ok)
        /\ ok => PartMeta(v, m) \in tree' /\ fs'[PartMeta(v, m)] = b /\ acked'[v][m] = b
        /\ life'[v] # "none"
    BY <2>1, <2>2, <2>3, <2>4, <2>5, <2>6, Zenon
  <2>. QED
    BY <2>6, <2>7, Zenon DEF PartInv
<1>15. \A v \in Uploads, m \in PartNumbers :
          Mine(t, v, m) \/ (life'[v] = life[v] /\ acked'[v][m] = acked[v][m] /\ settled'[v][m] = settled[v][m])
  BY <1>1, <1>2, <1>8, <1>9, Zenon DEF Mine
<1>. QED
  BY <1>1, <1>10, <1>11, <1>12, <1>13, <1>14, <1>15, Acting, Zenon

\* A handler stops: not one that is committing or aborting.
LEMMA OrderAbandon ==
  ASSUME MultipartInv, OrderInv, env.orderly, Disciplined', NEW t \in Threads, Abandon(t)
  PROVE  OrderInv'
<1>1. /\ Busy(t) /\ job[t].op \in env.faults /\ job' = [job EXCEPT ![t] = NoJob]
      /\ UNCHANGED <<env, life, acked, settled, fs>>
  BY Zenon DEF Abandon, uploadHistory, Done
<1>2. job[t].op \notin {"put", "complete", "abort"}
  BY <1>1, Environment, Zenon
<1>3. job[t].pc # "remove"
  <2>1. Clearing(job[t], fs)
    BY <1>1, WriterFacts, Zenon
  <2>. QED
    BY <1>2, <2>1, SMTT(20) DEF Clearing
<1>4. job[t].op \in {"put", "delete", "complete"} => Described'
  <2>1. job[t].op \in {"put", "delete", "complete"} => job[t].pc # "finish"
    <3>1. Staged(job[t].op, job[t].pc)
      BY <1>1, JobFacts, Zenon
    <3>. QED
      BY <1>2, <3>1, SMTT(20) DEF Staged
  <2>2. job[t].op \in {"put", "delete", "complete"} => Described
    BY <1>1, <2>1, DescribedHere, Zenon
  <2>. QED
    BY <1>1, <2>2, Zenon DEF Described, tree
<1>. DEFINE ps == {}
<1>5. ps \subseteq Bucketwide /\ ps \cap {Object, Meta} = {} /\ \A p : Same(fs, fs', p)
  BY <1>1, Zenon DEF Same
<1>6. (MetaDir \in tree => MetaDir \in tree') /\ (Marker \in tree => Marker \in tree')
  BY <1>1, Zenon DEF tree
<1>7. Orderly(NoJob, fs', settled')
  BY OrderlyIdle, Zenon
<1>. HIDE DEF ps
<1>. QED
  BY <1>1, <1>3, <1>4, <1>5, <1>6, <1>7, ActingOn, Zenon

----------------------------------------------------------------------------
(* The theorems.                                                           *)

\* No behaviour starts with the object or with a part.
LEMMA FoundParts ==
  ASSUME env \in Worlds
  PROVE  Object \notin Found(env.start) /\ \A u, n : Part(u, n) \notin Found(env.start) /\ PartMeta(u, n) \notin Found(env.start)
<1>. DEFINE bucket == {Root, Marker, Data, MetaDir, Dir, Nest}
            sets == {Upto(Parts(u)) \cup {Info(u)} : u \in Uploads}
<1>1. env.start \in {"nothing", "bucket", "uploads", "nested"}
  <2>1. env \in World
    BY WorldAssumption, Zenon
  <2>. QED
    BY <2>1, SMTT(20) DEF World
<1>2. Found(env.start) \subseteq bucket \cup UNION sets
  <2>1. CASE env.start = "nothing"
    BY <2>1, SMTT(20) DEF Found
  <2>2. CASE env.start = "bucket"
    BY <2>2, SMTT(20) DEF Found
  <2>3. CASE env.start = "uploads"
    BY <2>3, SMTT(20) DEF Found
  <2>4. CASE env.start = "nested"
    BY <2>4, SMTT(20) DEF Found
  <2>. QED
    BY <1>1, <2>1, <2>2, <2>3, <2>4, SMTT(20)
<1>3. ASSUME NEW p \in Found(env.start)
      PROVE  p \in bucket \/ \E u \in Uploads : p \in {Root, <<"uploads">>, Upload(u), Parts(u), Info(u)}
  <2>1. CASE p \in UNION sets
    <3>1. PICK u \in Uploads : p \in Upto(Parts(u)) \cup {Info(u)}
      BY <2>1, Zenon
    <3>2. Upto(Parts(u)) = {Root, <<"uploads">>, Upload(u), Parts(u)}
      BY UptoUpload, Zenon
    <3>. QED
      BY <3>1, <3>2, Zenon
  <2>. QED
    BY <1>2, <2>1, Zenon
<1>. HIDE DEF sets
<1>4. \A u : Object \notin bucket \cup {Root, <<"uploads">>, Upload(u), Parts(u), Info(u)}
  BY SMTT(20) DEF Object, Root, Marker, Data, Dir, Nest, MetaDir, Upload, Parts, Info
<1>5. \A u, n, v : Part(u, n) \notin bucket \cup {Root, <<"uploads">>, Upload(v), Parts(v), Info(v)}
  BY SMTT(20) DEF Part, Root, Marker, Data, Dir, Nest, MetaDir, Upload, Parts, Info
<1>6. \A u, n, v : PartMeta(u, n) \notin bucket \cup {Root, <<"uploads">>, Upload(v), Parts(v), Info(v)}
  BY SMTT(20) DEF PartMeta, Root, Marker, Data, Dir, Nest, MetaDir, Upload, Parts, Info
<1>. HIDE DEF bucket
<1>. QED
  BY <1>3, <1>4, <1>5, <1>6, Zenon

\* The invariant of orderly clients holds at first.
LEMMA OrderInit ==
  ASSUME Init
  PROVE  OrderInv
<1>1. /\ env \in Worlds /\ fs = [p \in Found(env.start) |-> Empty] /\ job = [t \in Threads |-> NoJob]
      /\ acked = [u \in Uploads |-> [n \in PartNumbers |-> Empty]]
      /\ settled = [u \in Uploads |-> [n \in PartNumbers |-> TRUE]]
  BY Zenon DEF Init
<1>2. tree = Found(env.start)
  BY <1>1, Zenon DEF tree
<1>3. \A t \in Threads : job[t] = NoJob
  BY <1>1, Zenon
<1>4. \A t \in Threads : ~Busy(t)
  BY <1>3, IdleJob, Zenon DEF Busy
<1>5. Disciplined
  BY <1>4, Zenon DEF Disciplined
<1>6. MarkerInv
  BY <1>1, <1>2, <1>4, FoundIs, Zenon DEF MarkerInv
<1>7. Typed
  BY <1>1, Zenon DEF Typed
<1>8. \A t \in Threads : Orderly(job[t], fs, settled)
  BY <1>3, OrderlyIdle, Zenon
<1>9. ASSUME NEW u \in Uploads, NEW n \in PartNumbers PROVE PartInv(u, n)
  <2>1. acked[u][n] = Empty /\ settled[u][n]
    BY <1>1, Zenon
  <2>2. Part(u, n) \notin tree /\ PartMeta(u, n) \notin tree
    BY <1>1, <1>2, FoundParts, Zenon
  <2>. QED
    BY <2>1, <2>2, Zenon DEF PartInv
<1>10. Described
  BY <1>1, <1>2, FoundParts, Zenon DEF Described
<1>. QED
  BY <1>5, <1>6, <1>7, <1>8, <1>9, <1>10, Zenon DEF OrderInv

\* A handler's steps are those of a thread at work.
LEMMA Handling ==
  ASSUME NEW t \in Threads, Handle(t)
  PROVE  Busy(t)
<1>1. CASE MakeBucket(t) \/ MarkBucket(t) \/ ScanData(t) \/ ScanVersions(t) \/ Remove(t) \/ Removed(t)
  <2>1. job[t].pc \in {"mkbucket", "mark", "scandata", "scanversions", "remove"}
    BY <1>1, Zenon DEF MakeBucket, MarkBucket, ScanData, ScanVersions, Remove, Removed
  <2>. QED
    BY <2>1, SMTT(20) DEF Busy
<1>2. CASE MakeParent(t) \/ OpenTmp(t) \/ Rename(t) \/ Finish(t) \/ UnlinkObject(t) \/ Prune(t)
  <2>1. job[t].pc \in {"mkparent", "open", "rename", "finish", "unlink", "prune"}
    BY <1>2, Zenon DEF MakeParent, OpenTmp, Rename, Finish, UnlinkObject, Prune
  <2>. QED
    BY <2>1, SMTT(20) DEF Busy
<1>3. CASE MakeTagDir(t) \/ WriteTags(t) \/ UnlinkTags(t) \/ MakeUpload(t) \/ WriteInfo(t)
  <2>1. job[t].pc \in {"mktags", "writetags", "unlinktags", "mkupload", "info"}
    BY <1>3, Zenon DEF MakeTagDir, WriteTags, UnlinkTags, MakeUpload, WriteInfo
  <2>. QED
    BY <2>1, SMTT(20) DEF Busy
<1>4. CASE OpenPart(t) \/ WritePart(t) \/ WritePartMeta(t) \/ OpenWriter(t) \/ PartExists(t)
  <2>1. job[t].pc \in {"openpart", "writepart", "partmeta", "writer", "exists"}
    BY <1>4, Zenon DEF OpenPart, WritePart, WritePartMeta, OpenWriter, PartExists
  <2>. QED
    BY <2>1, SMTT(20) DEF Busy
<1>5. CASE ReadPart(t) \/ ReadDigest(t) \/ RewriteRead(t) \/ RewriteWrite(t)
  <2>1. job[t].pc \in {"read", "digest", "readmeta", "rewrite"}
    BY <1>5, Zenon DEF ReadPart, ReadDigest, RewriteRead, RewriteWrite
  <2>. QED
    BY <2>1, SMTT(20) DEF Busy
<1>. QED
  BY <1>1, <1>2, <1>3, <1>4, <1>5, Zenon DEF Handle

\* The environment is chosen once.
LEMMA SameWorld ==
  ASSUME [Next]_vars
  PROVE  env' = env
<1>1. CASE UNCHANGED vars
  BY <1>1, Zenon DEF vars
<1>2. ASSUME NEW t \in Threads, Arrive(t) PROVE env' = env
  <2>1. CASE CreateBucket(t) \/ DeleteBucket(t) \/ Put(t) \/ DeleteObject(t) \/ PutTagging(t) \/ DeleteTagging(t)
    BY <2>1, Zenon DEF CreateBucket, DeleteBucket, Put, DeleteObject, PutTagging, DeleteTagging
  <2>2. CASE CreateUpload(t) \/ UploadPart(t) \/ Complete(t) \/ Abort(t)
    BY <2>2, Zenon DEF CreateUpload, UploadPart, Complete, Abort
  <2>. QED
    BY <1>2, <2>1, <2>2, Zenon DEF Arrive
<1>3. ASSUME NEW t \in Threads, Handle(t) PROVE env' = env
  <2>1. CASE MakeBucket(t) \/ MarkBucket(t) \/ ScanData(t) \/ ScanVersions(t) \/ Remove(t) \/ Removed(t)
    BY <2>1, Zenon DEF MakeBucket, MarkBucket, ScanData, ScanVersions, Remove, Removed
  <2>2. CASE MakeParent(t) \/ OpenTmp(t) \/ Rename(t) \/ Finish(t) \/ UnlinkObject(t) \/ Prune(t)
    BY <2>2, Zenon DEF MakeParent, OpenTmp, Rename, Finish, UnlinkObject, Prune
  <2>3. CASE MakeTagDir(t) \/ WriteTags(t) \/ UnlinkTags(t) \/ MakeUpload(t) \/ WriteInfo(t)
    BY <2>3, Zenon DEF MakeTagDir, WriteTags, UnlinkTags, MakeUpload, WriteInfo
  <2>4. CASE OpenPart(t) \/ WritePart(t) \/ WritePartMeta(t) \/ OpenWriter(t) \/ PartExists(t)
    BY <2>4, Zenon DEF OpenPart, WritePart, WritePartMeta, OpenWriter, PartExists
  <2>5. CASE ReadPart(t) \/ ReadDigest(t) \/ RewriteRead(t) \/ RewriteWrite(t)
    BY <2>5, Zenon DEF ReadPart, ReadDigest, RewriteRead, RewriteWrite
  <2>. QED
    BY <1>3, <2>1, <2>2, <2>3, <2>4, <2>5, Zenon DEF Handle
<1>4. ASSUME NEW t \in Threads, Abandon(t) PROVE env' = env
  BY <1>4, Zenon DEF Abandon
<1>. QED
  BY <1>1, <1>2, <1>3, <1>4, Zenon DEF Next

\* Every step keeps it: one case for each action.
LEMMA OrderStep ==
  ASSUME MultipartInv, OrderInv, [Next]_vars
  PROVE  OrderInv'
<1>0. SUFFICES ASSUME env.orderly PROVE OrderInv'
  <2>1. ~env.orderly => ~env'.orderly
    BY SameWorld, Zenon
  <2>. QED
    BY <2>1, Zenon DEF OrderInv
<1>1. CASE UNCHANGED vars
  <2>1. UNCHANGED <<fs, env, job, life, acked, settled>>
    BY <1>1, Zenon DEF vars, history, uploadHistory
  <2>2. Disciplined'
    <3>1. Disciplined
      BY <1>0, Zenon DEF OrderInv
    <3>. QED
      BY <2>1, <3>1, Zenon DEF Disciplined, Busy
  <2>. DEFINE ps == {}
  <2>3. ps \subseteq Common
    BY Zenon
  <2>. HIDE DEF ps
  <2>. QED
    BY <1>0, <2>1, <2>2, <2>3, CalmRefused, Zenon
<1>2. ASSUME NEW t \in Threads, Arrive(t), Disciplined' PROVE OrderInv'
  <2>1. CASE CreateBucket(t) \/ DeleteBucket(t) \/ Put(t) \/ DeleteObject(t) \/ PutTagging(t) \/ DeleteTagging(t)
    BY <1>0, <1>2, <2>1, OrderCreateBucket, OrderDeleteBucket, OrderPut, OrderDeleteObject, Zenon
  <2>2. CASE CreateUpload(t) \/ UploadPart(t) \/ Complete(t) \/ Abort(t)
    BY <1>0, <1>2, <2>2, OrderCreateUpload, OrderUploadPart, OrderComplete, OrderAbort, Zenon
  <2>. QED
    BY <1>2, <2>1, <2>2, Zenon DEF Arrive
<1>3. ASSUME NEW t \in Threads, Handle(t), Disciplined' PROVE OrderInv'
  <2>0. Busy(t)
    BY <1>3, Handling, Zenon
  <2>1. CASE MakeBucket(t) \/ MarkBucket(t) \/ ScanData(t) \/ ScanVersions(t) \/ Remove(t) \/ Removed(t)
    BY <1>0, <1>3, <2>0, <2>1, OrderMakeBucket, OrderScan, OrderRemove, OrderRemoved, Zenon
  <2>2. CASE MakeParent(t) \/ OpenTmp(t) \/ Rename(t) \/ Finish(t) \/ UnlinkObject(t) \/ Prune(t)
    BY <1>0, <1>3, <2>0, <2>2, OrderMakeParent, OrderOpenTmp, OrderRename, OrderFinish, OrderUnlinkObject, OrderPrune, Zenon
  <2>3. CASE MakeTagDir(t) \/ WriteTags(t) \/ UnlinkTags(t) \/ MakeUpload(t) \/ WriteInfo(t)
    BY <1>0, <1>3, <2>0, <2>3, OrderTags, OrderMakeUpload, OrderWriteInfo, Zenon
  <2>4. CASE OpenPart(t) \/ WritePart(t) \/ WritePartMeta(t) \/ OpenWriter(t) \/ PartExists(t)
    BY <1>0, <1>3, <2>0, <2>4, OrderOpenPart, OrderWritePart, OrderWritePartMeta, OrderOpenWriter, OrderPartExists, Zenon
  <2>5. CASE ReadPart(t) \/ ReadDigest(t) \/ RewriteRead(t) \/ RewriteWrite(t)
    BY <1>0, <1>3, <2>0, <2>5, OrderReadPart, OrderReadDigest, OrderRewriteRead, OrderRewriteWrite, Zenon
  <2>. QED
    BY <1>3, <2>1, <2>2, <2>3, <2>4, <2>5, Zenon DEF Handle
<1>4. ASSUME NEW t \in Threads, Abandon(t), Disciplined' PROVE OrderInv'
  BY <1>0, <1>4, OrderAbandon, Zenon
<1>5. Next => Disciplined'
  <2>1. env'.orderly
    BY <1>0, SameWorld, Zenon
  <2>. QED
    BY <1>0, Zenon DEF Next
<1>. QED
  BY <1>1, <1>2, <1>3, <1>4, <1>5, Zenon DEF Next

\* The invariant of orderly clients holds in every world of theirs.
THEOREM OrderInvariant == Spec => []OrderInv
<1>1. Init => OrderInv
  BY OrderInit
<1>2. MultipartInv /\ OrderInv /\ [Next]_vars => OrderInv'
  BY OrderStep
<1>. QED
  BY <1>1, <1>2, MultipartInvariant, PTL DEF Spec

\* A part acknowledged last (upload_part) and its digest are what complete_multipart will read and
\* list_parts shows, until the upload is completed or aborted.
THEOREM PartsAreKept == Spec => []PartsKept
<1>1. MultipartInv /\ OrderInv => PartsKept
  <2>1. SUFFICES ASSUME MultipartInv, OrderInv, env.orderly, NEW u \in Uploads, NEW n \in PartNumbers,
                        acked[u][n] # Empty, settled[u][n], Upload(u) \in tree,
                        \A t \in Active({"complete", "abort"}) : job[t].up # u
                 PROVE  /\ [number |-> n, etag |-> <<acked[u][n]>>] \in ListedParts(u)
                        /\ fs[Part(u, n)] = acked[u][n]
    BY Zenon DEF PartsKept
  <2>2. ASSUME NEW t \in Threads, job[t].pc = "remove" PROVE job[t].up # u
    <3>1. Busy(t) /\ job[t].op \in {"complete", "abort"}
      BY <2>1, <2>2, ClearerFacts, Zenon
    <3>2. t \in Active({"complete", "abort"})
      BY <3>1, Zenon DEF Active
    <3>. QED
      BY <2>1, <3>2, Zenon
  <2>3. ~Leaving(u)
    BY <2>2, Zenon DEF Leaving
  <2>4. /\ Part(u, n) \in tree /\ PartMeta(u, n) \in tree
        /\ fs[Part(u, n)] = acked[u][n] /\ fs[PartMeta(u, n)] = acked[u][n]
    BY <2>1, <2>3, Zenon DEF OrderInv, PartInv
  <2>5. Block(PartMeta(u, n)) = <<acked[u][n]>>
    BY <2>1, <2>4, Zenon DEF Block
  <2>. QED
    BY <2>4, <2>5, Zenon DEF ListedParts
<1>. QED
  BY <1>1, MultipartInvariant, OrderInvariant, PTL

\* Between orderly requests the metadata is of the object: its own ETag after put_object, that of its parts
\* after complete_multipart and rewrite_meta_etag.
THEOREM ETagsDescribe == Spec => []ETagDescribes
<1>1. MultipartInv /\ OrderInv => ETagDescribes
  <2>1. SUFFICES ASSUME MultipartInv, OrderInv, env.orderly, Object \in tree, Active({"put", "delete", "complete"}) = {}
                 PROVE  Meta \in tree /\ fs[Meta].of = fs[Object] /\ fs[Meta].etag[2] = fs[Object]
    BY Zenon DEF ETagDescribes
  <2>2. ASSUME NEW t \in Threads, job[t].pc = "finish" PROVE FALSE
    <3>1. Busy(t)
      BY <2>2, SMTT(20) DEF Busy
    <3>2. Staged(job[t].op, job[t].pc)
      BY <2>1, <3>1, JobFacts, Zenon
    <3>3. job[t].op \in {"put", "delete", "complete"}
      BY <2>2, <3>2, SMTT(20) DEF Staged
    <3>4. t \in Active({"put", "delete", "complete"})
      BY <3>1, <3>3, Zenon DEF Active
    <3>. QED
      BY <2>1, <3>4, Zenon
  <2>3. Described
    BY <2>1, <2>2, Zenon DEF OrderInv
  <2>. QED
    BY <2>1, <2>3, Zenon DEF Described
<1>. QED
  BY <1>1, MultipartInvariant, OrderInvariant, PTL

----------------------------------------------------------------------------
(* Multipart implements AtomicUploads. *)

\* A set of naturals that is not empty has a least one.
LEMMA Least ==
  ASSUME NEW S \in SUBSET Nat, S # {}
  PROVE  \E n \in S : \A k \in S : n <= k
<1>1. \E n \in S : \A k \in S : <<k, n>> \notin OpToRel(<, Nat)
  BY NatLessThanWellFounded, WFMin
<1>2. PICK n \in S : \A k \in S : <<k, n>> \notin OpToRel(<, Nat)
  BY <1>1, Zenon
<1>3. ASSUME NEW k \in S PROVE n <= k
  <2>1. <<k, n>> \notin {ss \in Nat \X Nat : ss[1] < ss[2]}
    BY <1>2, Zenon DEF OpToRel
  <2>2. k \in Nat /\ n \in Nat
    OBVIOUS
  <2>. QED
    BY <2>1, <2>2, SMTT(20)
<1>. QED
  BY <1>3

\* g[i] is what a writer has that has taken the first i of s.
Collects(g, s) ==
    g[0] = <<>> /\ \A i \in 1..Len(s) : g[i] = g[i - 1] \o (IF s[i] = Empty THEN <<>> ELSE <<s[i]>>)

\* What AtomicUploads calls the bodies joined is what a writer collects that takes them one by one.
LEMMA JoinedIs ==
  ASSUME NEW s, Len(s) \in Nat, NEW g, Collects(g, s)
  PROVE  Atomic!Joined(s) = g[Len(s)]
<1>. DEFINE Step(h, i) == IF i = 0 THEN <<>> ELSE h[i - 1] \o (IF s[i] = Empty THEN <<>> ELSE <<s[i]>>)
            N == 0..Len(s)
            h == CHOOSE h : h = [i \in N |-> Step(h, i)]
            f == [i \in N |-> g[i]]
<1>0. g[0] = <<>> /\ \A i \in 1..Len(s) : g[i] = g[i - 1] \o (IF s[i] = Empty THEN <<>> ELSE <<s[i]>>)
  BY Zenon DEF Collects
<1>1. \A i \in N : i = 0 \/ (i \in 1..Len(s) /\ i - 1 \in N)
  BY SMTT(20)
<1>2. ASSUME NEW i \in N PROVE f[i] = Step(f, i)
  <2>1. CASE i = 0
    BY <1>0, <2>1, Zenon
  <2>2. CASE i # 0
    <3>1. i \in 1..Len(s) /\ i - 1 \in N
      BY <1>1, <2>2, Zenon
    <3>2. f[i] = g[i] /\ f[i - 1] = g[i - 1]
      BY <3>1, Zenon
    <3>. QED
      BY <1>0, <2>2, <3>1, <3>2, Zenon
  <2>. QED
    BY <2>1, <2>2, Zenon
<1>3. Atomic!Joined(s) = h[Len(s)]
  BY Zenon DEF Atomic!Joined
<1>4. \A h1, h2, i : i = 0 \/ h1[i - 1] = h2[i - 1] => Step(h1, i) = Step(h2, i)
  BY Zenon
<1>5. f[Len(s)] = g[Len(s)] /\ Len(s) \in N
  <2>1. Len(s) \in N
    BY SMTT(20)
  <2>. QED
    BY <2>1, Zenon
<1>6. DOMAIN f = N /\ f = [i \in N |-> f[i]]
  BY Zenon
<1>7. N \subseteq Nat /\ \A i \in N : i \in Nat /\ i - 1 \in Int /\ ~(i <= i - 1)
  BY SMTT(20)
<1>. HIDE DEF Step, f, N
<1>8. f = [i \in N |-> Step(f, i)]
  BY <1>2, <1>6, Zenon
<1>9. h = [i \in N |-> Step(h, i)]
  BY <1>8, Zenon
<1>. HIDE DEF h
<1>10. \A i \in N : h[i] = f[i]
  <2>. DEFINE Bad == {i \in N : h[i] # f[i]}
  <2>1. SUFFICES ASSUME Bad # {} PROVE FALSE
    BY Zenon
  <2>2. Bad \in SUBSET Nat
    BY <1>7, Zenon
  <2>3. PICK n \in Bad : \A k \in Bad : n <= k
    <3>. HIDE DEF Bad
    <3>. QED
      BY <2>1, <2>2, Least, Zenon
  <2>4. n \in N /\ h[n] # f[n] /\ h[n] = Step(h, n) /\ f[n] = Step(f, n)
    BY <1>2, <1>9, Zenon
  <2>5. n # 0 /\ h[n - 1] # f[n - 1]
    BY <1>4, <2>4, Zenon
  <2>6. n - 1 \in N /\ ~(n <= n - 1)
    <3>1. n \in 1..Len(s) \/ n = 0
      BY <1>1, <2>4, Zenon DEF N
    <3>. QED
      BY <1>1, <1>7, <2>4, <2>5, Zenon
  <2>. QED
    BY <2>3, <2>5, <2>6, Zenon
<1>. QED
  BY <1>3, <1>5, <1>10, Zenon

\* Somebody has committed the upload, or aborts it.
Ending == {"finish", "readmeta", "rewrite", "remove"}
Closing(j, u) == j.op \in {"complete", "abort"} /\ j.up = u /\ j.pc \in Ending
\* The upload is open to orderly clients.
IsOpen(u) == Upload(u) \in tree /\ Known(u) /\ \A t \in Threads : ~Closing(job[t], u)
\* The parts and the object, of any files.
PartsGiven(o, f) ==
    [u \in Uploads |-> [n \in PartNumbers |-> IF u \in o /\ Part(u, n) \in DOMAIN f THEN f[Part(u, n)] ELSE None]]
ObjectGiven(f) == IF Object \in DOMAIN f THEN f[Object] ELSE None
\* What clients see stays.
Unseen == UNCHANGED <<OpenUploads, PartsOfOpen, ObjectThere>>
\* One step of AtomicUploads, or none.
AtomicStep == Unseen \/ Atomic!Next

\* Of orderly clients OpenUploads are those that are open, their bucket is there.
LEMMA OpenIs ==
  OrderInv /\ env.orderly => /\ OpenUploads = {u \in Uploads : IsOpen(u)}
                             /\ PartsOfOpen = PartsGiven(OpenUploads, fs) /\ ObjectThere = ObjectGiven(fs)
<1>1. SUFFICES ASSUME OrderInv, env.orderly
               PROVE  OpenUploads = {u \in Uploads : IsOpen(u)}
  BY Zenon DEF PartsOfOpen, PartsGiven, ObjectThere, ObjectGiven, tree
<1>2. ASSUME NEW u \in Uploads PROVE u \in OpenUploads <=> IsOpen(u)
  <2>1. Upload(u) \in tree => Marker \in tree
    BY <1>1, MarkerOfUpload, Zenon
  <2>2. \A t \in Threads : job[t].pc \in Ending => Busy(t)
    BY SMTT(20) DEF Ending, Busy
  <2>3. (\A t \in Active({"complete", "abort"}) : job[t].up = u => job[t].pc \notin Ending)
            <=> \A t \in Threads : ~Closing(job[t], u)
    BY <2>2, Zenon DEF Active, Closing
  <2>4. u \in OpenUploads <=> /\ u \in ListedUploads /\ env.orderly /\ Known(u)
                              /\ \A t \in Active({"complete", "abort"}) : job[t].up = u => job[t].pc \notin Ending
    BY Zenon DEF OpenUploads, Ending
  <2>. QED
    BY <1>1, <2>1, <2>3, <2>4, Zenon DEF ListedUploads, IsOpen
<1>. QED
  BY <1>2, Zenon DEF OpenUploads, ListedUploads

\* And after a step.
LEMMA OpenNext ==
  (OrderInv /\ env.orderly => /\ OpenUploads = {u \in Uploads : IsOpen(u)}
                              /\ PartsOfOpen = PartsGiven(OpenUploads, fs) /\ ObjectThere = ObjectGiven(fs))'
  BY OpenIs, PTL

\* A part as clients know it, unchanged.
SamePart(o, f, p, g, u, n) ==
    IF u \in o /\ Part(u, n) \in DOMAIN f THEN u \in p /\ Part(u, n) \in DOMAIN g /\ g[Part(u, n)] = f[Part(u, n)]
    ELSE u \notin p \/ Part(u, n) \notin DOMAIN g

\* The parts are of the files of open uploads.
LEMMA SameParts ==
  ASSUME NEW o, NEW f, NEW p, NEW g, \A u \in Uploads, n \in PartNumbers : SamePart(o, f, p, g, u, n)
  PROVE  PartsGiven(p, g) = PartsGiven(o, f)
<1>1. \A u \in Uploads, n \in PartNumbers :
          (IF u \in o /\ Part(u, n) \in DOMAIN f THEN f[Part(u, n)] ELSE None)
          = (IF u \in p /\ Part(u, n) \in DOMAIN g THEN g[Part(u, n)] ELSE None)
  BY Zenon DEF SamePart
<1>. QED
  BY <1>1, Zenon DEF PartsGiven

\* The object, unchanged.
LEMMA SameObject ==
  ASSUME NEW f, NEW g, Same(f, g, Object)
  PROVE  ObjectGiven(g) = ObjectGiven(f)
  BY Zenon DEF ObjectGiven, Same

\* A step that opens and closes nothing and changes no part of an open upload does not show in the uploads.
LEMMA SameOpen ==
  ASSUME OrderInv, OrderInv', env.orderly, env' = env, \A u \in Uploads : IsOpen(u)' <=> IsOpen(u),
         \A u \in Uploads, n \in PartNumbers : IsOpen(u) => Same(fs, fs', Part(u, n))
  PROVE  OpenUploads' = OpenUploads /\ PartsOfOpen' = PartsOfOpen
<1>1. OpenUploads = {u \in Uploads : IsOpen(u)} /\ PartsOfOpen = PartsGiven(OpenUploads, fs)
  BY OpenIs, Zenon
<1>2. OpenUploads' = {u \in Uploads : IsOpen(u)'} /\ PartsOfOpen' = PartsGiven(OpenUploads', fs')
  BY OpenNext, Zenon
<1>3. OpenUploads' = OpenUploads
  BY <1>1, <1>2, Zenon
<1>4. \A u \in OpenUploads : u \in Uploads /\ IsOpen(u)
  BY <1>1, Zenon
<1>5. ASSUME NEW u \in Uploads, NEW n \in PartNumbers
      PROVE  SamePart(OpenUploads, fs, OpenUploads', fs', u, n)
  BY <1>3, <1>4, Zenon DEF Same, SamePart
<1>6. PICK o, p, g : o = OpenUploads /\ p = OpenUploads' /\ g = fs'
  BY Zenon
<1>7. \A u \in Uploads, n \in PartNumbers : SamePart(o, fs, p, g, u, n)
  BY <1>5, <1>6, Zenon
<1>8. PartsGiven(p, g) = PartsGiven(o, fs)
  BY <1>7, SameParts, SMTT(20)
<1>. QED
  BY <1>1, <1>2, <1>3, <1>6, <1>8, Zenon

\* And if it leaves the object alone too, in nothing.
LEMMA Stutter ==
  ASSUME OrderInv, OrderInv', env.orderly, env' = env, \A u \in Uploads : IsOpen(u)' <=> IsOpen(u),
         \A u \in Uploads, n \in PartNumbers : IsOpen(u) => Same(fs, fs', Part(u, n)), Same(fs, fs', Object)
  PROVE  Unseen
<1>1. ObjectThere = ObjectGiven(fs) /\ ObjectThere' = ObjectGiven(fs')
  BY OpenIs, OpenNext, Zenon
<1>2. ObjectGiven(fs') = ObjectGiven(fs)
  BY SameObject, Zenon
<1>. QED
  BY <1>1, <1>2, SameOpen, Zenon DEF Unseen

----------------------------------------------------------------------------
(* Steps that show in nothing.                                             *)

\* What a step of AtomicUploads would change.
Untouched ==
    /\ Same(fs, fs', Object)
    /\ \A u \in Uploads : Upload(u) \in tree' <=> Upload(u) \in tree
    /\ \A u \in Uploads, n \in PartNumbers : Same(fs, fs', Part(u, n))

\* A step at the bucket's own paths, but the object, touches none of it.
LEMMA UntouchedBy ==
  ASSUME NEW ps, ps \subseteq Bucketwide \ {Object}, \A p : p \in ps \/ Same(fs, fs', p)
  PROVE  Untouched
<1>1. \A u \in Uploads, n \in PartNumbers : {Upload(u), Part(u, n)} \cap Bucketwide = {}
  BY PathsUnder, UnderNotBucketwide, Zenon
<1>2. \A u \in Uploads : Upload(u) \notin Bucketwide
  BY PathsUnder, UnderNotBucketwide, Zenon
<1>3. Same(fs, fs', Object)
  BY Zenon
<1>4. \A u \in Uploads : Same(fs, fs', Upload(u))
  BY <1>2, Zenon
<1>5. \A u \in Uploads, n \in PartNumbers : Same(fs, fs', Part(u, n))
  BY <1>1, Zenon
<1>. QED
  BY <1>3, <1>4, <1>5, Zenon DEF Untouched, Same, tree

\* As UntouchedBy, of one system call.
LEMMA UntouchedCall ==
  ASSUME NEW ps, ps \subseteq Bucketwide \ {Object}, fs' = fs \/ fs' = Make(fs, ps) \/ fs' = Erase(fs, ps)
  PROVE  Untouched
<1>1. \A p : p \in ps \/ Same(fs, fs', p)
  <2>1. CASE fs' = fs
    BY <2>1, Zenon DEF Same
  <2>2. CASE fs' = Make(fs, ps)
    BY <2>2, MakeSame, Zenon
  <2>3. CASE fs' = Erase(fs, ps)
    BY <2>3, EraseSame, Zenon
  <2>. QED
    BY <2>1, <2>2, <2>3, Zenon
<1>. QED
  BY <1>1, UntouchedBy, Zenon

\* Nobody who had not starts to close an upload, or the other way around.
LEMMA UnseenIf ==
  ASSUME OrderInv, OrderInv', env.orderly, env' = env, life' = life, Untouched,
         \A u \in Uploads, q \in Threads : Closing(job'[q], u) <=> Closing(job[q], u)
  PROVE  Unseen
<1>1. \A u \in Uploads : IsOpen(u)' <=> IsOpen(u)
  BY Zenon DEF IsOpen, Untouched, Known
<1>. QED
  BY <1>1, Stutter, Zenon DEF Untouched

\* A step of one handler.
LEMMA UnseenStep ==
  ASSUME MultipartInv, OrderInv, OrderInv', env.orderly, env' = env, life' = life, Untouched,
         NEW t \in Threads, NEW k, job' = [job EXCEPT ![t] = k],
         \A u \in Uploads : Closing(k, u) <=> Closing(job[t], u)
  PROVE  Unseen
<1>1. job'[t] = k /\ \A q \in Threads \ {t} : job'[q] = job[q]
  BY OnlyOne, Zenon
<1>2. \A u \in Uploads, q \in Threads : Closing(job'[q], u) <=> Closing(job[q], u)
  BY <1>1, Zenon
<1>. QED
  BY <1>2, UnseenIf, Zenon

\* Of a handler that closes nothing, and either ends or goes on with nothing of the kind.
LEMMA UnseenGoto ==
  ASSUME MultipartInv, OrderInv, OrderInv', env.orderly, env' = env, life' = life, Untouched,
         NEW t \in Threads, Busy(t), job[t].pc \notin Ending \/ job[t].op \notin {"complete", "abort"},
         Done(t) \/ \E next : Goto(t, next) /\ (next \notin Ending \/ job[t].op \notin {"complete", "abort"})
  PROVE  Unseen
<1>1. \A u : ~Closing(job[t], u)
  BY Zenon DEF Closing
<1>2. PICK k : job' = [job EXCEPT ![t] = k] /\ \A u : ~Closing(k, u)
  <2>1. CASE Done(t)
    <3>1. NoJob.op \notin {"complete", "abort"}
      BY SMTT(20) DEF NoJob
    <3>. QED
      BY <2>1, <3>1, Zenon DEF Done, Closing
  <2>2. ASSUME NEW next, Goto(t, next), next \notin Ending \/ job[t].op \notin {"complete", "abort"}
        PROVE  \E k : job' = [job EXCEPT ![t] = k] /\ \A u : ~Closing(k, u)
    <3>. DEFINE k == [job[t] EXCEPT !.pc = next]
    <3>1. DOMAIN job[t] = JobFields
      BY JobFacts, Zenon
    <3>2. k.pc = next /\ k.op = job[t].op
      BY <3>1, SMTT(20) DEF JobFields
    <3>3. job' = [job EXCEPT ![t] = k]
      BY <2>2, Zenon DEF Goto
    <3>. HIDE DEF k
    <3>. QED
      BY <2>2, <3>2, <3>3, Zenon DEF Closing
  <2>. QED
    BY <2>1, <2>2, Zenon
<1>. QED
  BY <1>1, <1>2, UnseenStep, Zenon

\* Of a request that comes in and is refused, or starts with nothing of the kind.
LEMMA UnseenArrival ==
  ASSUME MultipartInv, OrderInv, OrderInv', env.orderly, env' = env, life' = life, Untouched,
         NEW t \in Threads, NEW r, NEW ok, NEW next, Begin(t, r, ok, next), DOMAIN r = JobFields, next \notin Ending
  PROVE  Unseen
<1>1. CASE job' = job
  BY <1>1, UnseenIf, Zenon
<1>2. CASE Arrives(t, r, next)
  <2>1. PICK m : job'[t] = [r EXCEPT !.pc = next, !.met = m]
    BY <1>2, Zenon DEF Arrives
  <2>2. job'[t].pc = next
    BY <2>1, SMTT(20) DEF JobFields
  <2>3. job[t].pc = "idle"
    BY <1>2, Zenon DEF Arrives, Busy
  <2>4. job[t].pc \notin Ending
    BY <2>3, SMTT(20) DEF Ending
  <2>5. ASSUME NEW q \in Threads, q # t PROVE job'[q].op = job[q].op /\ job'[q].up = job[q].up /\ job'[q].pc = job[q].pc
    <3>1. job'[q] = IF Busy(q) THEN [job[q] EXCEPT !.met = @ \/ r.op \in Deletions] ELSE job[q]
      BY <1>2, <2>5, Zenon DEF Arrives
    <3>2. CASE Busy(q)
      <4>1. DOMAIN job[q] = JobFields
        BY <3>2, JobFacts, Zenon
      <4>2. PICK x : job'[q] = [job[q] EXCEPT !.met = x]
        BY <3>1, <3>2, Zenon
      <4>. QED
        BY <4>1, <4>2, SMTT(20) DEF JobFields
    <3>3. CASE ~Busy(q)
      BY <3>1, <3>3, Zenon
    <3>. QED
      BY <3>2, <3>3, Zenon
  <2>6. \A u \in Uploads, q \in Threads : Closing(job'[q], u) <=> Closing(job[q], u)
    BY <2>2, <2>4, <2>5, Zenon DEF Closing
  <2>. QED
    BY <2>6, UnseenIf, Zenon
<1>3. job' = job \/ Arrives(t, r, next)
  BY Zenon DEF Begin, Arrives
<1>. QED
  BY <1>1, <1>2, <1>3, Zenon

\* An upload a handler of its own is at, and has not committed or aborted, is open if its directory is there.
LEMMA MineOpen ==
  ASSUME MultipartInv, OrderInv, env.orderly, NEW t \in Threads, Busy(t), job[t].op \in UploadOps,
         Upload(job[t].up) \in tree, Known(job[t].up), job[t].pc \notin Ending
  PROVE  IsOpen(job[t].up) /\ job[t].up \in Uploads
<1>1. job[t].up \in Uploads /\ job[t].up # Empty
  <2>1. job[t].up \in Uploads
    BY JobFacts, Zenon
  <2>. QED
    BY <2>1, EmptyAssumption, Zenon
<1>2. ASSUME NEW q \in Threads, Closing(job[q], job[t].up) PROVE FALSE
  <2>1. job[q].pc \in Ending /\ job[q].up = job[t].up /\ job[q].op \in {"complete", "abort"}
    BY <1>2, Zenon DEF Closing
  <2>2. Busy(q) /\ q # t
    BY <2>1, SMTT(20) DEF Busy, Ending
  <2>3. Apart(job[t], job[q])
    BY <2>2, ApartPairs, Zenon DEF OrderInv
  <2>. QED
    BY <1>1, <2>1, <2>3, SMTT(20) DEF Apart
<1>. QED
  BY <1>1, <1>2, Zenon DEF IsOpen

\* A bucket's directories are none of it.
LEMMA BucketPaths ==
  /\ {Root, Data, MetaDir} \subseteq Bucketwide \ {Object} /\ {Marker} \subseteq Bucketwide \ {Object}
  /\ Upto(Dir) \subseteq Bucketwide \ {Object} /\ {Tmp} \subseteq Bucketwide \ {Object} /\ Upto(Version) \subseteq Bucketwide \ {Object}
  /\ Upto(TagDir) \subseteq Bucketwide \ {Object} /\ {Tags} \subseteq Bucketwide \ {Object} /\ Upto(MetaDir) \subseteq Bucketwide \ {Object}
  /\ {Meta, Dir} \subseteq Bucketwide \ {Object} /\ {} \subseteq Bucketwide \ {Object}
<1>1. Object \notin {Root, Data, MetaDir, Marker, Dir, Tmp, Versions, Version, TagDir, Tags, Meta}
  BY SMTT(20) DEF Object, Root, Data, MetaDir, Marker, Dir, Tmp, Versions, Version, TagDir, Tags, Meta
<1>2. {Root, Data, MetaDir, Marker, Dir, Tmp, Versions, Version, TagDir, Tags, Meta} \subseteq Bucketwide
  BY SMTT(20) DEF Bucketwide
<1>3. /\ Upto(Dir) = {Root, Data, Dir} /\ Upto(Version) = {Root, Versions, Version}
      /\ Upto(TagDir) = {Root, TagDir} /\ Upto(MetaDir) = {Root, MetaDir}
  BY UptoAll, Zenon
<1>. QED
  BY <1>1, <1>2, <1>3, Zenon

\* The bucket is made, its tags change, and the object's writer makes ready: nothing is seen.
LEMMA SeenBucket ==
  ASSUME MultipartInv, OrderInv, OrderInv', env.orderly, env' = env, NEW t \in Threads, Busy(t),
         MakeBucket(t) \/ MarkBucket(t) \/ MakeTagDir(t) \/ WriteTags(t) \/ UnlinkTags(t) \/ MakeParent(t) \/ OpenTmp(t) \/ OpenWriter(t)
  PROVE  Unseen
<1>1. job[t].pc \in {"mkbucket", "mark", "mktags", "writetags", "unlinktags", "mkparent", "open", "writer"}
  BY Zenon DEF MakeBucket, MarkBucket, MakeTagDir, WriteTags, UnlinkTags, MakeParent, OpenTmp, OpenWriter
<1>2. job[t].pc \notin Ending
  BY <1>1, SMTT(20) DEF Ending
<1>3. "mark" \notin Ending /\ "writetags" \notin Ending /\ "open" \notin Ending /\ "rename" \notin Ending /\ "exists" \notin Ending /\ "mkparent" \notin Ending
  BY SMTT(20) DEF Ending
<1>4. life' = life
  BY Zenon DEF MakeBucket, MarkBucket, MakeTagDir, WriteTags, UnlinkTags, MakeParent, OpenTmp, OpenWriter, history, uploadHistory
<1>5. PICK ps : ps \subseteq Bucketwide \ {Object} /\ (fs' = fs \/ fs' = Make(fs, ps) \/ fs' = Erase(fs, ps))
  <2>1. CASE MakeBucket(t) \/ MarkBucket(t) \/ OpenWriter(t)
    BY <2>1, BucketPaths, Zenon DEF MakeBucket, MarkBucket, OpenWriter
  <2>2. CASE MakeTagDir(t) \/ WriteTags(t) \/ UnlinkTags(t)
    BY <2>2, BucketPaths, Zenon DEF MakeTagDir, WriteTags, UnlinkTags
  <2>3. CASE MakeParent(t) \/ OpenTmp(t)
    BY <2>3, BucketPaths, Zenon DEF MakeParent, OpenTmp
  <2>. QED
    BY <2>1, <2>2, <2>3, Zenon
<1>6. Untouched
  BY <1>5, UntouchedCall, Zenon
<1>7. Done(t) \/ \E next : Goto(t, next) /\ next \notin Ending
  <2>1. CASE MakeBucket(t) \/ MarkBucket(t) \/ OpenWriter(t)
    BY <1>3, <2>1, Zenon DEF MakeBucket, MarkBucket, OpenWriter, Check
  <2>2. CASE MakeTagDir(t) \/ WriteTags(t) \/ UnlinkTags(t)
    BY <1>3, <2>2, Zenon DEF MakeTagDir, WriteTags, UnlinkTags
  <2>3. CASE MakeParent(t) \/ OpenTmp(t)
    BY <1>3, <2>3, Zenon DEF MakeParent, OpenTmp, Check
  <2>. QED
    BY <2>1, <2>2, <2>3, Zenon
<1>. QED
  BY <1>2, <1>4, <1>6, <1>7, UnseenGoto, Zenon

\* complete_multipart reads the parts of its list: nothing is seen.
LEMMA SeenReader ==
  ASSUME MultipartInv, OrderInv, OrderInv', env.orderly, env' = env, NEW t \in Threads, Busy(t),
         PartExists(t) \/ ReadPart(t) \/ ReadDigest(t)
  PROVE  Unseen
<1>1. job[t].pc \in {"exists", "read", "digest"}
  BY Zenon DEF PartExists, ReadPart, ReadDigest
<1>2. job[t].pc \notin Ending
  BY <1>1, SMTT(20) DEF Ending
<1>3. "read" \notin Ending /\ "rename" \notin Ending /\ "digest" \notin Ending /\ "exists" \notin Ending
  BY SMTT(20) DEF Ending
<1>4. life' = life
  BY Zenon DEF PartExists, ReadPart, ReadDigest, history, uploadHistory
<1>5. PICK ps : ps \subseteq Bucketwide \ {Object} /\ (fs' = fs \/ fs' = Erase(fs, ps))
  BY BucketPaths, Zenon DEF PartExists, ReadPart, ReadDigest
<1>6. Untouched
  BY <1>5, UntouchedCall, Zenon
<1>7. DOMAIN job[t] = JobFields
  BY JobFacts, Zenon
<1>8. NoJob.op \notin {"complete", "abort"}
  BY SMTT(20) DEF NoJob
<1>9. PICK k : job' = [job EXCEPT ![t] = k] /\ (k = NoJob \/ k.pc \notin Ending)
  <2>1. CASE PartExists(t)
    <3>1. Done(t) \/ \E next : Goto(t, next) /\ next \notin Ending
      BY <1>3, <2>1, Zenon DEF PartExists, Check
    <3>2. CASE Done(t)
      BY <3>2, Zenon DEF Done
    <3>3. ASSUME NEW next, Goto(t, next), next \notin Ending
          PROVE  \E k : job' = [job EXCEPT ![t] = k] /\ (k = NoJob \/ k.pc \notin Ending)
      <4>. DEFINE k == [job[t] EXCEPT !.pc = next]
      <4>1. k.pc = next
        BY <1>7, SMTT(20) DEF JobFields
      <4>2. job' = [job EXCEPT ![t] = k]
        BY <3>3, Zenon DEF Goto
      <4>. HIDE DEF k
      <4>. QED
        BY <3>3, <4>1, <4>2, Zenon
    <3>. QED
      BY <3>1, <3>2, <3>3, Zenon
  <2>2. CASE ReadPart(t)
    <3>1. PICK x : job' = [job EXCEPT ![t] = NoJob] \/ job' = [job EXCEPT ![t] = [job[t] EXCEPT !.pc = "digest", !.sum = x]]
      BY <2>2, Zenon DEF ReadPart, Done
    <3>. DEFINE k == [job[t] EXCEPT !.pc = "digest", !.sum = x]
    <3>2. k.pc = "digest"
      BY <1>7, SMTT(20) DEF JobFields
    <3>3. job' = [job EXCEPT ![t] = NoJob] \/ job' = [job EXCEPT ![t] = k]
      BY <3>1, Zenon
    <3>. HIDE DEF k
    <3>. QED
      BY <1>3, <3>2, <3>3, Zenon
  <2>3. CASE ReadDigest(t)
    <3>1. PICK x, y : job' = [job EXCEPT ![t] = [job[t] EXCEPT !.pc = "exists", !.at = x, !.md5s = y]]
      BY <2>3, Zenon DEF ReadDigest
    <3>. DEFINE k == [job[t] EXCEPT !.pc = "exists", !.at = x, !.md5s = y]
    <3>2. k.pc = "exists"
      BY <1>7, SMTT(20) DEF JobFields
    <3>3. job' = [job EXCEPT ![t] = k]
      BY <3>1, Zenon
    <3>. HIDE DEF k
    <3>. QED
      BY <1>3, <3>2, <3>3, Zenon
  <2>. QED
    BY <2>1, <2>2, <2>3, Zenon
<1>10. \A u \in Uploads : Closing(k, u) <=> Closing(job[t], u)
  BY <1>2, <1>8, <1>9, Zenon DEF Closing
<1>. QED
  BY <1>4, <1>6, <1>9, <1>10, UnseenStep, Zenon

\* The commit's last steps: version and metadata.
LEMMA SeenFinish ==
  ASSUME MultipartInv, OrderInv, OrderInv', env.orderly, env' = env, NEW t \in Threads, Busy(t), Finish(t)
  PROVE  Unseen
<1>1. DOMAIN job[t] = JobFields /\ job[t].op \in {"put", "complete"} /\ job[t].pc = "finish"
  <2>1. job[t].pc = "finish" /\ Staged(job[t].op, job[t].pc) /\ DOMAIN job[t] = JobFields
    BY JobFacts, Zenon DEF Finish
  <2>. QED
    BY <2>1, SMTT(20) DEF Staged
<1>2. job[t].pc \in {"finish", "readmeta", "rewrite"} /\ job[t].pc \in Ending /\ "readmeta" \in Ending
  BY <1>1, SMTT(20) DEF Ending
<1>3. life' = life
  BY Zenon DEF Finish, uploadHistory
<1>4. Object \in tree /\ MetaDir \in tree
  BY <1>2, WriterFacts, Zenon DEF Replacing, tree
<1>5. PICK kept, vs, m : vs \subseteq {Root, Versions, Version} /\ (kept = fs \/ kept = Make(fs, vs)) /\ fs' = Write(kept, Meta, m)
  <2>1. Upto(Version) = {Root, Versions, Version}
    BY UptoAll, Zenon
  <2>2. CASE env.versioned
    BY <1>4, <2>1, <2>2, Zenon DEF Finish
  <2>3. CASE ~env.versioned
    BY <1>4, <2>1, <2>3, Zenon DEF Finish
  <2>. QED
    BY <2>2, <2>3, Zenon
<1>6. PICK ps : ps = {Root, Versions, Version, Meta}
  BY Zenon
<1>7. ps \subseteq Bucketwide \ {Object}
  <2>1. Upto(Version) = {Root, Versions, Version}
    BY UptoAll, Zenon
  <2>. QED
    BY <1>6, <2>1, BucketPaths, Zenon
<1>8. \A p : p \in ps \/ Same(fs, fs', p)
  <2>1. ASSUME NEW p, p \notin ps PROVE Same(fs, kept, p)
    BY <1>5, <1>6, <2>1, MakeIs, Zenon DEF Same, Make
  <2>2. ASSUME NEW p, p \notin ps PROVE Same(kept, fs', p)
    BY <1>5, <1>6, <2>2, Zenon DEF Same, Write
  <2>. QED
    BY <2>1, <2>2, Zenon DEF Same
<1>9. Untouched
  BY <1>7, <1>8, UntouchedBy, Zenon
<1>10. CASE job[t].op = "put"
  <2>1. Done(t)
    <3>1. job[t].op # "complete"
      BY <1>10, SMTT(20)
    <3>. QED
      BY <3>1, Zenon DEF Finish, Check
  <2>2. job[t].op \notin {"complete", "abort"}
    BY <1>10, SMTT(20)
  <2>. QED
    BY <1>3, <1>9, <2>1, <2>2, UnseenGoto, Zenon
<1>11. CASE job[t].op = "complete"
  <2>. DEFINE k == [job[t] EXCEPT !.pc = "readmeta"]
  <2>1. job' = [job EXCEPT ![t] = k]
    BY <1>4, <1>11, Zenon DEF Finish, Check, Goto
  <2>2. k.pc = "readmeta" /\ k.op = job[t].op /\ k.up = job[t].up
    BY <1>1, SMTT(20) DEF JobFields
  <2>. HIDE DEF k
  <2>3. \A u \in Uploads : Closing(k, u) <=> Closing(job[t], u)
    BY <1>2, <2>2, Zenon DEF Closing
  <2>. QED
    BY <1>3, <1>9, <2>1, <2>3, UnseenStep, Zenon
<1>. QED
  BY <1>1, <1>10, <1>11, Zenon

\* rewrite_meta_etag: the upload is closed already, its files are not yet touched.
LEMMA SeenRewrite ==
  ASSUME MultipartInv, OrderInv, OrderInv', env.orderly, env' = env, NEW t \in Threads, Busy(t), RewriteRead(t) \/ RewriteWrite(t)
  PROVE  Unseen
<1>1. job[t].pc \in {"readmeta", "rewrite"}
  BY Zenon DEF RewriteRead, RewriteWrite
<1>2. DOMAIN job[t] = JobFields /\ job[t].op = "complete"
  BY <1>1, RewriterFacts, Zenon
<1>3. job[t].pc \in Ending /\ "rewrite" \in Ending /\ "remove" \in Ending
  BY <1>1, SMTT(20) DEF Ending
<1>4. life' = life
  BY Zenon DEF RewriteRead, RewriteWrite, history, uploadHistory
<1>5. PICK m : fs' = fs \/ fs' = Write(fs, Meta, m)
  BY Zenon DEF RewriteRead, RewriteWrite
<1>6. \A p : p \in {Meta, Dir} \/ Same(fs, fs', p)
  <2>1. CASE fs' = fs
    BY <2>1, Zenon DEF Same
  <2>2. CASE fs' = Write(fs, Meta, m)
    BY <2>2, WriteSame, Zenon
  <2>. QED
    BY <1>5, <2>1, <2>2, Zenon
<1>7. Untouched
  <2>. DEFINE ps == {Meta, Dir}
  <2>1. ps \subseteq Bucketwide \ {Object} /\ \A p : p \in ps \/ Same(fs, fs', p)
    BY <1>6, BucketPaths, Zenon
  <2>. HIDE DEF ps
  <2>. QED
    BY <2>1, UntouchedBy, Zenon
<1>8. PICK x, y : \/ job' = [job EXCEPT ![t] = [job[t] EXCEPT !.pc = "rewrite", !.seen = x]]
                  \/ job' = [job EXCEPT ![t] = [job[t] EXCEPT !.pc = "remove", !.todo = y]]
  <2>1. CASE RewriteRead(t)
    BY <2>1, Zenon DEF RewriteRead
  <2>2. CASE RewriteWrite(t)
    BY <2>2, Zenon DEF RewriteWrite
  <2>. QED
    BY <2>1, <2>2, Zenon
<1>. DEFINE k == [job[t] EXCEPT !.pc = "rewrite", !.seen = x]
            l == [job[t] EXCEPT !.pc = "remove", !.todo = y]
<1>9. k.pc = "rewrite" /\ k.op = job[t].op /\ k.up = job[t].up /\ l.pc = "remove" /\ l.op = job[t].op /\ l.up = job[t].up
  BY <1>2, SMTT(20) DEF JobFields
<1>10. job' = [job EXCEPT ![t] = k] \/ job' = [job EXCEPT ![t] = l]
  BY <1>8, Zenon
<1>. HIDE DEF k, l
<1>11. \A u \in Uploads : (Closing(k, u) <=> Closing(job[t], u)) /\ (Closing(l, u) <=> Closing(job[t], u))
  BY <1>3, <1>9, Zenon DEF Closing
<1>. QED
  BY <1>4, <1>7, <1>10, <1>11, UnseenStep, Zenon

\* delete_object's last step, and a handler that stops: an uncommitted upload stays open.
LEMMA SeenPrune ==
  ASSUME MultipartInv, OrderInv, OrderInv', env.orderly, env' = env, NEW t \in Threads, Busy(t), Prune(t) \/ Abandon(t)
  PROVE  Unseen
<1>1. Done(t) /\ life' = life
  BY Zenon DEF Prune, Abandon, history, uploadHistory
<1>2. job[t].op \notin {"complete", "abort"}
  <2>1. CASE Prune(t)
    <3>1. job[t].pc = "prune" /\ Staged(job[t].op, job[t].pc)
      BY <2>1, JobFacts, Zenon DEF Prune
    <3>. QED
      BY <3>1, SMTT(20) DEF Staged
  <2>2. CASE Abandon(t)
    BY <2>2, Environment, Zenon DEF Abandon
  <2>. QED
    BY <2>1, <2>2, Zenon
<1>3. Untouched
  <2>1. PICK ps : ps \subseteq {Meta, Dir} /\ (fs' = fs \/ fs' = Erase(fs, ps))
    <3>1. {Meta} \cup (IF Children(Dir) = {} THEN {Dir} ELSE {}) \subseteq {Meta, Dir} /\ {} \subseteq {Meta, Dir}
      BY Zenon
    <3>. QED
      BY <3>1, Zenon DEF Prune, Abandon
  <2>2. ps \subseteq Bucketwide \ {Object}
    BY <2>1, BucketPaths, Zenon
  <2>. QED
    BY <2>1, <2>2, UntouchedCall, Zenon
<1>. QED
  BY <1>1, <1>2, <1>3, UnseenGoto, Zenon

\* upload_part's last step: no part changes.
LEMMA SeenPartMeta ==
  ASSUME MultipartInv, OrderInv, OrderInv', env.orderly, env' = env, NEW t \in Threads, Busy(t), WritePartMeta(t)
  PROVE  Unseen
<1>1. job[t].pc = "partmeta" /\ Done(t) /\ life' = life
  BY Zenon DEF WritePartMeta
<1>2. job[t].pc \notin Ending
  BY <1>1, SMTT(20) DEF Ending
<1>3. PICK w, x : w = PartMeta(job[t].up, job[t].num) /\ (fs' = fs \/ fs' = Write(fs, w, x))
  BY Zenon DEF WritePartMeta
<1>4. \A p : p = w \/ Same(fs, fs', p)
  <2>1. CASE fs' = fs
    BY <2>1, Zenon DEF Same
  <2>2. CASE fs' = Write(fs, w, x)
    BY <2>2, WriteSame, Zenon
  <2>. QED
    BY <1>3, <2>1, <2>2, Zenon
<1>5. w # Object /\ \A u, n : w # Upload(u) /\ w # Part(u, n)
  BY <1>3, SMTT(20) DEF Object, PartMeta, Part, Upload
<1>6. Untouched
  BY <1>4, <1>5, Zenon DEF Untouched, Same, tree
<1>. QED
  BY <1>1, <1>2, <1>6, UnseenGoto, Zenon

\* A step of upload_part that writes the part's file: SetPart.
LEMMA SetsPart ==
  ASSUME MultipartInv, OrderInv, OrderInv', env.orderly, env' = env, life' = life,
         NEW t \in Threads, Busy(t), job[t].pc \in {"openpart", "writepart", "partmeta"},
         NEW b \in Bodies \cup {Empty}, fs' = Write(fs, Part(job[t].up, job[t].num), b),
         NEW k, job' = [job EXCEPT ![t] = k], k.pc \notin Ending
  PROVE  Atomic!Next
<1>. DEFINE u == job[t].up n == job[t].num
<1>1. /\ job[t].op = "part" /\ job[t].op \in UploadOps /\ u \in Uploads /\ n \in PartNumbers /\ life[u] # "none" /\ Upload(u) \in tree
  BY SenderFacts, Zenon
<1>2. job[t].pc \notin Ending
  BY SMTT(20) DEF Ending
<1>3. IsOpen(u)
  BY <1>1, <1>2, MineOpen, Zenon DEF Known
<1>4. PICK w : w = Part(u, n)
  BY Zenon
<1>5. fs' = Write(fs, w, b)
  BY <1>4, Zenon
<1>6. Object # w /\ (\A v : Upload(v) # w) /\ (\A v, m : Part(v, m) = w => v = u /\ m = n)
  BY <1>4, SMTT(20) DEF Part, Upload, Object
<1>7. \A p : p = w \/ Same(fs, fs', p)
  BY <1>5, WriteSame, Zenon
<1>8. job'[t] = k /\ \A q \in Threads \ {t} : job'[q] = job[q]
  BY OnlyOne, Zenon
<1>9. \A v \in Uploads, q \in Threads : Closing(job'[q], v) <=> Closing(job[q], v)
  BY <1>2, <1>8, Zenon DEF Closing
<1>10. \A v \in Uploads : IsOpen(v)' <=> IsOpen(v)
  BY <1>6, <1>7, <1>9, Zenon DEF IsOpen, Known, Same, tree
<1>11. /\ OpenUploads = {v \in Uploads : IsOpen(v)}
       /\ PartsOfOpen = PartsGiven(OpenUploads, fs) /\ ObjectThere = ObjectGiven(fs)
  BY OpenIs, Zenon
<1>12. /\ OpenUploads' = {v \in Uploads : IsOpen(v)'}
       /\ PartsOfOpen' = PartsGiven(OpenUploads', fs') /\ ObjectThere' = ObjectGiven(fs')
  BY OpenNext, Zenon
<1>13. OpenUploads' = OpenUploads /\ u \in OpenUploads
  BY <1>1, <1>3, <1>10, <1>11, <1>12, Zenon
<1>14. ObjectThere' = ObjectThere
  BY <1>6, <1>7, <1>11, <1>12, SameObject, Zenon
<1>15. PartsOfOpen' = [PartsOfOpen EXCEPT ![u][n] = b]
  <2>1. PICK o, v, m, p, g : o = OpenUploads /\ v = u /\ m = n /\ p = PartsGiven(o, fs) /\ g = PartsGiven(o, fs')
    BY Zenon
  <2>2. PICK r : r = [p[v] EXCEPT ![m] = b]
    BY Zenon
  <2>3. DOMAIN p = Uploads /\ DOMAIN g = Uploads /\ DOMAIN p[v] = PartNumbers /\ DOMAIN g[v] = PartNumbers
    BY <1>1, <2>1, Zenon DEF PartsGiven
  <2>4. g[v][m] = b
    <3>1. w \in DOMAIN fs' /\ fs'[w] = b
      BY <1>5, Zenon DEF Write
    <3>. QED
      BY <1>1, <1>4, <1>13, <2>1, <3>1, Zenon DEF PartsGiven
  <2>5. \A x \in Uploads, i \in PartNumbers : (x = v /\ i = m) \/ g[x][i] = p[x][i]
    <3>1. SUFFICES ASSUME NEW x \in Uploads, NEW i \in PartNumbers, ~(x = v /\ i = m) PROVE g[x][i] = p[x][i]
      BY Zenon
    <3>2. Same(fs, fs', Part(x, i))
      BY <1>6, <1>7, <2>1, <3>1, Zenon
    <3>3. /\ p[x][i] = IF x \in o /\ Part(x, i) \in DOMAIN fs THEN fs[Part(x, i)] ELSE None
          /\ g[x][i] = IF x \in o /\ Part(x, i) \in DOMAIN fs' THEN fs'[Part(x, i)] ELSE None
      BY <2>1, Zenon DEF PartsGiven
    <3>. QED
      BY <3>2, <3>3, Zenon DEF Same
  <2>6. g[v] = r
    <3>1. g[v] = [i \in PartNumbers |-> g[v][i]] /\ p[v] = [i \in PartNumbers |-> p[v][i]] /\ v \in Uploads
      BY <1>1, <2>1, Zenon DEF PartsGiven
    <3>2. r = [i \in PartNumbers |-> r[i]] /\ \A i \in PartNumbers : r[i] = IF i = m THEN b ELSE p[v][i]
      BY <2>2, <3>1, <2>3, Zenon
    <3>3. \A i \in PartNumbers : r[i] = g[v][i]
      BY <2>4, <2>5, <3>1, <3>2, Zenon
    <3>. QED
      BY <3>1, <3>2, <3>3, Zenon
  <2>7. g = [p EXCEPT ![v] = r]
    <3>1. \A x \in Uploads : x = v \/ g[x] = p[x]
      <4>1. ASSUME NEW x \in Uploads, x # v PROVE g[x] = p[x]
        <5>1. g[x] = [i \in PartNumbers |-> g[x][i]] /\ p[x] = [i \in PartNumbers |-> p[x][i]]
          BY <2>1, Zenon DEF PartsGiven
        <5>. QED
          BY <2>5, <4>1, <5>1, Zenon
      <4>. QED
        BY <4>1, Zenon
    <3>2. g = [x \in Uploads |-> g[x]]
      BY <2>1, Zenon DEF PartsGiven
    <3>. QED
      BY <1>1, <2>1, <2>3, <2>6, <3>1, <3>2, Zenon
  <2>8. g = [p EXCEPT ![v][m] = b]
    BY <2>2, <2>7, Zenon
  <2>. QED
    BY <1>11, <1>12, <1>13, <2>1, <2>8, Zenon
<1>16. Atomic!SetPart(u, n, b)
  BY <1>13, <1>14, <1>15, Zenon DEF Atomic!SetPart
<1>. QED
  BY <1>1, <1>16, Zenon DEF Atomic!Next

\* upload_part opens and writes the part.
LEMMA SeenPart ==
  ASSUME MultipartInv, OrderInv, OrderInv', env.orderly, env' = env, NEW t \in Threads, Busy(t), OpenPart(t) \/ WritePart(t)
  PROVE  AtomicStep
<1>1. job[t].pc \in {"openpart", "writepart"}
  BY Zenon DEF OpenPart, WritePart
<1>2. job[t].pc \notin Ending /\ "writepart" \notin Ending /\ "partmeta" \notin Ending /\ job[t].pc \in {"openpart", "writepart", "partmeta"}
  BY <1>1, SMTT(20) DEF Ending
<1>3. life' = life
  BY Zenon DEF OpenPart, WritePart, history, uploadHistory
<1>4. DOMAIN job[t] = JobFields /\ job[t].body \in Bodies /\ Sending(job[t], fs, settled) /\ job[t].op = "part"
  BY <1>2, SenderFacts, Zenon
<1>5. CASE OpenPart(t) /\ Parts(job[t].up) \notin tree
  <2>1. fs' = fs /\ Done(t)
    BY <1>5, Zenon DEF OpenPart
  <2>2. Untouched
    BY <2>1, BucketPaths, UntouchedCall, Zenon
  <2>. QED
    BY <1>2, <1>3, <2>1, <2>2, UnseenGoto, Zenon DEF AtomicStep
<1>6. CASE OpenPart(t) /\ Parts(job[t].up) \in tree
  <2>. DEFINE k == [job[t] EXCEPT !.pc = "writepart", !.linked = TRUE]
  <2>1. job' = [job EXCEPT ![t] = k] /\ fs' = Write(fs, Part(job[t].up, job[t].num), Empty)
    BY <1>6, Zenon DEF OpenPart
  <2>2. k.pc = "writepart"
    BY <1>4, SMTT(20) DEF JobFields
  <2>. HIDE DEF k
  <2>. QED
    BY <1>2, <1>3, <2>1, <2>2, SetsPart, Zenon DEF AtomicStep
<1>7. CASE WritePart(t)
  <2>. DEFINE k == [job[t] EXCEPT !.pc = "partmeta", !.linked = FALSE]
  <2>1. job[t].linked
    BY <1>4, <1>7, Zenon DEF Sending, WritePart
  <2>2. job' = [job EXCEPT ![t] = k] /\ fs' = Write(fs, Part(job[t].up, job[t].num), job[t].body)
    BY <1>7, <2>1, Zenon DEF WritePart
  <2>3. k.pc = "partmeta"
    BY <1>4, SMTT(20) DEF JobFields
  <2>. HIDE DEF k
  <2>. QED
    BY <1>2, <1>3, <1>4, <2>2, <2>3, SetsPart, Zenon DEF AtomicStep
<1>. QED
  BY <1>5, <1>6, <1>7, Zenon

\* remove_dir_all: nobody sees the files of a closed upload go.
LEMMA SeenRemove ==
  ASSUME MultipartInv, OrderInv, OrderInv', env.orderly, env' = env, NEW t \in Threads, Busy(t), Remove(t)
  PROVE  Unseen
<1>. DEFINE u == job[t].up
<1>0. job[t].pc = "remove"
  BY Zenon DEF Remove
<1>1. /\ DOMAIN job[t] = JobFields /\ job[t].op \in {"complete", "abort"} /\ u \in Uploads /\ job[t].todo = Under(u) \cap tree
  BY <1>0, ClearerFacts, Zenon
<1>2. PICK p \in job[t].todo : /\ Children(p) \cap job[t].todo = {}
                               /\ Children(p) # {} \/ Unlink(t, p)
  BY Zenon DEF Remove
<1>3. Unlink(t, p)
  <2>1. tree \subseteq Nodes
    BY Zenon DEF MultipartInv, FilesInv
  <2>2. Children(p) \subseteq Under(u) \cap tree
    BY <1>1, <1>2, <2>1, BelowUnder, ChildrenIn, Zenon
  <2>. QED
    BY <1>1, <1>2, <2>2, Zenon
<1>4. life' = life
  BY Zenon DEF Remove, history, uploadHistory
<1>5. fs' = Erase(fs, {p}) /\ p \in Under(u)
  BY <1>1, <1>2, <1>3, Zenon DEF Unlink
<1>6. \A q : q = p \/ Same(fs, fs', q)
  <2>. DEFINE ps == {p}
  <2>1. fs' = Erase(fs, ps) /\ \A q : q \in ps => q = p
    BY <1>5, Zenon
  <2>. HIDE DEF ps
  <2>. QED
    BY <2>1, EraseSame, Zenon
<1>7. ASSUME NEW v \in Uploads, NEW n \in PartNumbers, v # u PROVE Part(v, n) # p
  <2>1. \A m \in PartNumbers : Part(v, m) \in Under(v)
    BY PathsUnder, Zenon
  <2>2. p \in Under(u)
    BY <1>5, Zenon
  <2>3. SUFFICES ASSUME Part(v, n) = p PROVE FALSE
    BY Zenon
  <2>4. p \in Under(v)
    BY <2>1, <2>3, Zenon
  <2>. QED
    BY <1>7, <2>2, <2>4, UnderApart, Zenon
<1>8. ASSUME NEW v \in Uploads, v # u PROVE Upload(v) # p
  <2>1. Upload(v) \in Under(v)
    BY PathsUnder, Zenon
  <2>2. p \in Under(u)
    BY <1>5, Zenon
  <2>3. SUFFICES ASSUME Upload(v) = p PROVE FALSE
    BY Zenon
  <2>4. p \in Under(v)
    BY <2>1, <2>3, Zenon
  <2>. QED
    BY <1>8, <2>2, <2>4, UnderApart, Zenon
<1>9. p # Object
  <2>1. Object \in Bucketwide
    BY Zenon DEF Bucketwide
  <2>. QED
    BY <1>5, <2>1, UnderNotBucketwide, Zenon
<1>10. PICK x : job'[t] = [job[t] EXCEPT !.todo = x]
  BY <1>3, Zenon DEF Unlink
<1>11. job'[t].op = job[t].op /\ job'[t].up = u /\ job'[t].pc = "remove"
  BY <1>0, <1>1, <1>10, SMTT(20) DEF JobFields
<1>12. ASSUME NEW q \in Threads \ {t} PROVE job'[q].op = job[q].op /\ job'[q].up = job[q].up /\ job'[q].pc = job[q].pc
  <2>1. PICK w : job'[q] = [job[q] EXCEPT !.linked = w]
    BY <1>3, <1>12, Zenon DEF Unlink
  <2>2. DOMAIN job[q] = JobFields
    BY <1>12, Zenon DEF MultipartInv, JobsInv, JobInv, JobOK
  <2>. QED
    BY <2>1, <2>2, SMTT(20) DEF JobFields
<1>13. Closing(job[t], u) /\ Closing(job'[t], u)
  <2>1. "remove" \in Ending
    BY SMTT(20) DEF Ending
  <2>. QED
    BY <1>0, <1>1, <1>11, <2>1, Zenon DEF Closing
<1>14. \A v : \A q \in Threads : Closing(job'[q], v) <=> Closing(job[q], v)
  BY <1>0, <1>11, <1>12, Zenon DEF Closing
<1>15. \A v \in Uploads : IsOpen(v)' <=> IsOpen(v)
  <2>1. ~IsOpen(u)
    BY <1>13, Zenon DEF IsOpen
  <2>2. ASSUME NEW v \in Uploads, v # u PROVE IsOpen(v)' <=> IsOpen(v)
    <3>1. Upload(v) \in tree' <=> Upload(v) \in tree
      BY <1>6, <1>8, <2>2, Zenon DEF Same, tree
    <3>2. \A q \in Threads : Closing(job'[q], v) <=> Closing(job[q], v)
      BY <1>14, Zenon
    <3>. QED
      BY <1>4, <3>1, <3>2, Zenon DEF IsOpen, Known
  <2>3. ASSUME NEW v \in Uploads, v = u PROVE ~IsOpen(v)' /\ ~IsOpen(v)
    BY <1>13, <2>1, <2>3, Zenon DEF IsOpen
  <2>. QED
    BY <2>2, <2>3, Zenon
<1>16. \A v \in Uploads, n \in PartNumbers : IsOpen(v) => Same(fs, fs', Part(v, n))
  <2>1. ~IsOpen(u)
    BY <1>13, Zenon DEF IsOpen
  <2>. QED
    BY <1>6, <1>7, <2>1, Zenon
<1>17. Same(fs, fs', Object)
  BY <1>6, <1>9, Zenon
<1>. QED
  BY <1>15, <1>16, <1>17, Stutter, Zenon

\* The removal is over: the upload was closed, and its directory is gone.
LEMMA SeenRemoved ==
  ASSUME MultipartInv, OrderInv, OrderInv', env.orderly, env' = env, NEW t \in Threads, Busy(t), Removed(t)
  PROVE  Unseen
<1>. DEFINE u == job[t].up
<1>1. job[t].pc = "remove" /\ job[t].todo = {} /\ fs' = fs /\ job' = [job EXCEPT ![t] = NoJob]
  BY Zenon DEF Removed, Done
<1>2. /\ job[t].op \in {"complete", "abort"} /\ u \in Uploads /\ job[t].todo = Under(u) \cap tree
  BY <1>1, ClearerFacts, Zenon
<1>3. Upload(u) \notin tree /\ tree' = tree
  BY <1>1, <1>2, PathsUnder, Zenon DEF tree
<1>4. \A v \in Uploads : v = u \/ life'[v] = life[v]
  <2>1. DOMAIN life = Uploads
    BY Zenon DEF MultipartInv, FilesInv
  <2>2. life' = [life EXCEPT ![u] = "aborted"] \/ life' = life
    BY Zenon DEF Removed
  <2>. QED
    BY <2>1, <2>2, Zenon
<1>5. job'[t] = NoJob /\ \A q \in Threads \ {t} : job'[q] = job[q]
  BY <1>1, OnlyOne, Zenon
<1>6. \A v : ~Closing(NoJob, v)
  BY SMTT(20) DEF Closing, NoJob
<1>7. ASSUME NEW v \in Uploads PROVE IsOpen(v)' <=> IsOpen(v)
  <2>1. CASE v = u
    BY <1>3, <2>1, Zenon DEF IsOpen
  <2>2. CASE v # u
    <3>1. ~Closing(job[t], v)
      BY <2>2, Zenon DEF Closing
    <3>2. life'[v] = life[v]
      BY <1>4, <2>2, Zenon
    <3>. QED
      BY <1>3, <1>5, <1>6, <3>1, <3>2, Zenon DEF IsOpen, Known
  <2>. QED
    BY <2>1, <2>2, Zenon
<1>8. \A p : Same(fs, fs', p)
  BY <1>1, Zenon DEF Same
<1>. QED
  BY <1>7, <1>8, Stutter, Zenon

\* create_multipart makes directories clients do not know yet.
LEMMA SeenMakeUpload ==
  ASSUME MultipartInv, OrderInv, OrderInv', env.orderly, env' = env, NEW t \in Threads, Busy(t), MakeUpload(t)
  PROVE  Unseen
<1>. DEFINE u == job[t].up
<1>1. job[t].pc = "mkupload" /\ fs' = Make(fs, Upto(Parts(u))) /\ life' = life /\ Goto(t, "info")
  BY Zenon DEF MakeUpload, history, uploadHistory
<1>2. job[t].pc \in {"mkupload", "info"}
  BY <1>1, SMTT(20)
<1>3. DOMAIN job[t] = JobFields /\ life[u] = "none"
  BY <1>2, CreatorFacts, Zenon
<1>4. Upto(Parts(u)) = {Root, <<"uploads">>, Upload(u), Parts(u)}
  BY UptoUpload, Zenon
<1>5. Object \notin {Root, <<"uploads">>, Upload(u), Parts(u)}
  BY SMTT(20) DEF Object, Root, Upload, Parts
<1>6. \A v, n : Part(v, n) \notin {Root, <<"uploads">>, Upload(u), Parts(u)}
  BY SMTT(20) DEF Part, Root, Upload, Parts
<1>7. \A v : v # u => Upload(v) \notin {Root, <<"uploads">>, Upload(u), Parts(u)}
  BY SMTT(20) DEF Root, Upload, Parts
<1>8. PICK ps : ps = {Root, <<"uploads">>, Upload(u), Parts(u)}
  BY Zenon
<1>9. \A p : p \in ps \/ Same(fs, fs', p)
  BY <1>1, <1>4, <1>8, MakeSame, Zenon
<1>10. PICK k : k = [job[t] EXCEPT !.pc = "info"]
  BY Zenon
<1>11. job' = [job EXCEPT ![t] = k]
  BY <1>1, <1>10, Zenon DEF Goto
<1>12. job'[t] = k /\ \A q \in Threads \ {t} : job'[q] = job[q]
  BY <1>11, OnlyOne, Zenon
<1>13. \A v : ~Closing(k, v) /\ ~Closing(job[t], v)
  <2>1. k.pc = "info"
    BY <1>3, <1>10, SMTT(20) DEF JobFields
  <2>2. "info" \notin Ending /\ "mkupload" \notin Ending
    BY SMTT(20) DEF Ending
  <2>. QED
    BY <1>1, <2>1, <2>2, Zenon DEF Closing
<1>14. ASSUME NEW v \in Uploads PROVE IsOpen(v)' <=> IsOpen(v)
  <2>1. CASE v = u
    BY <1>1, <1>3, <2>1, Zenon DEF IsOpen, Known
  <2>2. CASE v # u
    <3>1. Upload(v) \in tree' <=> Upload(v) \in tree
      BY <1>7, <1>8, <1>9, <2>2, Zenon DEF Same, tree
    <3>. QED
      BY <1>1, <1>12, <1>13, <3>1, Zenon DEF IsOpen, Known
  <2>. QED
    BY <2>1, <2>2, Zenon
<1>15. \A v, n : Same(fs, fs', Part(v, n))
  BY <1>6, <1>8, <1>9, Zenon
<1>16. Same(fs, fs', Object)
  BY <1>5, <1>8, <1>9, Zenon
<1>. QED
  BY <1>14, <1>15, <1>16, Stutter, Zenon

\* create_multipart answers: OpenUpload, unless the upload's directory is gone.
LEMMA SeenWriteInfo ==
  ASSUME MultipartInv, OrderInv, OrderInv', env.orderly, env' = env, NEW t \in Threads, Busy(t), WriteInfo(t)
  PROVE  AtomicStep
<1>. DEFINE u == job[t].up
<1>1. job[t].pc = "info" /\ Done(t)
  BY Zenon DEF WriteInfo
<1>2. job[t].pc \in {"mkupload", "info"} /\ job[t].pc \notin Ending
  BY <1>1, SMTT(20) DEF Ending
<1>3. job[t].op = "createUpload" /\ u \in Uploads /\ life[u] = "none"
  BY <1>2, CreatorFacts, Zenon
<1>4. CASE Upload(u) \notin tree
  <2>1. fs' = fs /\ life' = life
    BY <1>4, Zenon DEF WriteInfo
  <2>2. Untouched
    BY <2>1, BucketPaths, UntouchedCall, Zenon
  <2>. QED
    BY <1>1, <1>2, <2>1, <2>2, UnseenGoto, Zenon DEF AtomicStep
<1>5. CASE Upload(u) \in tree
  <2>1. fs' = Make(fs, {Info(u)}) /\ life' = [life EXCEPT ![u] = "known"] /\ job' = [job EXCEPT ![t] = NoJob]
    BY <1>1, <1>5, Zenon DEF WriteInfo, Done
  <2>2. PICK w, ps : w = Info(u) /\ ps = {w}
    BY Zenon
  <2>3. \A p : p = w \/ Same(fs, fs', p)
    <3>1. fs' = Make(fs, ps) /\ \A p : p \in ps => p = w
      BY <2>1, <2>2, Zenon
    <3>. QED
      BY <3>1, MakeSame, Zenon
  <2>4. w # Object /\ \A v, n : w # Upload(v) /\ w # Part(v, n)
    BY <2>2, SMTT(20) DEF Info, Object, Upload, Part
  <2>5. DOMAIN life = Uploads
    BY Zenon DEF MultipartInv, FilesInv
  <2>6. \A v \in Uploads : life'[v] = IF v = u THEN "known" ELSE life[v]
    BY <2>1, <2>5, Zenon
  <2>7. life'[u] # "none"
    BY <1>3, <2>6, SMTT(20)
  <2>8. job'[t] = NoJob /\ \A q \in Threads \ {t} : job'[q] = job[q]
    BY <2>1, OnlyOne, Zenon
  <2>9. \A v : ~Closing(NoJob, v)
    BY SMTT(20) DEF Closing, NoJob
  <2>10. \A q \in Threads : ~Closing(job[q], u)
    <3>1. ASSUME NEW q \in Threads, Closing(job[q], u) PROVE FALSE
      <4>1. job[q].pc \in Ending /\ job[q].up = u /\ job[q].op \in {"complete", "abort"}
        BY <3>1, Zenon DEF Closing
      <4>2. Busy(q) /\ q # t
        BY <1>3, <4>1, SMTT(20) DEF Busy, Ending
      <4>3. Apart(job[t], job[q])
        BY <4>2, ApartPairs, Zenon DEF OrderInv
      <4>4. u # Empty
        BY <1>3, EmptyAssumption, Zenon
      <4>. QED
        BY <1>3, <4>1, <4>3, <4>4, SMTT(20) DEF Apart
    <3>. QED
      BY <3>1, Zenon
  <2>11. \A v \in Uploads : IsOpen(v)' <=> IsOpen(v) \/ v = u
    <3>1. ASSUME NEW v \in Uploads, v # u PROVE IsOpen(v)' <=> IsOpen(v)
      <4>1. Upload(v) \in tree' <=> Upload(v) \in tree
        BY <2>3, <2>4, Zenon DEF Same, tree
      <4>2. ~Closing(job[t], v)
        BY <1>2, Zenon DEF Closing
      <4>3. life'[v] = life[v]
        BY <2>6, <3>1, Zenon
      <4>. QED
        BY <2>8, <2>9, <4>1, <4>2, <4>3, Zenon DEF IsOpen, Known
    <3>2. ASSUME NEW v \in Uploads, v = u PROVE IsOpen(v)'
      <4>1. Upload(v) \in tree'
        BY <1>5, <2>3, <2>4, <3>2, Zenon DEF Same, tree
      <4>. QED
        BY <2>7, <2>8, <2>9, <2>10, <3>2, <4>1, Zenon DEF IsOpen, Known
    <3>. QED
      BY <3>1, <3>2, Zenon
  <2>12. ~IsOpen(u)
    BY <1>3, Zenon DEF IsOpen, Known
  <2>13. /\ OpenUploads = {v \in Uploads : IsOpen(v)}
         /\ PartsOfOpen = PartsGiven(OpenUploads, fs) /\ ObjectThere = ObjectGiven(fs)
    BY OpenIs, Zenon
  <2>14. /\ OpenUploads' = {v \in Uploads : IsOpen(v)'}
         /\ PartsOfOpen' = PartsGiven(OpenUploads', fs') /\ ObjectThere' = ObjectGiven(fs')
    BY OpenNext, Zenon
  <2>15. OpenUploads' = OpenUploads \cup {u} /\ u \notin OpenUploads
    BY <1>3, <2>11, <2>12, <2>13, <2>14, Zenon
  <2>16. ObjectThere' = ObjectThere
    BY <2>3, <2>4, <2>13, <2>14, SameObject, Zenon
  <2>17. PartsOfOpen' = PartsOfOpen
    <3>1. PICK o, p, g : o = OpenUploads /\ p = OpenUploads' /\ g = fs'
      BY Zenon
    <3>2. \A n \in PartNumbers : Part(u, n) \notin DOMAIN fs
      BY <1>3, Zenon DEF OrderInv, PartInv, tree
    <3>3. \A v \in Uploads, n \in PartNumbers : SamePart(o, fs, p, g, v, n)
      BY <2>3, <2>4, <2>15, <3>1, <3>2, Zenon DEF SamePart, Same
    <3>4. PartsGiven(p, g) = PartsGiven(o, fs)
      BY <3>3, SameParts, SMTT(20)
    <3>. QED
      BY <2>13, <2>14, <3>1, <3>4, Zenon
  <2>18. Atomic!OpenUpload(u)
    BY <2>15, <2>16, <2>17, Zenon DEF Atomic!OpenUpload
  <2>. QED
    BY <1>3, <2>18, Zenon DEF Atomic!Next, AtomicStep
<1>. QED
  BY <1>4, <1>5, Zenon

----------------------------------------------------------------------------
(* The steps of AtomicUploads.                                             *)

\* Requests for the bucket, the tags, the object: nothing is seen of their arrival.
LEMMA SeenPlain ==
  ASSUME MultipartInv, OrderInv, OrderInv', env.orderly, env' = env, life' = life, Untouched,
         NEW t \in Threads, NEW op, NEW ok, NEW next \in {"mkbucket", "unlink", "mktags", "unlinktags"}, Begin(t, Plain(op), ok, next)
  PROVE  Unseen
<1>1. DOMAIN Plain(op) = JobFields
  BY PlainIs, Zenon
<1>2. next \notin Ending
  BY SMTT(20) DEF Ending
<1>. DEFINE r == Plain(op)
<1>3. Begin(t, r, ok, next) /\ DOMAIN r = JobFields
  BY <1>1, Zenon
<1>. HIDE DEF r
<1>. QED
  BY <1>2, <1>3, UnseenArrival, Zenon

\* As SeenPlain, of each of them.
LEMMA SeenObjectArrival ==
  ASSUME MultipartInv, OrderInv, OrderInv', env.orderly, env' = env, NEW t \in Threads,
         CreateBucket(t) \/ PutTagging(t) \/ DeleteTagging(t) \/ DeleteObject(t)
  PROVE  Unseen
<1>1. life' = life
  BY Zenon DEF CreateBucket, PutTagging, DeleteTagging, DeleteObject, uploadHistory
<1>2. fs' = fs \/ fs' = Make(fs, Upto(Version))
  BY Zenon DEF CreateBucket, PutTagging, DeleteTagging, DeleteObject
<1>3. Untouched
  <2>1. Upto(Version) \subseteq Bucketwide \ {Object}
    BY BucketPaths, Zenon
  <2>. QED
    BY <1>2, <2>1, UntouchedCall, Zenon
<1>4. \A op, ok, next : Begin(t, Plain(op), ok, next) /\ next \in {"mkbucket", "unlink", "mktags", "unlinktags"} => Unseen
  BY <1>1, <1>3, SeenPlain, Zenon
<1>5. CASE CreateBucket(t)
  BY <1>4, <1>5, Zenon DEF CreateBucket
<1>6. CASE PutTagging(t)
  BY <1>4, <1>6, Zenon DEF PutTagging
<1>7. CASE DeleteTagging(t)
  BY <1>4, <1>7, Zenon DEF DeleteTagging
<1>8. CASE DeleteObject(t)
  BY <1>4, <1>8, Zenon DEF DeleteObject
<1>. QED
  BY <1>5, <1>6, <1>7, <1>8, Zenon

\* PutObject, and the requests for an upload but its abort: they start before anything is seen of them.
LEMMA SeenArrival ==
  ASSUME MultipartInv, OrderInv, OrderInv', env.orderly, env' = env, NEW t \in Threads,
         Put(t) \/ CreateUpload(t) \/ UploadPart(t) \/ Complete(t)
  PROVE  Unseen
<1>1. life' = life /\ fs' = fs
  BY Zenon DEF Put, CreateUpload, UploadPart, Complete, uploadHistory
<1>2. Untouched
  BY <1>1, BucketPaths, UntouchedCall, Zenon
<1>3. \A r, ok, next : Begin(t, r, ok, next) /\ DOMAIN r = JobFields /\ next \notin Ending => Unseen
  BY <1>1, <1>2, UnseenArrival, Zenon
<1>4. "mkparent" \notin Ending /\ "mkupload" \notin Ending /\ "openpart" \notin Ending /\ "writer" \notin Ending
  BY SMTT(20) DEF Ending
<1>5. \A op : DOMAIN Plain(op) = JobFields
  BY PlainIs, Zenon
<1>6. \A op, u : DOMAIN OnUpload(op, u) = JobFields
  BY OnUploadIs, Zenon
<1>7. CASE Put(t)
  <2>1. PICK b : Begin(t, [Plain("put") EXCEPT !.sum = <<b>>], Marker \in tree, "mkparent")
    BY <1>7, Zenon DEF Put
  <2>2. DOMAIN [Plain("put") EXCEPT !.sum = <<b>>] = JobFields
    BY <1>5, Zenon
  <2>. QED
    BY <1>3, <1>4, <2>1, <2>2, Zenon
<1>8. CASE CreateUpload(t)
  <2>1. PICK u : Begin(t, OnUpload("createUpload", u), Marker \in tree, "mkupload")
    BY <1>8, Zenon DEF CreateUpload
  <2>. QED
    BY <1>3, <1>4, <1>6, <2>1, Zenon
<1>9. CASE UploadPart(t)
  <2>1. PICK u, n, b : Begin(t, [OnUpload("part", u) EXCEPT !.num = n, !.body = b], Upload(u) \in tree, "openpart")
    BY <1>9, Zenon DEF UploadPart
  <2>2. DOMAIN [OnUpload("part", u) EXCEPT !.num = n, !.body = b] = JobFields
    BY <1>6, Zenon
  <2>. QED
    BY <1>3, <1>4, <2>1, <2>2, Zenon
<1>10. CASE Complete(t)
  <2>1. PICK u, l : Begin(t, [OnUpload("complete", u) EXCEPT !.list = l], Upload(u) \in tree, "writer")
    BY <1>10, Zenon DEF Complete
  <2>2. DOMAIN [OnUpload("complete", u) EXCEPT !.list = l] = JobFields
    BY <1>6, Zenon
  <2>. QED
    BY <1>3, <1>4, <2>1, <2>2, Zenon
<1>. QED
  BY <1>7, <1>8, <1>9, <1>10, Zenon

\* No upload's directory or part is made, changed or removed.
PartsUntouched ==
    /\ \A u \in Uploads : Upload(u) \in tree' <=> Upload(u) \in tree
    /\ \A u \in Uploads, n \in PartNumbers : Same(fs, fs', Part(u, n))

\* A step at the bucket's own paths leaves the uploads alone.
LEMMA PartsUntouchedBy ==
  ASSUME NEW ps, ps \subseteq Bucketwide, \A p : p \in ps \/ Same(fs, fs', p)
  PROVE  PartsUntouched
<1>1. ASSUME NEW u, NEW p \in Under(u) PROVE Same(fs, fs', p)
  <2>1. p \notin ps
    BY <1>1, UnderNotBucketwide, Zenon
  <2>. QED
    BY <2>1, Zenon
<1>2. \A u \in Uploads : Same(fs, fs', Upload(u))
  BY <1>1, PathsUnder, Zenon
<1>3. \A u \in Uploads, n \in PartNumbers : Same(fs, fs', Part(u, n))
  BY <1>1, PathsUnder, Zenon
<1>. QED
  BY <1>2, <1>3, Zenon DEF PartsUntouched, Same, tree

\* A handler commits or aborts an upload that was open: it is closed, and its parts with it.
LEMMA Closes ==
  ASSUME MultipartInv, OrderInv, OrderInv', env.orderly, env' = env, life' = life, PartsUntouched,
         NEW t \in Threads, NEW u \in Uploads, IsOpen(u), Closing(job'[t], u), \A v \in Uploads : ~Closing(job[t], v),
         \A v \in Uploads : \A q \in Threads \ {t} : Closing(job'[q], v) <=> Closing(job[q], v)
  PROVE  Atomic!Drop(u)
<1>1. ~IsOpen(u)'
  BY Zenon DEF IsOpen
<1>2. ASSUME NEW v \in Uploads, v # u PROVE IsOpen(v)' <=> IsOpen(v)
  <2>1. ~Closing(job'[t], v) /\ ~Closing(job[t], v)
    BY <1>2, Zenon DEF Closing
  <2>2. \A q \in Threads : Closing(job'[q], v) <=> Closing(job[q], v)
    BY <2>1, Zenon
  <2>3. Upload(v) \in tree' <=> Upload(v) \in tree
    BY Zenon DEF PartsUntouched
  <2>. QED
    BY <2>2, <2>3, Zenon DEF IsOpen, Known
<1>3. OpenUploads = {v \in Uploads : IsOpen(v)} /\ PartsOfOpen = PartsGiven(OpenUploads, fs)
  BY OpenIs, Zenon
<1>4. OpenUploads' = {v \in Uploads : IsOpen(v)'} /\ PartsOfOpen' = PartsGiven(OpenUploads', fs')
  BY OpenNext, Zenon
<1>5. u \in OpenUploads /\ OpenUploads' = OpenUploads \ {u}
  BY <1>1, <1>2, <1>3, <1>4, Zenon
<1>6. PICK o, p, g : o = OpenUploads /\ p = OpenUploads' /\ g = fs'
  BY Zenon
<1>7. \A v \in Uploads : v \in p <=> v \in o /\ v # u
  BY <1>5, <1>6, Zenon
<1>8. \A v \in Uploads, n \in PartNumbers : Same(fs, g, Part(v, n))
  BY <1>6, Zenon DEF PartsUntouched
<1>9. PartsGiven(p, g) = [PartsGiven(o, fs) EXCEPT ![u] = Atomic!NoParts]
  <2>1. ASSUME NEW v \in Uploads
        PROVE  [n \in PartNumbers |-> IF v \in p /\ Part(v, n) \in DOMAIN g THEN g[Part(v, n)] ELSE None]
               = IF v = u THEN [n \in PartNumbers |-> None]
                 ELSE [n \in PartNumbers |-> IF v \in o /\ Part(v, n) \in DOMAIN fs THEN fs[Part(v, n)] ELSE None]
    <3>1. CASE v = u
      BY <1>7, <3>1, Zenon
    <3>2. CASE v # u
      <4>1. ASSUME NEW n \in PartNumbers
            PROVE  (IF v \in p /\ Part(v, n) \in DOMAIN g THEN g[Part(v, n)] ELSE None)
                   = IF v \in o /\ Part(v, n) \in DOMAIN fs THEN fs[Part(v, n)] ELSE None
        BY <1>7, <1>8, <3>2, Zenon DEF Same
      <4>. QED
        BY <3>2, <4>1, Zenon
    <3>. QED
      BY <3>1, <3>2, Zenon
  <2>. QED
    BY <2>1, Zenon DEF PartsGiven, Atomic!NoParts
<1>. QED
  BY <1>3, <1>4, <1>5, <1>6, <1>9, Zenon DEF Atomic!Drop

\* AbortMultipartUpload arrives: AbortUpload, unless the upload's directory is gone.
LEMMA SeenAbort ==
  ASSUME MultipartInv, OrderInv, OrderInv', env.orderly, env' = env, NEW t \in Threads, Abort(t)
  PROVE  AtomicStep
<1>1. PICK u \in Uploads :
        Known(u) /\ Begin(t, [OnUpload("abort", u) EXCEPT !.todo = Below(Upload(u))], Upload(u) \in tree, "remove")
  BY Zenon DEF Abort
<1>2. life' = life /\ fs' = fs
  BY Zenon DEF Abort, uploadHistory
<1>3. PartsUntouched /\ Untouched
  BY <1>2, Zenon DEF PartsUntouched, Untouched, Same, tree
<1>4. CASE Upload(u) \notin tree
  <2>1. job' = job
    BY <1>1, <1>4, Zenon DEF Begin
  <2>. QED
    BY <1>2, <1>3, <2>1, UnseenIf, Zenon DEF AtomicStep
<1>5. CASE Upload(u) \in tree
  <2>1. PICK r : r = [OnUpload("abort", u) EXCEPT !.todo = Below(Upload(u))]
    BY Zenon
  <2>. DEFINE next == "remove"
  <2>2. Arrives(t, r, next)
    BY <1>1, <1>5, <2>1, Zenon DEF Begin, Arrives
  <2>3. DOMAIN r = JobFields /\ r.op = "abort" /\ r.up = u
    <3>. DEFINE o == OnUpload("abort", u)
    <3>1. DOMAIN o = JobFields /\ o.op = "abort" /\ o.up = u
      BY OnUploadIs, Zenon
    <3>2. PICK b : b = Below(Upload(u))
      BY Zenon
    <3>. HIDE DEF o
    <3>3. r = [o EXCEPT !.todo = b]
      BY <2>1, <3>2, Zenon DEF o
    <3>. QED
      BY <3>1, <3>3, SMTT(20) DEF JobFields
  <2>4. PICK m : job'[t] = [r EXCEPT !.pc = "remove", !.met = m]
    BY <2>2, Zenon DEF Arrives
  <2>5. job'[t].pc = "remove" /\ job'[t].op = "abort" /\ job'[t].up = u
    BY <2>3, <2>4, SMTT(20) DEF JobFields
  <2>6. ~Busy(t) /\ \A v : ~Closing(job[t], v)
    <3>1. job[t].pc = "idle"
      BY <2>2, Zenon DEF Arrives, Busy
    <3>2. "idle" \notin Ending
      BY SMTT(20) DEF Ending
    <3>. QED
      BY <3>1, <3>2, Zenon DEF Busy, Closing
  <2>7. ASSUME NEW q \in Threads \ {t} PROVE job'[q].op = job[q].op /\ job'[q].up = job[q].up /\ job'[q].pc = job[q].pc
    <3>1. job'[q] = IF Busy(q) THEN [job[q] EXCEPT !.met = @ \/ r.op \in Deletions] ELSE job[q]
      BY <2>2, <2>7, Zenon DEF Arrives
    <3>2. CASE Busy(q)
      <4>1. DOMAIN job[q] = JobFields
        BY <3>2, JobFacts, Zenon
      <4>2. PICK x : job'[q] = [job[q] EXCEPT !.met = x]
        BY <3>1, <3>2, Zenon
      <4>. QED
        BY <4>1, <4>2, SMTT(20) DEF JobFields
    <3>3. CASE ~Busy(q)
      BY <3>1, <3>3, Zenon
    <3>. QED
      BY <3>2, <3>3, Zenon
  <2>8. ASSUME NEW q \in Threads, Closing(job[q], u) PROVE FALSE
    <3>1. q \in Threads \ {t} /\ job[q].pc \in Ending /\ job[q].up = u
      BY <2>6, <2>8, Zenon DEF Closing
    <3>2. job'[q].pc # "idle" /\ job'[t].pc # "idle" /\ job'[q].up = u
      BY <2>5, <2>7, <3>1, SMTT(20) DEF Ending
    <3>3. Disciplined'
      BY <1>2, Zenon DEF OrderInv
    <3>4. u # Empty
      BY EmptyAssumption, Zenon
    <3>5. job'[t].op = "part"
      BY <2>5, <3>1, <3>2, <3>3, <3>4, Zenon DEF Disciplined, Busy
    <3>. QED
      BY <2>5, <3>5, SMTT(20)
  <2>9. IsOpen(u)
    BY <1>1, <1>5, <2>8, Zenon DEF IsOpen
  <2>10. Closing(job'[t], u)
    <3>1. "remove" \in Ending /\ "abort" \in {"complete", "abort"}
      BY SMTT(20) DEF Ending
    <3>. QED
      BY <2>5, <3>1, Zenon DEF Closing
  <2>11. \A v \in Uploads : \A q \in Threads \ {t} : Closing(job'[q], v) <=> Closing(job[q], v)
    BY <2>7, Zenon DEF Closing
  <2>12. Atomic!Drop(u)
    BY <1>2, <1>3, <2>6, <2>9, <2>10, <2>11, Closes, Zenon
  <2>13. ObjectThere' = ObjectThere
    BY <1>2, Zenon DEF ObjectThere, tree
  <2>14. Atomic!AbortUpload(u)
    BY <2>12, <2>13, Zenon DEF Atomic!AbortUpload
  <2>. QED
    BY <2>14, Zenon DEF Atomic!Next, AtomicStep
<1>. QED
  BY <1>4, <1>5, Zenon

\* delete_object unlinks the object: DropObject.
LEMMA SeenUnlink ==
  ASSUME MultipartInv, OrderInv, OrderInv', env.orderly, env' = env, NEW t \in Threads, Busy(t), UnlinkObject(t)
  PROVE  AtomicStep
<1>1. job[t].pc = "unlink" /\ fs' = Erase(fs, {Object}) /\ Goto(t, "prune") /\ life' = life
  BY Zenon DEF UnlinkObject, history, uploadHistory
<1>2. PICK ps : ps = {Object}
  BY Zenon
<1>3. PartsUntouched
  <2>1. ps \subseteq Bucketwide
    BY <1>2, Zenon DEF Bucketwide
  <2>2. \A p : p \in ps \/ Same(fs, fs', p)
    BY <1>1, <1>2, EraseSame, Zenon
  <2>. QED
    BY <2>1, <2>2, PartsUntouchedBy, Zenon
<1>4. PICK k : k = [job[t] EXCEPT !.pc = "prune"]
  BY Zenon
<1>5. job' = [job EXCEPT ![t] = k]
  BY <1>1, <1>4, Zenon DEF Goto
<1>6. job'[t] = k /\ \A q \in Threads \ {t} : job'[q] = job[q]
  BY <1>5, OnlyOne, Zenon
<1>7. \A v : ~Closing(job[t], v) /\ ~Closing(k, v)
  <2>1. DOMAIN job[t] = JobFields
    BY JobFacts, Zenon
  <2>2. k.pc = "prune"
    BY <1>4, <2>1, SMTT(20) DEF JobFields
  <2>3. "unlink" \notin Ending /\ "prune" \notin Ending
    BY SMTT(20) DEF Ending
  <2>. QED
    BY <1>1, <2>2, <2>3, Zenon DEF Closing
<1>8. \A v \in Uploads : IsOpen(v)' <=> IsOpen(v)
  BY <1>1, <1>3, <1>6, <1>7, Zenon DEF IsOpen, Known, PartsUntouched
<1>9. OpenUploads' = OpenUploads /\ PartsOfOpen' = PartsOfOpen
  <2>1. \A v \in Uploads, n \in PartNumbers : IsOpen(v) => Same(fs, fs', Part(v, n))
    BY <1>3, Zenon DEF PartsUntouched
  <2>. QED
    BY <1>8, <2>1, SameOpen, Zenon
<1>10. ObjectThere' = None
  <2>1. Object \notin tree'
    <3>1. fs' = Erase(fs, ps) /\ Object \in ps
      BY <1>1, <1>2, Zenon
    <3>2. DOMAIN fs' = DOMAIN fs \ ps
      BY <3>1, EraseIs, Zenon
    <3>. QED
      BY <3>1, <3>2, Zenon DEF tree
  <2>. QED
    BY <2>1, Zenon DEF ObjectThere
<1>11. Atomic!DropObject
  BY <1>9, <1>10, Zenon DEF Atomic!DropObject
<1>. QED
  BY <1>11, Zenon DEF Atomic!Next, AtomicStep

\* finish up to the rename: what it changes.
LEMMA RenameIs ==
  ASSUME NEW t \in Threads, Rename(t), Tmp \in tree, Nest \notin tree
  PROVE  /\ Object \in DOMAIN fs' /\ fs'[Object] = job[t].sum
         /\ PartsUntouched
<1>1. PICK made : made = Make(fs, Upto(MetaDir))
  BY Zenon
<1>2. PICK g : g = Write(made, Object, job[t].sum)
  BY Zenon
<1>3. fs' = Erase(g, {Tmp})
  BY <1>1, <1>2, Zenon DEF Rename
<1>4. DOMAIN made = DOMAIN fs \cup {Root, MetaDir} /\ \A p \in DOMAIN fs : made[p] = fs[p]
  <2>1. Upto(MetaDir) = {Root, MetaDir}
    BY UptoAll, Zenon
  <2>2. DOMAIN made = DOMAIN fs \cup Upto(MetaDir)
    BY <1>1, MakeIs, Zenon
  <2>3. \A p \in DOMAIN fs : made[p] = fs[p]
    BY <1>1, Zenon DEF Make
  <2>. QED
    BY <2>1, <2>2, <2>3, Zenon
<1>5. DOMAIN g = DOMAIN made \cup {Object} /\ g[Object] = job[t].sum /\ \A p \in DOMAIN made \ {Object} : g[p] = made[p]
  BY <1>2, Zenon DEF Write
<1>6. DOMAIN fs' = DOMAIN g \ {Tmp} /\ \A p \in DOMAIN g \ {Tmp} : fs'[p] = g[p]
  BY <1>3, EraseIs, Zenon
<1>7. PICK ps : ps = {Root, MetaDir, Object, Tmp}
  BY Zenon
<1>8. ps \subseteq Bucketwide /\ Tmp # Object
  BY <1>7, NamesOfBucket, SMTT(20) DEF Bucketwide
<1>9. \A p : p \in ps \/ Same(fs, fs', p)
  BY <1>4, <1>5, <1>6, <1>7, Zenon DEF Same
<1>10. Object \in DOMAIN fs' /\ fs'[Object] = job[t].sum
  BY <1>5, <1>6, <1>8, Zenon
<1>. QED
  BY <1>8, <1>9, <1>10, PartsUntouchedBy, Zenon

\* The bodies a completion has copied are those of the parts it lists, joined.
LEMMA CommitIs ==
  ASSUME MultipartInv, OrderInv, env.orderly, NEW t \in Threads, Busy(t), job[t].pc = "rename", job[t].op = "complete",
         job[t].up \in OpenUploads
  PROVE  /\ job[t].list \in Lists
         /\ \A i \in 1..Len(job[t].list) : PartsOfOpen[job[t].up][job[t].list[i]] # None
         /\ job[t].sum = Atomic!Joined([i \in 1..Len(job[t].list) |-> PartsOfOpen[job[t].up][job[t].list[i]]])
<1>. DEFINE u == job[t].up
            l == job[t].list
            n == Len(job[t].list)
<1>1. Gathering(job[t], fs) /\ l \in Seq(PartNumbers) /\ u \in Uploads
  <2>1. u \in Uploads
    BY Zenon DEF OpenUploads, ListedUploads
  <2>. QED
    BY <2>1, WriterFacts, Zenon
<1>2. l \in Lists /\ job[t].at \in Nat \ {0} /\ n < job[t].at /\ job[t].at <= n + 1 /\ \E g : Joins(g, job[t], fs)
  <2>1. HasTmp(job[t])
    BY SMTT(20) DEF HasTmp
  <2>. QED
    BY <1>1, <2>1, Zenon DEF Gathering
<1>3. n \in Nat /\ \A i \in 1..n : l[i] \in PartNumbers
  BY <1>1, SMTT(20)
<1>4. Got(job[t]) = n
  BY <1>2, <1>3, SMTT(20) DEF Got
<1>5. PICK g : Joins(g, job[t], fs)
  BY <1>2, Zenon
<1>6. /\ g[0] = <<>> /\ job[t].sum = g[n]
      /\ \A i \in 1..n : Part(u, l[i]) \in tree /\ g[i] = g[i - 1] \o BlockOf(fs, Part(u, l[i]))
  BY <1>4, <1>5, Zenon DEF Joins, tree
<1>7. \A i \in 1..n : PartsOfOpen[u][l[i]] = fs[Part(u, l[i])]
  BY <1>1, <1>3, <1>6, Zenon DEF PartsOfOpen
<1>8. \A i \in 1..n : fs[Part(u, l[i])] # None
  <2>1. \A i \in 1..n : fs[Part(u, l[i])] \in Bodies \cup {Empty}
    BY <1>1, <1>3, <1>6, Zenon DEF OrderInv, PartInv
  <2>. QED
    BY <2>1, NoneAssumption, Zenon
<1>. DEFINE s == [i \in 1..n |-> PartsOfOpen[u][l[i]]]
<1>9. \A i \in 1..n : s[i] = fs[Part(u, l[i])]
  BY <1>7, Zenon
<1>10. DOMAIN s = 1..n
  BY Zenon
<1>. HIDE DEF s
<1>11. Len(s) = n
  BY <1>3, <1>10, SMTT(20)
<1>12. ASSUME NEW i \in 1..Len(s) PROVE g[i] = g[i - 1] \o (IF s[i] = Empty THEN <<>> ELSE <<s[i]>>)
  <2>1. i \in 1..n
    BY <1>11, Zenon
  <2>2. BlockOf(fs, Part(u, l[i])) = (IF s[i] = Empty THEN <<>> ELSE <<s[i]>>)
    BY <1>6, <1>9, <2>1, Zenon DEF BlockOf, tree
  <2>. QED
    BY <1>6, <2>1, <2>2, Zenon
<1>13. Atomic!Joined(s) = g[Len(s)]
  <2>1. Collects(g, s) /\ Len(s) \in Nat
    BY <1>3, <1>6, <1>11, <1>12, Zenon DEF Collects
  <2>. QED
    BY <2>1, JoinedIs, Zenon
<1>14. Atomic!Joined(s) = job[t].sum
  BY <1>6, <1>11, <1>13, Zenon
<1>. QED
  BY <1>2, <1>7, <1>8, <1>14, Zenon DEF s

\* finish up to the rename: SetObject or Commit, unless there is nothing to rename.
LEMMA SeenRename ==
  ASSUME MultipartInv, OrderInv, OrderInv', env.orderly, env' = env, NEW t \in Threads, Busy(t), Rename(t)
  PROVE  AtomicStep
<1>1. job[t].pc = "rename" /\ life' = life /\ DOMAIN job[t] = JobFields
  BY JobFacts, Zenon DEF Rename, history, uploadHistory
<1>2. Staged(job[t].op, job[t].pc) /\ job[t].pc \notin Ending
  <2>1. "rename" \notin Ending
    BY SMTT(20) DEF Ending
  <2>. QED
    BY <1>1, <2>1, JobFacts, Zenon
<1>3. job[t].op \in {"put", "complete"}
  BY <1>1, <1>2, SMTT(20) DEF Staged
<1>4. CASE ~(Tmp \in tree /\ Nest \notin tree)
  <2>1. fs' = Make(fs, Upto(MetaDir)) /\ Done(t)
    BY <1>4, Zenon DEF Rename, Check
  <2>2. Untouched
    BY <2>1, BucketPaths, UntouchedCall, Zenon
  <2>. QED
    BY <1>1, <1>2, <2>1, <2>2, UnseenGoto, Zenon DEF AtomicStep
<1>5. CASE Tmp \in tree /\ Nest \notin tree
  <2>1. Object \in DOMAIN fs' /\ fs'[Object] = job[t].sum /\ PartsUntouched
    BY <1>5, RenameIs, Zenon
  <2>2. ObjectThere' = job[t].sum
    <3>1. ObjectThere' = ObjectGiven(fs')
      BY OpenNext, Zenon
    <3>. QED
      BY <2>1, <3>1, Zenon DEF ObjectGiven
  <2>3. PICK k : k = [job[t] EXCEPT !.pc = "finish"]
    BY Zenon
  <2>4. job' = [job EXCEPT ![t] = k]
    BY <1>5, <2>3, Zenon DEF Rename, Check, Goto
  <2>5. job'[t] = k /\ \A q \in Threads \ {t} : job'[q] = job[q]
    BY <2>4, OnlyOne, Zenon
  <2>6. k.op = job[t].op /\ k.pc = "finish" /\ k.up = job[t].up
    BY <1>1, <2>3, SMTT(20) DEF JobFields
  <2>7. \A v : ~Closing(job[t], v)
    BY <1>2, Zenon DEF Closing
  <2>8. CASE job[t].op = "put"
    <3>1. \A v : ~Closing(k, v)
      <4>1. k.op \notin {"complete", "abort"}
        BY <2>6, <2>8, SMTT(20)
      <4>. QED
        BY <4>1, Zenon DEF Closing
    <3>2. \A v \in Uploads : IsOpen(v)' <=> IsOpen(v)
      BY <1>1, <2>1, <2>5, <2>7, <3>1, Zenon DEF IsOpen, Known, PartsUntouched
    <3>3. OpenUploads' = OpenUploads /\ PartsOfOpen' = PartsOfOpen
      <4>1. \A v \in Uploads, n \in PartNumbers : IsOpen(v) => Same(fs, fs', Part(v, n))
        BY <2>1, Zenon DEF PartsUntouched
      <4>. QED
        BY <3>2, <4>1, SameOpen, Zenon
    <3>4. PICK b \in Bodies : job[t].sum = <<b>>
      BY <2>8, WriterFacts, Zenon DEF Replacing
    <3>5. Atomic!SetObject(b)
      BY <2>2, <3>3, <3>4, Zenon DEF Atomic!SetObject
    <3>. QED
      BY <3>5, Zenon DEF Atomic!Next, AtomicStep
  <2>9. CASE job[t].op = "complete"
    <3>. DEFINE u == job[t].up
    <3>1. "complete" \in UploadOps /\ "complete" # "createUpload" /\ "complete" # "part"
      BY SMTT(20) DEF UploadOps
    <3>2. Upload(u) \in tree /\ Known(u)
      <4>1. JobInv(job[t], tree, life, stray)
        BY Zenon DEF MultipartInv, JobsInv
      <4>2. life[u] # "none"
        BY <2>9, <4>1, Zenon DEF JobInv, Living
      <4>3. job[t].pc # "remove"
        BY <1>1, SMTT(20)
      <4>4. Gathering(job[t], fs)
        BY WriterFacts, Zenon
      <4>5. Upload(u) \in tree
        BY <2>9, <4>3, <4>4, Zenon DEF Gathering, tree
      <4>. QED
        BY <4>2, <4>5, Zenon DEF Known
    <3>3. IsOpen(u) /\ u \in Uploads
      BY <1>2, <2>9, <3>1, <3>2, MineOpen, Zenon
    <3>4. u \in OpenUploads
      BY <3>3, OpenIs, Zenon
    <3>5. Closing(job'[t], u)
      <4>1. "finish" \in Ending /\ "complete" \in {"complete", "abort"}
        BY SMTT(20) DEF Ending
      <4>. QED
        BY <2>5, <2>6, <2>9, <4>1, Zenon DEF Closing
    <3>6. \A v \in Uploads : \A q \in Threads \ {t} : Closing(job'[q], v) <=> Closing(job[q], v)
      BY <2>5, Zenon
    <3>7. Atomic!Drop(u)
      BY <1>1, <2>1, <2>7, <3>3, <3>5, <3>6, Closes, Zenon
    <3>8. /\ job[t].list \in Lists
          /\ \A i \in 1..Len(job[t].list) : PartsOfOpen[u][job[t].list[i]] # None
          /\ job[t].sum = Atomic!Joined([i \in 1..Len(job[t].list) |-> PartsOfOpen[u][job[t].list[i]]])
      BY <1>1, <2>9, <3>4, CommitIs, Zenon
    <3>9. \E l \in Lists : Atomic!Commit(u, l)
      BY <2>2, <3>7, <3>8, Zenon DEF Atomic!Commit
    <3>. QED
      BY <3>3, <3>9, Zenon DEF Atomic!Next, AtomicStep
  <2>. QED
    BY <1>3, <2>8, <2>9, Zenon
<1>. QED
  BY <1>4, <1>5, Zenon

\* Nothing is open to clients who race each other, which AtomicUploads says nothing of.
LEMMA NothingOpen ==
  ~env.orderly => OpenUploads = {} /\ PartsOfOpen = PartsGiven({}, {}) /\ ObjectThere = None
<1>1. SUFFICES ASSUME ~env.orderly PROVE OpenUploads = {} /\ PartsOfOpen = PartsGiven({}, {}) /\ ObjectThere = None
  BY Zenon
<1>2. OpenUploads = {}
  BY <1>1, Zenon DEF OpenUploads
<1>3. PartsOfOpen = PartsGiven({}, {})
  BY <1>2, Zenon DEF PartsOfOpen, PartsGiven
<1>. QED
  BY <1>1, <1>2, <1>3, Zenon DEF ObjectThere

\* And after a step.
LEMMA NothingOpened ==
  (~env.orderly => OpenUploads = {} /\ PartsOfOpen = PartsGiven({}, {}) /\ ObjectThere = None)'
  BY NothingOpen, PTL

\* At first some uploads are open, without parts, and there is no object.
LEMMA AtomicInit ==
  ASSUME Init
  PROVE  Atomic!Init
<1>1. env \in Worlds /\ fs = [p \in Found(env.start) |-> Empty]
  BY Zenon DEF Init
<1>2. Object \notin tree /\ \A u, n : Part(u, n) \notin tree
  BY <1>1, FoundParts, Zenon DEF tree
<1>3. OpenUploads \in SUBSET Uploads
  BY Zenon DEF OpenUploads, ListedUploads
<1>4. PartsOfOpen = [u \in Uploads |-> Atomic!NoParts]
  BY <1>2, Zenon DEF PartsOfOpen, Atomic!NoParts
<1>5. ObjectThere = None
  BY <1>2, Zenon DEF ObjectThere
<1>. QED
  BY <1>3, <1>4, <1>5, Zenon DEF Atomic!Init

\* Every step of the handlers is one of AtomicUploads, or shows in nothing: one case for each action.
LEMMA AtomicNext ==
  ASSUME MultipartInv, OrderInv, OrderInv', [Next]_vars
  PROVE  AtomicStep
<1>0. env' = env
  BY SameWorld, Zenon
<1>1. CASE ~env.orderly
  <2>1. ~env'.orderly
    BY <1>0, <1>1, Zenon
  <2>2. OpenUploads = {} /\ PartsOfOpen = PartsGiven({}, {}) /\ ObjectThere = None
    BY <1>1, NothingOpen, Zenon
  <2>3. OpenUploads' = {} /\ PartsOfOpen' = PartsGiven({}, {}) /\ ObjectThere' = None
    BY <2>1, NothingOpened, Zenon
  <2>. QED
    BY <2>2, <2>3, Zenon DEF AtomicStep, Unseen
<1>2. CASE UNCHANGED vars /\ env.orderly
  <2>1. UNCHANGED <<fs, env, job, life>>
    BY <1>2, Zenon DEF vars, history, uploadHistory
  <2>2. Untouched
    BY <2>1, Zenon DEF Untouched, Same, tree
  <2>. QED
    BY <1>2, <2>1, <2>2, UnseenIf, Zenon DEF AtomicStep
<1>3. ASSUME env.orderly, NEW t \in Threads, Arrive(t) PROVE AtomicStep
  <2>1. CASE CreateBucket(t) \/ DeleteObject(t) \/ PutTagging(t) \/ DeleteTagging(t) \/ DeleteBucket(t)
    BY <1>0, <1>3, <2>1, SeenObjectArrival, OrderDeleteBucket, Zenon DEF AtomicStep
  <2>2. CASE Put(t) \/ CreateUpload(t) \/ UploadPart(t) \/ Complete(t)
    BY <1>0, <1>3, <2>2, SeenArrival, Zenon DEF AtomicStep
  <2>3. CASE Abort(t)
    BY <1>0, <1>3, <2>3, SeenAbort, Zenon
  <2>. QED
    BY <1>3, <2>1, <2>2, <2>3, Zenon DEF Arrive
<1>4. ASSUME env.orderly, NEW t \in Threads, Handle(t) PROVE AtomicStep
  <2>0. Busy(t)
    BY <1>4, Handling, Zenon
  <2>1. CASE MakeBucket(t) \/ MarkBucket(t) \/ MakeTagDir(t) \/ WriteTags(t) \/ UnlinkTags(t) \/ MakeParent(t) \/ OpenTmp(t) \/ OpenWriter(t)
    BY <1>0, <1>4, <2>0, <2>1, SeenBucket, Zenon DEF AtomicStep
  <2>2. CASE ScanData(t) \/ ScanVersions(t) \/ Remove(t) \/ Removed(t)
    BY <1>0, <1>4, <2>0, <2>2, OrderScan, SeenRemove, SeenRemoved, Zenon DEF AtomicStep
  <2>3. CASE Rename(t) \/ Finish(t) \/ UnlinkObject(t) \/ Prune(t)
    BY <1>0, <1>4, <2>0, <2>3, SeenRename, SeenFinish, SeenUnlink, SeenPrune, Zenon DEF AtomicStep
  <2>4. CASE MakeUpload(t) \/ WriteInfo(t) \/ OpenPart(t) \/ WritePart(t) \/ WritePartMeta(t)
    BY <1>0, <1>4, <2>0, <2>4, SeenMakeUpload, SeenWriteInfo, SeenPart, SeenPartMeta, Zenon DEF AtomicStep
  <2>5. CASE PartExists(t) \/ ReadPart(t) \/ ReadDigest(t) \/ RewriteRead(t) \/ RewriteWrite(t)
    BY <1>0, <1>4, <2>0, <2>5, SeenReader, SeenRewrite, Zenon DEF AtomicStep
  <2>. QED
    BY <1>4, <2>1, <2>2, <2>3, <2>4, <2>5, Zenon DEF Handle
<1>5. ASSUME env.orderly, NEW t \in Threads, Abandon(t) PROVE AtomicStep
  <2>1. Busy(t)
    BY <1>5, Zenon DEF Abandon
  <2>. QED
    BY <1>0, <1>5, <2>1, SeenPrune, Zenon DEF AtomicStep
<1>. QED
  BY <1>1, <1>2, <1>3, <1>4, <1>5, Zenon DEF Next

\* Orderly clients cannot tell the files of an upload, written by upload_part, copied and committed by
\* complete_multipart and removed one by one, from an upload that is completed or aborted in one step.
THEOREM UploadsImplementAtomic == Spec => UploadsAreAtomic
<1>1. Init => Atomic!Init
  BY AtomicInit
<1>2. MultipartInv /\ OrderInv /\ OrderInv' /\ [Next]_vars => [Atomic!Next]_<<OpenUploads, PartsOfOpen, ObjectThere>>
  BY AtomicNext DEF AtomicStep, Unseen
<1>. QED
  BY <1>1, <1>2, MultipartInvariant, OrderInvariant, PTL DEF Spec, UploadsAreAtomic, Atomic!Spec
=============================================================================
