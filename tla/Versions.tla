------------------------------ MODULE Versions ------------------------------
(***************************************************************************)
(* GET ?versions (list_versions and walk_versions of storage.rs) over the  *)
(* files of ObjectStore: what a client reads of one key, and how that      *)
(* agrees with what GET serves and with what PUT acknowledged.  The walk   *)
(* is read at an instant: it is judged of keys that nobody is changing.    *)
(***************************************************************************)
EXTENDS ObjectStore

\* by_vid: an entry for each stem of *.data, *.delete-marker and *.meta, in a
\* directory that has a data file or a delete marker.
Recognised(k) == IF Entries(k) = {} THEN {} ELSE Entries(k) \cup vmeta[k]

\* Mutant of ListedETag: by_vid.insert, which the data file resets.
ListedETagOverwritten(k, v) ==
    IF Described(k, v) /\ v \notin vdata[k] THEN vinfo[v].etag ELSE Empty

ListedETag(k, v) == IF Described(k, v) THEN vinfo[v].etag ELSE Empty

\* The size the metadata records, or that of the data file.
ListedSize(k, v) ==
    IF Described(k, v) /\ vinfo[v].etag # <<>> THEN Len(vinfo[v].etag)
    ELSE IF v \in vdata[k] THEN Len(vbody[v]) ELSE 0

\* Mutant of IsLatest: the flag goes to the newest that is no delete marker.
IsLatestVersion(k, v) ==
    /\ v \in Recognised(k) \ vmark[k]
    /\ \A w \in Recognised(k) \ vmark[k] : w <= v

\* latest_set: the first entry of the key once they are sorted, greatest first.
IsLatest(k, v) == \A w \in Recognised(k) : w <= v

\* The entries of key k in the answer, whose order is that of their versions.
ListVersions(k) ==
    {[vid |-> v,
      marker |-> v \in vmark[k],
      latest |-> IsLatest(k, v),
      etag |-> ListedETag(k, v),
      size |-> ListedSize(k, v)] : v \in Recognised(k)}

----------------------------------------------------------------------------
(* Properties.                                                             *)

\* What a deletion that stopped halfway left: metadata without its data.
Leftover(k, v) == v \notin Entries(k)

\* After the last mutating request on a serial key succeeded, the listing and
\* GET tell the same story, unless that request found no versioning: exactly
\* one entry is the latest, a delete marker if there is no live object and
\* else the size of the live object and, where it has one, its ETag.  An entry
\* with neither data nor marker is one whose deletion by a client did not end.
LatestIsLive ==
    \A k \in SerialKeys : last[k] # NoFile /\ pc[last[k]] = "ok" =>
        /\ Tracked(last[k]) /\ ListVersions(k) # {} =>
            \E e \in ListVersions(k) :
                /\ \A f \in ListVersions(k) : f.latest <=> f = e
                /\ \/ Leftover(k, e.vid)
                   \/ e.marker /\ data[k] = NoFile
                   \/ /\ ~e.marker /\ data[k] # NoFile
                      /\ e.etag \in {Empty, body[data[k]]}
                      /\ e.size = Len(body[data[k]])
        /\ \A e \in ListVersions(k) : Leftover(k, e.vid) =>
            \E q \in Reqs :
                op[q] = "deleteVersion" /\ vid[q] = e.vid /\ pc[q] = "failed"

\* A client that lists a serial key at rest finds every version a PUT was
\* acknowledged with, under its ETag and size, and every marker of a DELETE.
AckedListed ==
    \A r \in Reqs :
        /\ pc[r] = "ok" /\ vid[r] # NoVid /\ ~Purged(vid[r])
        /\ key[r] \in SerialKeys /\ pc[last[key[r]]] \in Final
        => /\ op[r] \in PutOps =>
                \E e \in ListVersions(key[r]) :
                    ~e.marker /\ e.vid = vid[r] /\ e.etag = sum[r] /\ e.size = Len(sum[r])
           /\ op[r] = "delete" =>
                \E e \in ListVersions(key[r]) : e.marker /\ e.vid = vid[r]
=============================================================================
