--------------------------- MODULE AtomicUploads ----------------------------
(***************************************************************************)
(* What multipart uploads promise clients that do not race each other: an  *)
(* open upload collects parts that nobody else sees, and completing it     *)
(* replaces the object by the listed parts, in the listed order, and closes*)
(* the upload, in one step.  Multipart is shown to implement this.         *)
(***************************************************************************)
EXTENDS Naturals, Sequences

CONSTANTS Uploads, PartNumbers, Bodies, Lists, Empty, None

VARIABLES open, parts, object

Contents == Bodies \cup {Empty, None}
NoParts == [n \in PartNumbers |-> None]

Init ==
    /\ open \in SUBSET Uploads
    /\ parts = [u \in Uploads |-> NoParts]
    /\ object = None

OpenUpload(u) ==
    /\ u \notin open
    /\ open' = open \cup {u}
    /\ UNCHANGED <<parts, object>>

\* A part is empty while its body arrives, and stays so if it never does.
SetPart(u, n, b) ==
    /\ u \in open
    /\ parts' = [parts EXCEPT ![u][n] = b]
    /\ UNCHANGED <<open, object>>

Drop(u) ==
    /\ u \in open
    /\ open' = open \ {u}
    /\ parts' = [parts EXCEPT ![u] = NoParts]

AbortUpload(u) == Drop(u) /\ UNCHANGED object

\* The bodies in the order of the list; one left empty adds nothing.
Joined(bodies) ==
    LET upto[i \in 0..Len(bodies)] ==
            IF i = 0 THEN <<>> ELSE upto[i - 1] \o (IF bodies[i] = Empty THEN <<>> ELSE <<bodies[i]>>)
    IN upto[Len(bodies)]

\* Every part listed was uploaded.
Commit(u, list) ==
    /\ \A i \in 1..Len(list) : parts[u][list[i]] # None
    /\ object' = Joined([i \in 1..Len(list) |-> parts[u][list[i]]])
    /\ Drop(u)

SetObject(b) == object' = <<b>> /\ UNCHANGED <<open, parts>>
DropObject == object' = None /\ UNCHANGED <<open, parts>>

Next ==
    \/ DropObject
    \/ \E b \in Bodies : SetObject(b)
    \/ \E u \in Uploads :
        \/ OpenUpload(u)
        \/ AbortUpload(u)
        \/ \E n \in PartNumbers, b \in Bodies \cup {Empty} : SetPart(u, n, b)
        \/ \E list \in Lists : Commit(u, list)

Spec == Init /\ [][Next]_<<open, parts, object>>
=============================================================================
