--------------------------- MODULE MCObjectStore ---------------------------
(* Instances of ObjectStore for TLC.                                       *)
EXTENDS Versions, TLC

CONSTANTS a, b, ta, tb

Symmetry == Permutations(Reqs)
\* Keys that share their stem and exclude each other are interchangeable too.
KeySymmetry == Symmetry \cup Permutations(Keys)

OneKey == {a}
TwoKeys == {a, b}
OneStem == {ta}
TwoStems == {ta, tb}
\* Two keys that differ in what follows the last dot share a stem.
SameStem == [k \in Keys |-> ta]
OwnStem == [k \in Keys |-> IF k = a THEN ta ELSE tb]
\* Nobody overlaps; everybody may; each key for itself does not.
Serial == Keys \X Keys
Concurrent == {}
SerialPerKey == {<<k, k>> : k \in Keys}
AllRequests == AllOps
Mutators == MutatorOps
WithoutCopy == MutatorOps \ {"copy"}
Readers == {"put", "copy", "delete", "get", "getVersion"}
PutOnly == {"put"}
Writers == MutatorOps \cup {"putVersioning"}
=============================================================================
