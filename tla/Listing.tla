------------------------------ MODULE Listing -------------------------------
(***************************************************************************)
(* One page of a listing (Storage::list_objects).  A key is a sequence of  *)
(* characters, a character the number that orders it.                      *)
(***************************************************************************)
EXTENDS Naturals, FiniteSets, SequencesExt

CONSTANT None

\* The order of strings.
Before(s, t) ==
    \/ IsStrictPrefix(s, t)
    \/ \E i \in 1..Len(s) : /\ i <= Len(t) /\ s[i] < t[i]
                            /\ SubSeq(s, 1, i - 1) = SubSeq(t, 1, i - 1)

\* What a listing asks for: a prefix, the delimiter or None, max_keys, and the
\* marker or continuation token, or None.
Matching(keys, ask) ==
    {k \in keys : /\ IsPrefix(ask.prefix, k)
                  /\ ask.marker # None => Before(ask.marker, k)}

\* What a key is listed as: itself, or the prefix it shares up to a delimiter.
Entry(k, ask) ==
    LET ends == {i \in Len(ask.prefix) + 1..Len(k) : k[i] = ask.delimiter} IN
    IF ask.delimiter = None \/ ends = {} THEN [key |-> k] ELSE [prefix |-> SubSeq(k, 1, Min(ends))]

\* The keys that add an entry to the page, and how many of them come before k.
Fresh(keys, ask) ==
    {k \in Matching(keys, ask) :
        \A other \in Matching(keys, ask) : Before(other, k) => Entry(other, ask) # Entry(k, ask)}
Rank(k, fresh) == Cardinality({f \in fresh : Before(f, k)})

\* Mutant of Page: it continues after the last entry it has listed.
PageAfterLast(keys, ask) ==
    LET fresh == Fresh(keys, ask)
        listed == {k \in fresh : Rank(k, fresh) < ask.max}
        last == {k \in listed : Rank(k, fresh) = ask.max - 1}
    IN [entries |-> {Entry(k, ask) : k \in listed},
        next |-> IF listed = fresh \/ last = {} THEN None ELSE CHOOSE k \in last : TRUE]

\* Mutant of Page: it continues after all it has seen.
PageSkipping(keys, ask) ==
    LET fresh == Fresh(keys, ask)
        listed == {k \in fresh : Rank(k, fresh) < ask.max}
    IN [entries |-> {Entry(k, ask) : k \in listed},
        next |-> IF listed = fresh THEN None
                 ELSE CHOOSE k \in fresh : Rank(k, fresh) = Cardinality(fresh) - 1]

\* A page lists the first max_keys entries; the marker it returns is the first
\* key it left out, and the page after it starts behind that key.
Page(keys, ask) ==
    LET fresh == Fresh(keys, ask)
        listed == {k \in fresh : Rank(k, fresh) < ask.max}
    IN [entries |-> {Entry(k, ask) : k \in listed},
        next |-> IF listed = fresh THEN None
                 ELSE CHOOSE k \in fresh : Rank(k, fresh) = ask.max]
=============================================================================
