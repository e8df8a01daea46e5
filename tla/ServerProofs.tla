----------------------------- MODULE ServerProofs -----------------------------
(***************************************************************************)
(* What a client asks for is what the server does, in time and whole, for  *)
(* every bucket and key, set of clients and moment (Server).               *)
(*                                                                         *)
(* First what the operators of Routes return: the value of a header in     *)
(* lines that are put together, the address in a path, the first of        *)
(* dispatch's rules that applies.  Booleans that depend on data are kept   *)
(* behind a name; the provers do not instantiate a lemma with a formula.   *)
(* Then what a request a client signs looks like to the server, and an     *)
(* inductive invariant that carries it through the steps of a connection.  *)
(***************************************************************************)
EXTENDS Server, CalendarProofs, SequenceTheorems

\* Min, which is defined by CHOOSE, is the element no other is below.
LEMMA MinIs ==
  ASSUME NEW S \in SUBSET Int, NEW x \in S, \A y \in S : x <= y
  PROVE  Min(S) = x
<1>1. \A z \in S : (\A y \in S : z <= y) => z = x
  BY SMTT(20)
<1>. QED
  BY <1>1, Zenon DEF Min

\* A set of positions has a last one.
LEMMA MaxIn ==
  ASSUME NEW n \in Nat, NEW S \in SUBSET (1..n), S # {}
  PROVE  Max(S) \in S /\ \A y \in S : y <= Max(S)
<1>1. PICK T \in SUBSET Nat : T = {n - x : x \in S}
  <2>1. \A x \in S : n - x \in Nat
    BY SMTT(20)
  <2>2. {n - x : x \in S} \in SUBSET Nat
    BY <2>1, Zenon
  <2>. QED
    BY <2>2, Zenon
<1>2. PICK t \in T : \A k \in T : t <= k
  <2>1. T # {}
    BY <1>1, Zenon
  <2>. QED
    BY <2>1, Least, Zenon
<1>3. PICK x \in S : t = n - x
  BY <1>1, <1>2, Zenon
<1>4. \A y \in S : x >= y
  <2>1. SUFFICES ASSUME NEW y \in S PROVE x >= y
    BY Zenon
  <2>2. n - y \in T
    BY <1>1, Zenon
  <2>3. t <= n - y
    BY <1>2, <2>2, Zenon
  <2>4. x \in 1..n /\ y \in 1..n
    BY Zenon
  <2>. QED
    BY <1>3, <2>3, <2>4, SMTT(20)
<1>5. Max(S) \in S /\ \A y \in S : Max(S) >= y
  BY <1>4, Zenon DEF Max
<1>. QED
  BY <1>5, SMTT(20)

\* The first rule that applies is the one none before which applies.
LEMMA FirstIs ==
  ASSUME NEW rules, NEW n \in Nat, DOMAIN rules = 1..n,
         NEW i \in 1..n, rules[i][1], \A j \in 1..(i - 1) : ~rules[j][1]
  PROVE  FirstOf(rules) = rules[i][2]
<1>. DEFINE S == {k \in DOMAIN rules : rules[k][1]}
<1>1. S \in SUBSET Int /\ i \in S
  BY SMTT(20)
<1>2. \A y \in S : i <= y
  BY SMTT(20)
<1>3. Min(S) = i
  BY <1>1, <1>2, MinIs, Zenon
<1>. QED
  BY <1>3, Zenon DEF FirstOf

\* A value all lines of that name have is the value of the header.
LEMMA GetIs ==
  ASSUME NEW S, NEW lines \in Seq(S), NEW name, NEW v, Has(lines, name),
         \A i \in DOMAIN lines : lines[i][1] = name => lines[i][2] = v
  PROVE  Get(lines, name) = v
<1>. DEFINE at == {i \in DOMAIN lines : lines[i][1] = name}
<1>1. Len(lines) \in Nat /\ at \in SUBSET (1..Len(lines)) /\ at # {}
  BY SMTT(20) DEF Has
<1>2. Max(at) \in at
  BY <1>1, MaxIn, Zenon
<1>. QED
  BY <1>2, Zenon DEF Get

\* Lines of other names behind it change no header.
LEMMA GetBefore ==
  ASSUME NEW S, NEW l1 \in Seq(S), NEW l2 \in Seq(S), NEW name, ~Has(l2, name)
  PROVE  Get(l1 \o l2, name) = Get(l1, name) /\ (Has(l1 \o l2, name) <=> Has(l1, name))
<1>1. /\ \A i \in DOMAIN l1 : (l1 \o l2)[i] = l1[i] /\ i \in DOMAIN (l1 \o l2)
      /\ \A i \in DOMAIN (l1 \o l2) : i \notin DOMAIN l1 => (l1 \o l2)[i] \in Range(l2)
  BY SMTT(20) DEF Range
<1>2. \A i \in DOMAIN (l1 \o l2) : i \notin DOMAIN l1 => (l1 \o l2)[i][1] # name
  BY <1>1, Zenon DEF Range, Has
<1>. DEFINE at == {i \in DOMAIN l1 : l1[i][1] = name}
<1>3. {i \in DOMAIN (l1 \o l2) : (l1 \o l2)[i][1] = name} = at
  BY <1>1, <1>2, Zenon
<1>4. Has(l1 \o l2, name) <=> Has(l1, name)
  BY <1>1, <1>2, Zenon DEF Has
<1>5. CASE Has(l1, name)
  <2>1. Len(l1) \in Nat /\ at \in SUBSET (1..Len(l1)) /\ at # {}
    BY <1>5, SMTT(20) DEF Has
  <2>2. Max(at) \in at
    BY <2>1, MaxIn, Zenon
  <2>3. (l1 \o l2)[Max(at)] = l1[Max(at)]
    BY <1>1, <2>2, Zenon
  <2>. QED
    BY <1>3, <1>4, <1>5, <2>3, Zenon DEF Get
<1>6. CASE ~Has(l1, name)
  BY <1>4, <1>6, Zenon DEF Get
<1>. QED
  BY <1>4, <1>5, <1>6, Zenon

\* However a path is escaped, if a blank and a plus are: it is decoded to itself.
LEMMA DecodeEscaped ==
  ASSUME NEW S, NEW text \in Seq(S), NEW raw, DOMAIN raw = DOMAIN text,
         \A i \in DOMAIN text : raw[i].c = text[i] /\ (text[i] = Plus => raw[i].esc)
  PROVE  Decode(raw) = text
<1>1. text = [i \in DOMAIN text |-> text[i]]
  BY SMTT(20)
<1>2. Decode(raw) = [i \in DOMAIN text |-> text[i]]
  BY Zenon DEF Decode
<1>. QED
  BY <1>1, <1>2, Zenon

----------------------------------------------------------------------------

\* Without its first slash, a path that has one.
LEMMA Stripped ==
  ASSUME NEW rest \in Seq(Nat), rest = <<>> \/ rest[1] # Slash,
         NEW path, path = <<Slash>> \o rest
  PROVE  LET from == Min({i \in DOMAIN path : path[i] # Slash} \cup {Len(path) + 1}) IN
         SubSeq(path, from, Len(path)) = rest
<1>1. /\ path \in Seq(Nat) /\ Len(path) = Len(rest) + 1 /\ path[1] = Slash
      /\ \A i \in 1..Len(rest) : path[i + 1] = rest[i]
  BY SMTT(20) DEF Slash
<1>. DEFINE S == {i \in DOMAIN path : path[i] # Slash} \cup {Len(path) + 1}
<1>2. S \in SUBSET Int /\ 2 \in S /\ \A y \in S : 2 <= y
  <2>1. DOMAIN path = 1..(Len(rest) + 1)
    BY <1>1, SMTT(20)
  <2>2. CASE rest = <<>>
    BY <1>1, <2>1, <2>2, SMTT(20)
  <2>3. CASE rest # <<>>
    <3>1. Len(rest) >= 1 /\ path[2] = rest[1]
      BY <1>1, <2>3, SMTT(20)
    <3>. QED
      BY <1>1, <2>1, <2>3, <3>1, SMTT(20)
  <2>. QED
    BY <2>2, <2>3
<1>3. Min(S) = 2
  BY <1>2, MinIs, Zenon
<1>4. SubSeq(path, 2, Len(path)) = rest
  BY <1>1, SMTT(20)
<1>. QED
  BY <1>3, <1>4, Zenon

\* resolve_addressing behind the first slash.
LEMMA AddressOf ==
  ASSUME NEW host, NEW rest \in Seq(Nat), rest = <<>> \/ rest[1] # Slash
  PROVE  LET slashes == {i \in DOMAIN rest : rest[i] = Slash} IN
         /\ host # None => Addressing(host, <<Slash>> \o rest) = [bucket |-> host, key |-> rest]
         /\ host = None /\ slashes = {} =>
                Addressing(host, <<Slash>> \o rest) = [bucket |-> rest, key |-> <<>>]
         /\ host = None /\ slashes # {} =>
                Addressing(host, <<Slash>> \o rest) =
                    [bucket |-> SubSeq(rest, 1, Min(slashes) - 1),
                     key |-> SubSeq(rest, Min(slashes) + 1, Len(rest))]
<1>. DEFINE path == <<Slash>> \o rest
            from == Min({i \in DOMAIN path : path[i] # Slash} \cup {Len(path) + 1})
            behind == SubSeq(path, from, Len(path))
            slashes == {i \in DOMAIN behind : behind[i] = Slash}
            first == [bucket |-> SubSeq(behind, 1, Min(slashes) - 1),
                      key |-> SubSeq(behind, Min(slashes) + 1, Len(behind))]
<1>1. behind = rest
  BY Stripped, Zenon
<1>2. Addressing(host, path) =
         CASE host # None -> [bucket |-> host, key |-> behind]
           [] host = None /\ slashes = {} -> [bucket |-> behind, key |-> <<>>]
           [] OTHER -> first
  BY Zenon DEF Addressing
<1>. HIDE DEF behind, path
<1>3. host # None => Addressing(host, path) = [bucket |-> host, key |-> behind]
  BY <1>2, SMTT(20)
<1>4. host = None /\ slashes = {} => Addressing(host, path) = [bucket |-> behind, key |-> <<>>]
  BY <1>2, SMTT(20)
<1>5. host = None /\ slashes # {} => Addressing(host, path) = first
  <2>. HIDE DEF first, slashes
  <2>. QED
    BY <1>2, SMTT(20)
<1>. QED
  BY <1>1, <1>3, <1>4, <1>5, Zenon DEF path

\* The address a client means.
LEMMA AddressOfHost ==
  ASSUME NEW host, host # None, NEW key \in Seq(Nat), key = <<>> \/ key[1] # Slash
  PROVE  Addressing(host, <<Slash>> \o key) = [bucket |-> host, key |-> key]
  BY AddressOf, Zenon

\* A path of one segment is a bucket's.
LEMMA AddressOfBucket ==
  ASSUME NEW bucket \in Seq(Nat), \A i \in DOMAIN bucket : bucket[i] # Slash
  PROVE  Addressing(None, <<Slash>> \o bucket) = [bucket |-> bucket, key |-> <<>>]
<1>1. bucket = <<>> \/ bucket[1] # Slash
  BY SMTT(20)
<1>2. {i \in DOMAIN bucket : bucket[i] = Slash} = {}
  BY Zenon
<1>. QED
  BY <1>1, <1>2, AddressOf, Zenon

\* The first slash behind a bucket ends its name; those of the key are the key's.
LEMMA AddressOfObject ==
  ASSUME NEW bucket \in Seq(Nat), \A i \in DOMAIN bucket : bucket[i] # Slash, bucket # <<>>,
         NEW key \in Seq(Nat)
  PROVE  Addressing(None, <<Slash>> \o bucket \o <<Slash>> \o key) = [bucket |-> bucket, key |-> key]
<1>. DEFINE rest == bucket \o <<Slash>> \o key
            slashes == {i \in DOMAIN rest : rest[i] = Slash}
            n == Len(bucket) + 1
<1>1. /\ rest \in Seq(Nat) /\ DOMAIN rest = 1..(Len(bucket) + 1 + Len(key))
      /\ Len(rest) = Len(bucket) + 1 + Len(key) /\ Len(bucket) \in Nat \ {0}
      /\ \A i \in DOMAIN bucket : rest[i] = bucket[i]
      /\ rest[n] = Slash
  BY SMTT(20) DEF Slash
<1>2. rest[1] # Slash
  BY <1>1, SMTT(20)
<1>3. <<Slash>> \o bucket \o <<Slash>> \o key = <<Slash>> \o rest
  BY SMTT(20) DEF Slash
<1>4. slashes \in SUBSET Int /\ n \in slashes /\ \A y \in slashes : n <= y
  BY <1>1, SMTT(20)
<1>5. Min(slashes) = n
  BY <1>4, MinIs, Zenon
<1>6. SubSeq(rest, 1, n - 1) = bucket /\ SubSeq(rest, n + 1, Len(rest)) = key
  BY <1>1, SMTT(20)
<1>. HIDE DEF rest, n
<1>7. Addressing(None, <<Slash>> \o rest) =
         [bucket |-> SubSeq(rest, 1, Min(slashes) - 1), key |-> SubSeq(rest, Min(slashes) + 1, Len(rest))]
  <2>1. rest \in Seq(Nat) /\ slashes # {}
    BY <1>1, <1>4, Zenon
  <2>. QED
    BY <1>2, <2>1, AddressOf
<1>. QED
  BY <1>3, <1>5, <1>6, <1>7, Zenon

----------------------------------------------------------------------------

\* A head of one line has that line's name and no other.
LEMMA OneLine ==
  ASSUME NEW name, NEW value, NEW other
  PROVE  /\ << <<name, value>> >> \in Seq({<<name, value>>})
         /\ Has(<< <<name, value>> >>, other) <=> other = name
<1>. DEFINE L == << <<name, value>> >>
<1>1. L \in Seq({<<name, value>>}) /\ DOMAIN L = {1} /\ L[1] = <<name, value>>
  BY SMTT(20)
<1>2. L[1][1] = name
  BY <1>1, SMTT(20)
<1>. HIDE DEF L
<1>3. Has(L, other) <=> other = name
  BY <1>1, <1>2, Zenon DEF Has
<1>. QED
  BY <1>1, <1>3, Zenon DEF L

\* An empty head has no line.
LEMMA NoLine ==
  ASSUME NEW S, NEW other
  PROVE  <<>> \in Seq(S) /\ ~Has(<<>>, other)
  BY SMTT(20) DEF Has

\* Two heads have together the lines each has.
LEMMA HasJoined ==
  ASSUME NEW S, NEW T, NEW l1 \in Seq(S), NEW l2 \in Seq(T), NEW name
  PROVE  Has(l1 \o l2, name) <=> Has(l1, name) \/ Has(l2, name)
<1>. DEFINE l == l1 \o l2
<1>1. DOMAIN l1 = 1..Len(l1) /\ DOMAIN l2 = 1..Len(l2) /\ DOMAIN l = 1..(Len(l1) + Len(l2))
      /\ Len(l1) \in Nat /\ Len(l2) \in Nat
  BY SMTT(20)
<1>2. \A i \in DOMAIN l1 : l[i] = l1[i] /\ i \in DOMAIN l
  BY <1>1, SMTT(20)
<1>3. \A i \in DOMAIN l2 : l[Len(l1) + i] = l2[i] /\ Len(l1) + i \in DOMAIN l
  BY <1>1, SMTT(20)
<1>4. ASSUME NEW i \in DOMAIN l, l[i][1] = name
      PROVE  Has(l1, name) \/ Has(l2, name)
  <2>1. CASE i \in DOMAIN l1
    BY <1>2, <1>4, <2>1, Zenon DEF Has
  <2>2. CASE i \notin DOMAIN l1
    <3>1. i - Len(l1) \in DOMAIN l2 /\ l[i] = l2[i - Len(l1)]
      BY <1>1, <2>2, SMTT(20)
    <3>2. l2[i - Len(l1)][1] = name
      BY <1>4, <3>1, Zenon
    <3>. QED
      BY <3>1, <3>2, Zenon DEF Has
  <2>. QED
    BY <2>1, <2>2, Zenon
<1>. HIDE DEF l
<1>5. Has(l, name) => Has(l1, name) \/ Has(l2, name)
  BY <1>4, Zenon DEF Has
<1>6. Has(l1, name) \/ Has(l2, name) => Has(l, name)
  BY <1>2, <1>3, Zenon DEF Has
<1>. QED
  BY <1>5, <1>6, Zenon DEF l

\* A second head without a line of that name does not hide the first one's.
LEMMA GetJoined ==
  ASSUME NEW S, NEW T, NEW l1 \in Seq(S), NEW l2 \in Seq(T), NEW name, ~Has(l2, name)
  PROVE  Get(l1 \o l2, name) = Get(l1, name)
<1>1. l1 \in Seq(S \cup T) /\ l2 \in Seq(S \cup T) /\ l1 \o l2 \in Seq(S \cup T)
  BY SMTT(20)
<1>. QED
  BY <1>1, GetBefore, Zenon

\* A line at the end gives the header its value.
LEMMA GetBehind ==
  ASSUME NEW S, NEW T, NEW l1 \in Seq(S), NEW name, ~Has(l1, name), NEW value,
         NEW l2, l2 = << <<name, value>> >>
  PROVE  Get(l1 \o l2, name) = value
<1>. DEFINE l == l1 \o l2  last == Len(l1) + 1
<1>1. l2 \in Seq({<<name, value>>}) /\ Has(l2, name)
  BY OneLine, SMTT(20)
<1>2. l \in Seq(S \cup {<<name, value>>}) /\ Has(l, name)
  <2>1. l1 \in Seq(S \cup {<<name, value>>}) /\ l2 \in Seq(S \cup {<<name, value>>}) 
    BY <1>1, SMTT(20)
  <2>2. l \in Seq(S \cup {<<name, value>>})
    BY <2>1, SMTT(20)
  <2>. QED
    BY <1>1, <2>2, HasJoined, Zenon
<1>3. /\ \A i \in DOMAIN l : i \in DOMAIN l1 \/ i = last
      /\ \A i \in DOMAIN l1 : l[i] = l1[i]
      /\ l[last] = <<name, value>>
  BY <1>1, SMTT(20)
<1>4. l[last][2] = value
  BY <1>3, SMTT(20)
<1>. HIDE DEF l, last
<1>5. \A i \in DOMAIN l : l[i][1] = name => l[i][2] = value
  BY <1>3, <1>4, Zenon DEF Has
<1>6. Get(l, name) = value
  BY <1>2, <1>5, GetIs, Zenon
<1>. QED
  BY <1>6, Zenon DEF l

\* The lines of a head: a sequence of whatever they are.
Lines(l) == \E S : l \in Seq(S)

\* A header has the same value in both.
Same(l, l1, n) == Get(l, n) = Get(l1, n)

\* The same three facts, without naming what the lines are.
LEMMA Joined ==
  ASSUME NEW l1, NEW l2, Lines(l1), Lines(l2)
  PROVE  /\ Lines(l1 \o l2)
         /\ \A n : Has(l1 \o l2, n) <=> Has(l1, n) \/ Has(l2, n)
         /\ \A n : ~Has(l2, n) => Same(l1 \o l2, l1, n)
<1>1. PICK S : l1 \in Seq(S)
  BY Zenon DEF Lines
<1>2. PICK T : l2 \in Seq(T)
  BY Zenon DEF Lines
<1>3. l1 \o l2 \in Seq(S \cup T)
  BY <1>1, <1>2, SMTT(20)
<1>4. ASSUME NEW n PROVE Has(l1 \o l2, n) <=> Has(l1, n) \/ Has(l2, n)
  BY <1>1, <1>2, HasJoined, Zenon
<1>5. ASSUME NEW n, ~Has(l2, n) PROVE Same(l1 \o l2, l1, n)
  <2>1. Get(l1 \o l2, n) = Get(l1, n)
    BY <1>1, <1>2, <1>5, GetJoined, SMTT(20)
  <2>. QED
    BY <2>1, Zenon DEF Same
<1>. QED
  BY <1>3, <1>4, <1>5, Zenon DEF Lines

\* OneLine, for a head that is known to be that line.
LEMMA OneLineIs ==
  ASSUME NEW name, NEW value, NEW l, l = << <<name, value>> >>
  PROVE  Lines(l) /\ (\A n : Has(l, n) <=> n = name) /\ Get(l, name) = value
<1>1. Lines(l) /\ \A n : Has(l, n) <=> n = name
  BY OneLine, Zenon DEF Lines
<1>2. l \in Seq({<<name, value>>}) /\ Has(l, name) /\ \A i \in DOMAIN l : l[i] = <<name, value>>
  BY OneLine, SMTT(20)
<1>3. \A i \in DOMAIN l : l[i][2] = value
  BY <1>2, SMTT(20)
<1>4. Get(l, name) = value
  BY <1>2, <1>3, GetIs, Zenon
<1>. QED
  BY <1>1, <1>4, Zenon

\* NoLine, for a head that is known to be empty.
LEMMA NoLineIs ==
  ASSUME NEW l, l = <<>>
  PROVE  Lines(l) /\ \A n : ~Has(l, n)
<1>1. Lines(<<>>)
  BY NoLine, Zenon DEF Lines
<1>. QED
  BY <1>1, NoLine, Zenon

\* GetBehind, without naming what the lines are.
LEMMA LineBehind ==
  ASSUME NEW l1, Lines(l1), NEW name, ~Has(l1, name), NEW value, NEW l2, l2 = << <<name, value>> >>
  PROVE  Get(l1 \o l2, name) = value
<1>1. PICK S : l1 \in Seq(S)
  BY Zenon DEF Lines
<1>. QED
  BY <1>1, GetBehind, SMTT(20)

----------------------------------------------------------------------------

\* What dispatch's rules ask for and where they lead.
Applies(rules, i) == rules[i][1]
Named(rules, i) == rules[i][2]

\* The rules for a request of this kind.
RulesFor(m, bucket, key, q, lines) ==
    Rules(m, bucket, key # <<>>, q, Has(lines, "x-amz-copy-source"))

\* The guards of the rules, one by one.
Guards(R, m, bucket, key, q, lines) ==
    /\ Applies(R, 1) <=> "uploads" \in q
    /\ Applies(R, 2) <=> "uploadId" \in q
    /\ Applies(R, 3) <=> "tagging" \in q
    /\ Applies(R, 4) <=> "versioning" \in q /\ key = <<>>
    /\ Applies(R, 5) <=> "versions" \in q /\ key = <<>> /\ m = "GET"
    /\ Applies(R, 6) <=> m = "GET" /\ bucket = <<>>
    /\ Applies(R, 7) <=> m = "GET" /\ key = <<>> /\ "location" \in q
    /\ Applies(R, 8) <=> m = "HEAD" /\ key = <<>>
    /\ Applies(R, 9) <=> m = "PUT" /\ key = <<>>
    /\ Applies(R, 10) <=> m = "DELETE" /\ key = <<>>
    /\ Applies(R, 11) <=> m = "GET" /\ key = <<>>
    /\ Applies(R, 12) <=> m = "POST" /\ key = <<>> /\ "delete" \in q
    /\ Applies(R, 13) <=> m = "PUT" /\ Has(lines, "x-amz-copy-source")
    /\ Applies(R, 14) <=> m = "PUT"
    /\ Applies(R, 15) <=> m = "GET"
    /\ Applies(R, 16) <=> m = "HEAD"
    /\ Applies(R, 17) <=> m = "DELETE"

\* The operations they lead to, one by one.
Names(R, m, key, q) ==
    /\ m = "POST" /\ key # <<>> => Named(R, 1) = "createMultipart"
    /\ m = "GET" /\ key = <<>> => Named(R, 1) = "listUploads"
    /\ m = "PUT" /\ "partNumber" \in q => Named(R, 2) = "uploadPart"
    /\ m = "POST" => Named(R, 2) = "complete"
    /\ m = "DELETE" => Named(R, 2) = "abort"
    /\ m = "GET" => Named(R, 2) = "listParts"
    /\ m = "GET" /\ key # <<>> => Named(R, 3) = "getTagging"
    /\ m = "PUT" /\ key # <<>> => Named(R, 3) = "putTagging"
    /\ m = "DELETE" /\ key # <<>> => Named(R, 3) = "deleteTagging"
    /\ m = "GET" => Named(R, 4) = "getVersioning"
    /\ m = "PUT" => Named(R, 4) = "putVersioning"
    /\ Named(R, 5) = "listVersions" /\ Named(R, 6) = "listBuckets" /\ Named(R, 7) = "bucketLocation"
    /\ Named(R, 8) = "headBucket" /\ Named(R, 9) = "createBucket" /\ Named(R, 10) = "deleteBucket"
    /\ Named(R, 11) = "listObjects" /\ Named(R, 12) = "deleteObjects" /\ Named(R, 13) = "copyObject"
    /\ Named(R, 14) = "putObject" /\ Named(R, 15) = "getObject" /\ Named(R, 16) = "headObject"
    /\ Named(R, 17) = "deleteObject"

\* dispatch has eighteen rules.
LEMMA RuleCount ==
  ASSUME NEW m, NEW bucket, NEW key, NEW q, NEW lines
  PROVE  DOMAIN RulesFor(m, bucket, key, q, lines) = 1..18
  BY SMTT(20) DEF RulesFor, Rules

\* Rules has the guards that Guards lists.
LEMMA RuleGuards ==
  ASSUME NEW m, NEW bucket, NEW key, NEW q, NEW lines
  PROVE  Guards(RulesFor(m, bucket, key, q, lines), m, bucket, key, q, lines)
  BY Zenon DEF RulesFor, Rules, Applies, Guards

\* Rules leads to the operations that Names lists.
LEMMA RuleNames ==
  ASSUME NEW m, NEW bucket, NEW key, NEW q, NEW lines
  PROVE  Names(RulesFor(m, bucket, key, q, lines), m, key, q)
  BY SMTT(20) DEF RulesFor, Rules, Named, Names

\* FirstIs, in the terms of Applies and Named.
LEMMA FirstRule ==
  ASSUME NEW rules, DOMAIN rules = 1..18, NEW i \in 1..18, Applies(rules, i),
         \A j \in 1..(i - 1) : ~Applies(rules, j)
  PROVE  FirstOf(rules) = Named(rules, i)
<1>1. rules[i][1] /\ \A j \in 1..(i - 1) : ~rules[j][1]
  BY Zenon DEF Applies
<1>2. 18 \in Nat
  BY SMTT(20)
<1>3. FirstOf(rules) = rules[i][2]
  BY <1>1, <1>2, FirstIs, Zenon
<1>. QED
  BY <1>3, Zenon DEF Named

----------------------------------------------------------------------------
(* What a client asks for, as the server sees it.                          *)

\* A bucket, a key and the lines of a head as an operation has them.
Naming(o, bucket, key, lines) ==
    /\ o \in Operations
    /\ bucket = <<>> <=> o = "listBuckets"
    /\ key # <<>> <=> o \in OnObject
    /\ Has(lines, "x-amz-copy-source") <=> o = "copyObject"

\* dispatch calls the operation a client asks for: of all the rules in their order,
\* the first that applies to its method and parameters is its own.
LEMMA RouteOfOperation ==
  ASSUME NEW o, NEW bucket, NEW key, NEW lines, Naming(o, bucket, key, lines),
         NEW m, NEW q, m = Api[o][1], q = Api[o][2]
  PROVE  FirstOf(RulesFor(m, bucket, key, q, lines)) = o
<1>. USE DEF Naming
<1>1. PICK R : R = RulesFor(m, bucket, key, q, lines)
  BY Zenon
<1>2. DOMAIN R = 1..18 /\ Guards(R, m, bucket, key, q, lines) /\ Names(R, m, key, q)
  BY <1>1, RuleCount, RuleGuards, RuleNames, Zenon
<1>3. SUFFICES FirstOf(R) = o
  BY <1>1, Zenon
<1>4. CASE o = "putObject"
  <2>1. m = "PUT" /\ q = {} /\ key # <<>>
    BY <1>4, SMTT(20) DEF Api, OnObject, Operations, OnBucket
  <2>2. Applies(R, 14) /\ Named(R, 14) = o /\ \A j \in 1..13 : ~Applies(R, j)
    BY <1>2, <1>4, <2>1, SMTT(20) DEF Guards, Names
  <2>. QED
    BY <1>2, <2>2, FirstRule, SMTT(20)
<1>5. CASE o = "copyObject"
  <2>1. m = "PUT" /\ q = {} /\ key # <<>>
    BY <1>5, SMTT(20) DEF Api, OnObject, Operations, OnBucket
  <2>2. Applies(R, 13) /\ Named(R, 13) = o /\ \A j \in 1..12 : ~Applies(R, j)
    BY <1>2, <1>5, <2>1, SMTT(20) DEF Guards, Names
  <2>. QED
    BY <1>2, <2>2, FirstRule, SMTT(20)
<1>6. CASE o = "createBucket"
  <2>1. m = "PUT" /\ q = {} /\ key = <<>>
    BY <1>6, SMTT(20) DEF Api, OnObject, Operations, OnBucket
  <2>2. Applies(R, 9) /\ Named(R, 9) = o /\ \A j \in 1..8 : ~Applies(R, j)
    BY <1>2, <1>6, <2>1, SMTT(20) DEF Guards, Names
  <2>. QED
    BY <1>2, <2>2, FirstRule, SMTT(20)
<1>7. CASE o = "getObject"
  <2>1. m = "GET" /\ q = {} /\ key # <<>>
    BY <1>7, SMTT(20) DEF Api, OnObject, Operations, OnBucket
  <2>2. Applies(R, 15) /\ Named(R, 15) = o /\ \A j \in 1..14 : ~Applies(R, j)
    BY <1>2, <1>7, <2>1, SMTT(20) DEF Guards, Names
  <2>. QED
    BY <1>2, <2>2, FirstRule, SMTT(20)
<1>8. CASE o = "listObjects"
  <2>1. m = "GET" /\ q = {} /\ key = <<>>
    BY <1>8, SMTT(20) DEF Api, OnObject, Operations, OnBucket
  <2>2. Applies(R, 11) /\ Named(R, 11) = o /\ \A j \in 1..10 : ~Applies(R, j)
    BY <1>2, <1>8, <2>1, SMTT(20) DEF Guards, Names
  <2>. QED
    BY <1>2, <2>2, FirstRule, SMTT(20)
<1>9. CASE o = "listBuckets"
  <2>1. m = "GET" /\ q = {} /\ key = <<>>
    BY <1>9, SMTT(20) DEF Api, OnObject, Operations, OnBucket
  <2>2. Applies(R, 6) /\ Named(R, 6) = o /\ \A j \in 1..5 : ~Applies(R, j)
    BY <1>2, <1>9, <2>1, SMTT(20) DEF Guards, Names
  <2>. QED
    BY <1>2, <2>2, FirstRule, SMTT(20)
<1>10. CASE o = "headObject"
  <2>1. m = "HEAD" /\ q = {} /\ key # <<>>
    BY <1>10, SMTT(20) DEF Api, OnObject, Operations, OnBucket
  <2>2. Applies(R, 16) /\ Named(R, 16) = o /\ \A j \in 1..15 : ~Applies(R, j)
    BY <1>2, <1>10, <2>1, SMTT(20) DEF Guards, Names
  <2>. QED
    BY <1>2, <2>2, FirstRule, SMTT(20)
<1>11. CASE o = "headBucket"
  <2>1. m = "HEAD" /\ q = {} /\ key = <<>>
    BY <1>11, SMTT(20) DEF Api, OnObject, Operations, OnBucket
  <2>2. Applies(R, 8) /\ Named(R, 8) = o /\ \A j \in 1..7 : ~Applies(R, j)
    BY <1>2, <1>11, <2>1, SMTT(20) DEF Guards, Names
  <2>. QED
    BY <1>2, <2>2, FirstRule, SMTT(20)
<1>12. CASE o = "deleteObject"
  <2>1. m = "DELETE" /\ q = {} /\ key # <<>>
    BY <1>12, SMTT(20) DEF Api, OnObject, Operations, OnBucket
  <2>2. Applies(R, 17) /\ Named(R, 17) = o /\ \A j \in 1..16 : ~Applies(R, j)
    BY <1>2, <1>12, <2>1, SMTT(20) DEF Guards, Names
  <2>. QED
    BY <1>2, <2>2, FirstRule, SMTT(20)
<1>13. CASE o = "deleteBucket"
  <2>1. m = "DELETE" /\ q = {} /\ key = <<>>
    BY <1>13, SMTT(20) DEF Api, OnObject, Operations, OnBucket
  <2>2. Applies(R, 10) /\ Named(R, 10) = o /\ \A j \in 1..9 : ~Applies(R, j)
    BY <1>2, <1>13, <2>1, SMTT(20) DEF Guards, Names
  <2>. QED
    BY <1>2, <2>2, FirstRule, SMTT(20)
<1>14. CASE o = "createMultipart"
  <2>1. m = "POST" /\ q = {"uploads"} /\ key # <<>>
    BY <1>14, SMTT(20) DEF Api, OnObject, Operations, OnBucket
  <2>2. Applies(R, 1) /\ Named(R, 1) = o
    BY <1>2, <1>14, <2>1, SMTT(20) DEF Guards, Names
  <2>. QED
    BY <1>2, <2>2, FirstRule, SMTT(20)
<1>15. CASE o = "listUploads"
  <2>1. m = "GET" /\ q = {"uploads"} /\ key = <<>>
    BY <1>15, SMTT(20) DEF Api, OnObject, Operations, OnBucket
  <2>2. Applies(R, 1) /\ Named(R, 1) = o
    BY <1>2, <1>15, <2>1, SMTT(20) DEF Guards, Names
  <2>. QED
    BY <1>2, <2>2, FirstRule, SMTT(20)
<1>16. CASE o = "uploadPart"
  <2>1. m = "PUT" /\ q = {"uploadId", "partNumber"} /\ key # <<>>
    BY <1>16, SMTT(20) DEF Api, OnObject, Operations, OnBucket
  <2>2. Applies(R, 2) /\ Named(R, 2) = o /\ \A j \in 1..1 : ~Applies(R, j)
    BY <1>2, <1>16, <2>1, SMTT(20) DEF Guards, Names
  <2>. QED
    BY <1>2, <2>2, FirstRule, SMTT(20)
<1>17. CASE o = "complete"
  <2>1. m = "POST" /\ q = {"uploadId"} /\ key # <<>>
    BY <1>17, SMTT(20) DEF Api, OnObject, Operations, OnBucket
  <2>2. Applies(R, 2) /\ Named(R, 2) = o /\ \A j \in 1..1 : ~Applies(R, j)
    BY <1>2, <1>17, <2>1, SMTT(20) DEF Guards, Names
  <2>. QED
    BY <1>2, <2>2, FirstRule, SMTT(20)
<1>18. CASE o = "abort"
  <2>1. m = "DELETE" /\ q = {"uploadId"} /\ key # <<>>
    BY <1>18, SMTT(20) DEF Api, OnObject, Operations, OnBucket
  <2>2. Applies(R, 2) /\ Named(R, 2) = o /\ \A j \in 1..1 : ~Applies(R, j)
    BY <1>2, <1>18, <2>1, SMTT(20) DEF Guards, Names
  <2>. QED
    BY <1>2, <2>2, FirstRule, SMTT(20)
<1>19. CASE o = "listParts"
  <2>1. m = "GET" /\ q = {"uploadId"} /\ key # <<>>
    BY <1>19, SMTT(20) DEF Api, OnObject, Operations, OnBucket
  <2>2. Applies(R, 2) /\ Named(R, 2) = o /\ \A j \in 1..1 : ~Applies(R, j)
    BY <1>2, <1>19, <2>1, SMTT(20) DEF Guards, Names
  <2>. QED
    BY <1>2, <2>2, FirstRule, SMTT(20)
<1>20. CASE o = "getTagging"
  <2>1. m = "GET" /\ q = {"tagging"} /\ key # <<>>
    BY <1>20, SMTT(20) DEF Api, OnObject, Operations, OnBucket
  <2>2. Applies(R, 3) /\ Named(R, 3) = o /\ \A j \in 1..2 : ~Applies(R, j)
    BY <1>2, <1>20, <2>1, SMTT(20) DEF Guards, Names
  <2>. QED
    BY <1>2, <2>2, FirstRule, SMTT(20)
<1>21. CASE o = "putTagging"
  <2>1. m = "PUT" /\ q = {"tagging"} /\ key # <<>>
    BY <1>21, SMTT(20) DEF Api, OnObject, Operations, OnBucket
  <2>2. Applies(R, 3) /\ Named(R, 3) = o /\ \A j \in 1..2 : ~Applies(R, j)
    BY <1>2, <1>21, <2>1, SMTT(20) DEF Guards, Names
  <2>. QED
    BY <1>2, <2>2, FirstRule, SMTT(20)
<1>22. CASE o = "deleteTagging"
  <2>1. m = "DELETE" /\ q = {"tagging"} /\ key # <<>>
    BY <1>22, SMTT(20) DEF Api, OnObject, Operations, OnBucket
  <2>2. Applies(R, 3) /\ Named(R, 3) = o /\ \A j \in 1..2 : ~Applies(R, j)
    BY <1>2, <1>22, <2>1, SMTT(20) DEF Guards, Names
  <2>. QED
    BY <1>2, <2>2, FirstRule, SMTT(20)
<1>23. CASE o = "getVersioning"
  <2>1. m = "GET" /\ q = {"versioning"} /\ key = <<>>
    BY <1>23, SMTT(20) DEF Api, OnObject, Operations, OnBucket
  <2>2. Applies(R, 4) /\ Named(R, 4) = o /\ \A j \in 1..3 : ~Applies(R, j)
    BY <1>2, <1>23, <2>1, SMTT(20) DEF Guards, Names
  <2>. QED
    BY <1>2, <2>2, FirstRule, SMTT(20)
<1>24. CASE o = "putVersioning"
  <2>1. m = "PUT" /\ q = {"versioning"} /\ key = <<>>
    BY <1>24, SMTT(20) DEF Api, OnObject, Operations, OnBucket
  <2>2. Applies(R, 4) /\ Named(R, 4) = o /\ \A j \in 1..3 : ~Applies(R, j)
    BY <1>2, <1>24, <2>1, SMTT(20) DEF Guards, Names
  <2>. QED
    BY <1>2, <2>2, FirstRule, SMTT(20)
<1>25. CASE o = "listVersions"
  <2>1. m = "GET" /\ q = {"versions"} /\ key = <<>>
    BY <1>25, SMTT(20) DEF Api, OnObject, Operations, OnBucket
  <2>2. Applies(R, 5) /\ Named(R, 5) = o /\ \A j \in 1..4 : ~Applies(R, j)
    BY <1>2, <1>25, <2>1, SMTT(20) DEF Guards, Names
  <2>. QED
    BY <1>2, <2>2, FirstRule, SMTT(20)
<1>26. CASE o = "bucketLocation"
  <2>1. m = "GET" /\ q = {"location"} /\ key = <<>>
    BY <1>26, SMTT(20) DEF Api, OnObject, Operations, OnBucket
  <2>2. Applies(R, 7) /\ Named(R, 7) = o /\ \A j \in 1..6 : ~Applies(R, j)
    BY <1>2, <1>26, <2>1, SMTT(20) DEF Guards, Names
  <2>. QED
    BY <1>2, <2>2, FirstRule, SMTT(20)
<1>27. CASE o = "deleteObjects"
  <2>1. m = "POST" /\ q = {"delete"} /\ key = <<>>
    BY <1>27, SMTT(20) DEF Api, OnObject, Operations, OnBucket
  <2>2. Applies(R, 12) /\ Named(R, 12) = o /\ \A j \in 1..11 : ~Applies(R, j)
    BY <1>2, <1>27, <2>1, SMTT(20) DEF Guards, Names
  <2>. QED
    BY <1>2, <2>2, FirstRule, SMTT(20)
<1>. QED
  BY <1>4, <1>5, <1>6, <1>7, <1>8, <1>9, <1>10, <1>11, <1>12, <1>13, <1>14, <1>15, <1>16, <1>17, <1>18, <1>19, <1>20, <1>21, <1>22, <1>23, <1>24, <1>25, <1>26, <1>27, Zenon DEF Operations, OnObject, OnBucket

\* What the lines a client sends besides its signature say.
LEMMA HeadLinesAre ==
  ASSUME NEW c
  PROVE  LET l == HeadLines(c) IN
         /\ Lines(l) /\ ~Has(l, "authorization") /\ ~Has(l, "content-length")
         /\ Has(l, "x-amz-copy-source") <=> c.op = "copyObject"
         /\ Get(l, "host") = IF c.hosted THEN c.bucket ELSE None
         /\ Get(l, "range") = c.range
         /\ Get(l, "x-amz-copy-source") = IF c.op = "copyObject" THEN c.key ELSE None
         /\ Get(l, "content-encoding") = IF c.framing \in {"streaming", "chunked"} THEN "aws-chunked" ELSE None
         /\ Get(l, "x-amz-content-sha256") =
               IF c.framing = "streaming" THEN "STREAMING" ELSE IF c.framing = "trailer" THEN "TRAILER"
               ELSE IF c.framing = "fixed" THEN "DIGEST" ELSE None
<1>1. PICK L1 : L1 = Line(TRUE, "host", IF c.hosted THEN c.bucket ELSE None)
  BY Zenon
<1>2. PICK L2 : L2 = Line(c.framing = "streaming", "x-amz-content-sha256", "STREAMING")
  BY Zenon
<1>3. PICK L3 : L3 = Line(c.framing \in {"trailer", "fixed"}, "x-amz-content-sha256",
                          IF c.framing = "trailer" THEN "TRAILER" ELSE "DIGEST")
  BY Zenon
<1>4. PICK L4 : L4 = Line(c.framing \in {"streaming", "chunked"}, "content-encoding", "aws-chunked")
  BY Zenon
<1>5. PICK L5 : L5 = Line(c.op = "copyObject", "x-amz-copy-source", c.key)
  BY Zenon
<1>6. PICK L6 : L6 = Line(c.range # None, "range", c.range)
  BY Zenon
<1>7. PICK J2 : J2 = L1 \o L2
  BY Zenon
<1>8. PICK J3 : J3 = J2 \o L3
  BY Zenon
<1>9. PICK J4 : J4 = J3 \o L4
  BY Zenon
<1>10. PICK J5 : J5 = J4 \o L5
  BY Zenon
<1>11. PICK J6 : J6 = J5 \o L6
  BY Zenon
<1>12. HeadLines(c) = J6
  BY <1>1, <1>2, <1>3, <1>4, <1>5, <1>6, <1>7, <1>8, <1>9, <1>10, <1>11, Zenon DEF HeadLines
<1>13. Lines(L1) /\ (\A n : Has(L1, n) => n = "host") /\ (Has(L1, "host") <=> TRUE)
  <2>1. (TRUE) => L1 = << <<"host", IF c.hosted THEN c.bucket ELSE None>> >>
    BY <1>1, Zenon DEF Line
  <2>2. ~(TRUE) => L1 = <<>>
    BY <1>1, Zenon DEF Line
  <2>. QED
    BY <2>1, <2>2, OneLineIs, NoLineIs, Zenon
<1>14. Lines(L2) /\ (\A n : Has(L2, n) => n = "x-amz-content-sha256") /\ (Has(L2, "x-amz-content-sha256") <=> c.framing = "streaming")
  <2>1. (c.framing = "streaming") => L2 = << <<"x-amz-content-sha256", "STREAMING">> >>
    BY <1>2, Zenon DEF Line
  <2>2. ~(c.framing = "streaming") => L2 = <<>>
    BY <1>2, Zenon DEF Line
  <2>. QED
    BY <2>1, <2>2, OneLineIs, NoLineIs, Zenon
<1>15. Lines(L3) /\ (\A n : Has(L3, n) => n = "x-amz-content-sha256") /\ (Has(L3, "x-amz-content-sha256") <=> c.framing \in {"trailer", "fixed"})
  <2>1. (c.framing \in {"trailer", "fixed"}) =>
           L3 = << <<"x-amz-content-sha256", IF c.framing = "trailer" THEN "TRAILER" ELSE "DIGEST">> >>
    BY <1>3, Zenon DEF Line
  <2>2. ~(c.framing \in {"trailer", "fixed"}) => L3 = <<>>
    BY <1>3, Zenon DEF Line
  <2>. QED
    BY <2>1, <2>2, OneLineIs, NoLineIs, Zenon
<1>16. Lines(L4) /\ (\A n : Has(L4, n) => n = "content-encoding") /\ (Has(L4, "content-encoding") <=> c.framing \in {"streaming", "chunked"})
  <2>1. (c.framing \in {"streaming", "chunked"}) => L4 = << <<"content-encoding", "aws-chunked">> >>
    BY <1>4, Zenon DEF Line
  <2>2. ~(c.framing \in {"streaming", "chunked"}) => L4 = <<>>
    BY <1>4, Zenon DEF Line
  <2>. QED
    BY <2>1, <2>2, OneLineIs, NoLineIs, Zenon
<1>17. Lines(L5) /\ (\A n : Has(L5, n) => n = "x-amz-copy-source") /\ (Has(L5, "x-amz-copy-source") <=> c.op = "copyObject")
  <2>1. (c.op = "copyObject") => L5 = << <<"x-amz-copy-source", c.key>> >>
    BY <1>5, Zenon DEF Line
  <2>2. ~(c.op = "copyObject") => L5 = <<>>
    BY <1>5, Zenon DEF Line
  <2>. QED
    BY <2>1, <2>2, OneLineIs, NoLineIs, Zenon
<1>18. Lines(L6) /\ (\A n : Has(L6, n) => n = "range") /\ (Has(L6, "range") <=> c.range # None)
  <2>1. (c.range # None) => L6 = << <<"range", c.range>> >>
    BY <1>6, Zenon DEF Line
  <2>2. ~(c.range # None) => L6 = <<>>
    BY <1>6, Zenon DEF Line
  <2>. QED
    BY <2>1, <2>2, OneLineIs, NoLineIs, Zenon
<1>19. /\ Lines(J2)
       /\ \A n : Has(J2, n) <=> Has(L1, n) \/ Has(L2, n)
       /\ \A n : ~Has(L2, n) => Same(J2, L1, n)
  <2>1. Lines(L1) /\ Lines(L2)
    BY <1>13, <1>14, Zenon
  <2>. QED
    BY <2>1, <1>7, Joined, Zenon
<1>20. /\ Lines(J3)
       /\ \A n : Has(J3, n) <=> Has(J2, n) \/ Has(L3, n)
       /\ \A n : ~Has(L3, n) => Same(J3, J2, n)
  <2>1. Lines(J2) /\ Lines(L3)
    BY <1>19, <1>15, Zenon
  <2>. QED
    BY <2>1, <1>8, Joined, Zenon
<1>21. /\ Lines(J4)
       /\ \A n : Has(J4, n) <=> Has(J3, n) \/ Has(L4, n)
       /\ \A n : ~Has(L4, n) => Same(J4, J3, n)
  <2>1. Lines(J3) /\ Lines(L4)
    BY <1>20, <1>16, Zenon
  <2>. QED
    BY <2>1, <1>9, Joined, Zenon
<1>22. /\ Lines(J5)
       /\ \A n : Has(J5, n) <=> Has(J4, n) \/ Has(L5, n)
       /\ \A n : ~Has(L5, n) => Same(J5, J4, n)
  <2>1. Lines(J4) /\ Lines(L5)
    BY <1>21, <1>17, Zenon
  <2>. QED
    BY <2>1, <1>10, Joined, Zenon
<1>23. /\ Lines(J6)
       /\ \A n : Has(J6, n) <=> Has(J5, n) \/ Has(L6, n)
       /\ \A n : ~Has(L6, n) => Same(J6, J5, n)
  <2>1. Lines(J5) /\ Lines(L6)
    BY <1>22, <1>18, Zenon
  <2>. QED
    BY <2>1, <1>11, Joined, Zenon
<1>24. ~Has(J6, "authorization") /\ ~Has(J6, "content-length")
  <2>1. ASSUME NEW n, n \in {"authorization", "content-length"} PROVE ~Has(J6, n)
    <3>1. ~Has(L1, n) /\ ~Has(L2, n) /\ ~Has(L3, n) /\ ~Has(L4, n) /\ ~Has(L5, n) /\ ~Has(L6, n)
      BY <2>1, <1>13, <1>14, <1>15, <1>16, <1>17, <1>18, SMTT(20)
    <3>. QED
      BY <3>1, <1>19, <1>20, <1>21, <1>22, <1>23, Zenon
  <2>. QED
    BY <2>1, Zenon
<1>25. Has(J6, "x-amz-copy-source") <=> c.op = "copyObject"
  <2>1. /\ ~Has(L1, "x-amz-copy-source") /\ ~Has(L2, "x-amz-copy-source") /\ ~Has(L3, "x-amz-copy-source")
        /\ ~Has(L4, "x-amz-copy-source") /\ ~Has(L6, "x-amz-copy-source")
    BY <1>13, <1>14, <1>15, <1>16, <1>17, <1>18, SMTT(20)
  <2>2. Has(J6, "x-amz-copy-source") <=> Has(L5, "x-amz-copy-source")
    BY <2>1, <1>19, <1>20, <1>21, <1>22, <1>23, Zenon
  <2>. QED
    BY <2>2, <1>17, Zenon
<1>26. Get(J6, "host") = IF c.hosted THEN c.bucket ELSE None
  <2>1. ~Has(L2, "host") /\ ~Has(L3, "host") /\ ~Has(L4, "host") /\ ~Has(L5, "host") /\ ~Has(L6, "host")
    BY <1>13, <1>14, <1>15, <1>16, <1>17, <1>18, SMTT(20)
  <2>2. /\ Same(J6, J5, "host") /\ Same(J5, J4, "host") /\ Same(J4, J3, "host")
        /\ Same(J3, J2, "host") /\ Same(J2, L1, "host")
    BY <2>1, <1>19, <1>20, <1>21, <1>22, <1>23, Zenon
  <2>3. Get(J6, "host") = Get(L1, "host")
    BY <2>2, SMTT(20) DEF Same
  <2>4. L1 = << <<"host", IF c.hosted THEN c.bucket ELSE None>> >>
    BY <1>1, Zenon DEF Line
  <2>5. Get(L1, "host") = IF c.hosted THEN c.bucket ELSE None
    BY <2>4, OneLineIs, SMTT(20)
  <2>. QED
    BY <2>3, <2>5, Zenon
<1>27. Get(J6, "range") = c.range
  <2>1. ~Has(J5, "range")
    <3>1. ~Has(L1, "range") /\ ~Has(L2, "range") /\ ~Has(L3, "range") /\ ~Has(L4, "range") /\ ~Has(L5, "range")
      BY <1>13, <1>14, <1>15, <1>16, <1>17, <1>18, SMTT(20)
    <3>. QED
      BY <3>1, <1>19, <1>20, <1>21, <1>22, <1>23, Zenon
  <2>2. CASE c.range # None
    <3>1. L6 = << <<"range", c.range>> >>
      BY <1>6, <2>2, Zenon DEF Line
    <3>. QED
      BY <1>11, <1>22, <2>1, <3>1, LineBehind, SMTT(20)
  <2>3. CASE c.range = None
    <3>1. ~Has(J6, "range")
      BY <1>18, <1>23, <2>1, <2>3, Zenon
    <3>. QED
      BY <2>3, <3>1, Zenon DEF Get
  <2>. QED
    BY <2>2, <2>3, Zenon
<1>28. Get(J6, "x-amz-copy-source") = IF c.op = "copyObject" THEN c.key ELSE None
  <2>1. /\ ~Has(L1, "x-amz-copy-source") /\ ~Has(L2, "x-amz-copy-source") /\ ~Has(L3, "x-amz-copy-source")
        /\ ~Has(L4, "x-amz-copy-source") /\ ~Has(L6, "x-amz-copy-source")
    BY <1>13, <1>14, <1>15, <1>16, <1>17, <1>18, SMTT(20)
  <2>2. ~Has(J4, "x-amz-copy-source") /\ Same(J6, J5, "x-amz-copy-source")
    BY <2>1, <1>19, <1>20, <1>21, <1>23, Zenon
  <2>3. CASE c.op = "copyObject"
    <3>1. L5 = << <<"x-amz-copy-source", c.key>> >>
      BY <1>5, <2>3, Zenon DEF Line
    <3>2. Get(J5, "x-amz-copy-source") = c.key
      BY <1>10, <1>21, <2>2, <3>1, LineBehind, SMTT(20)
    <3>. QED
      BY <2>2, <2>3, <3>2, Zenon DEF Same
  <2>4. CASE c.op # "copyObject"
    BY <1>25, <2>4, Zenon DEF Get
  <2>. QED
    BY <2>3, <2>4, Zenon
<1>29. Get(J6, "content-encoding") = IF c.framing \in {"streaming", "chunked"} THEN "aws-chunked" ELSE None
  <2>1. /\ ~Has(L1, "content-encoding") /\ ~Has(L2, "content-encoding") /\ ~Has(L3, "content-encoding")
        /\ ~Has(L5, "content-encoding") /\ ~Has(L6, "content-encoding")
    BY <1>13, <1>14, <1>15, <1>16, <1>17, <1>18, SMTT(20)
  <2>2. ~Has(J3, "content-encoding") /\ Same(J6, J5, "content-encoding") /\ Same(J5, J4, "content-encoding")
    BY <2>1, <1>19, <1>20, <1>22, <1>23, Zenon
  <2>3. CASE c.framing \in {"streaming", "chunked"}
    <3>1. L4 = << <<"content-encoding", "aws-chunked">> >>
      BY <1>4, <2>3, Zenon DEF Line
    <3>2. Get(J4, "content-encoding") = "aws-chunked"
      BY <1>9, <1>20, <2>2, <3>1, LineBehind, SMTT(20)
    <3>. QED
      BY <2>2, <2>3, <3>2, Zenon DEF Same
  <2>4. CASE c.framing \notin {"streaming", "chunked"}
    <3>1. ~Has(J6, "content-encoding")
      BY <1>16, <1>21, <1>22, <1>23, <2>1, <2>2, <2>4, Zenon
    <3>. QED
      BY <2>4, <3>1, Zenon DEF Get
  <2>. QED
    BY <2>3, <2>4, Zenon
<1>30. Get(J6, "x-amz-content-sha256") =
          IF c.framing = "streaming" THEN "STREAMING" ELSE IF c.framing = "trailer" THEN "TRAILER"
               ELSE IF c.framing = "fixed" THEN "DIGEST" ELSE None
  <2>1. /\ ~Has(L1, "x-amz-content-sha256") /\ ~Has(L4, "x-amz-content-sha256")
        /\ ~Has(L5, "x-amz-content-sha256") /\ ~Has(L6, "x-amz-content-sha256")
    BY <1>13, <1>14, <1>15, <1>16, <1>17, <1>18, SMTT(20)
  <2>2. /\ Same(J6, J5, "x-amz-content-sha256") /\ Same(J5, J4, "x-amz-content-sha256")
        /\ Same(J4, J3, "x-amz-content-sha256")
    BY <2>1, <1>21, <1>22, <1>23, Zenon
  <2>3. CASE c.framing = "streaming"
    <3>1. L2 = << <<"x-amz-content-sha256", "STREAMING">> >>
      BY <1>2, <2>3, Zenon DEF Line
    <3>2. Get(J2, "x-amz-content-sha256") = "STREAMING"
      BY <1>7, <1>13, <2>1, <3>1, LineBehind, SMTT(20)
    <3>3. "streaming" \notin {"trailer", "fixed"}
      OBVIOUS
    <3>4. Same(J3, J2, "x-amz-content-sha256")
      BY <1>15, <1>20, <2>3, <3>3, Zenon
    <3>. QED
      BY <2>2, <2>3, <3>2, <3>4, Zenon DEF Same
  <2>4. CASE c.framing \in {"trailer", "fixed"}
    <3>1. PICK v : v = IF c.framing = "trailer" THEN "TRAILER" ELSE "DIGEST"
      BY Zenon
    <3>2. L3 = << <<"x-amz-content-sha256", v>> >>
      BY <1>3, <2>4, <3>1, Zenon DEF Line
    <3>3. "streaming" \notin {"trailer", "fixed"}
      OBVIOUS
    <3>4. ~Has(J2, "x-amz-content-sha256")
      BY <1>14, <1>19, <2>1, <2>4, <3>3, Zenon
    <3>5. Get(J3, "x-amz-content-sha256") = v
      BY <1>8, <1>19, <3>2, <3>4, LineBehind, SMTT(20)
    <3>6. Get(J6, "x-amz-content-sha256") = v
      BY <2>2, <3>5, Zenon DEF Same
    <3>. QED
      BY <2>4, <3>1, <3>3, <3>6, Zenon
  <2>5. CASE c.framing \notin {"streaming", "trailer", "fixed"}
    <3>1. ~Has(J3, "x-amz-content-sha256")
      BY <1>14, <1>15, <1>19, <1>20, <2>1, <2>5, Zenon
    <3>2. ~Has(J6, "x-amz-content-sha256")
      BY <1>21, <1>22, <1>23, <2>1, <3>1, Zenon
    <3>. QED
      BY <2>5, <3>2, Zenon DEF Get
  <2>. QED
    BY <2>3, <2>4, <2>5, Zenon
<1>. QED
  BY <1>12, <1>23, <1>24, <1>25, <1>26, <1>27, <1>28, <1>29, <1>30, Zenon

----------------------------------------------------------------------------

\* The path a client means is a sequence of characters.
LEMMA TextIs ==
  ASSUME NEW c, Sendable(c)
  PROVE  Text(c) \in Seq(Nat)
<1>1. c.bucket \in Seq(Nat) /\ c.key \in Seq(Nat) /\ c.hosted \in BOOLEAN /\ Slash \in Nat
  BY SMTT(20) DEF Sendable, Slash
<1>2. /\ <<Slash>> \o c.key \in Seq(Nat) /\ <<Slash>> \o c.bucket \in Seq(Nat)
      /\ <<Slash>> \o c.bucket \o <<Slash>> \o c.key \in Seq(Nat)
  BY <1>1, SMTT(20)
<1>. QED
  BY <1>1, <1>2, SMTT(20) DEF Text

\* What the server decodes is what the client means, however it is escaped.
LEMMA Decoded ==
  ASSUME NEW c, Sendable(c)
  PROVE  Decode(RawPath(c)) = Text(c) /\ Decode(EncodePath(Text(c))) = Text(c)
<1>. DEFINE t == Text(c)  raw == RawPath(c)  coded == EncodePath(t)
<1>1. t \in Seq(Nat)
  BY TextIs, Zenon
<1>2. DOMAIN raw = DOMAIN t /\ \A i \in DOMAIN t : raw[i].c = t[i] /\ (t[i] = Plus => raw[i].esc)
  BY Zenon DEF RawPath
<1>3. DOMAIN coded = DOMAIN t /\ \A i \in DOMAIN t : coded[i].c = t[i] /\ (t[i] = Plus => coded[i].esc)
  BY Zenon DEF EncodePath
<1>. HIDE DEF t, raw, coded
<1>4. Decode(raw) = t
  BY <1>1, <1>2, DecodeEscaped, Zenon
<1>5. Decode(coded) = t
  BY <1>1, <1>3, DecodeEscaped, Zenon
<1>. QED
  BY <1>4, <1>5, Zenon DEF t, raw, coded

\* The server takes bucket and key for those the client means.
LEMMA Addressed ==
  ASSUME NEW c, Sendable(c)
  PROVE  Addressing(IF c.hosted THEN c.bucket ELSE None, Text(c)) = [bucket |-> c.bucket, key |-> c.key]
<1>1. /\ c.bucket \in Seq(Nat) /\ c.bucket # None /\ c.key \in Seq(Nat) /\ c.hosted \in BOOLEAN
      /\ c.key = <<>> \/ c.key[1] # Slash
      /\ \A i \in DOMAIN c.bucket : c.bucket[i] # Slash
      /\ c.key # <<>> => c.bucket # <<>>
  <2>1. /\ c.bucket \in Seq(Nat) /\ c.key \in Seq(Nat) /\ c.hosted \in BOOLEAN
        /\ c.key = <<>> \/ c.key[1] # Slash
        /\ \A i \in DOMAIN c.bucket : c.bucket[i] # Slash
        /\ c.bucket = <<>> <=> c.op = "listBuckets"
        /\ c.key # <<>> <=> c.op \in OnObject
    BY Zenon DEF Sendable
  <2>2. "listBuckets" \notin OnObject
    BY SMTT(20) DEF OnObject
  <2>3. c.bucket # None
    BY <2>1, NoneAssumption, Zenon
  <2>. QED
    BY <2>1, <2>2, <2>3, Zenon
<1>2. CASE c.hosted
  <2>1. Text(c) = <<Slash>> \o c.key
    BY <1>2, SMTT(20) DEF Text
  <2>. QED
    BY <1>1, <1>2, <2>1, AddressOfHost, Zenon
<1>3. CASE ~c.hosted /\ c.key = <<>>
  <2>1. Text(c) = <<Slash>> \o c.bucket
    BY <1>3, SMTT(20) DEF Text
  <2>2. Addressing(None, <<Slash>> \o c.bucket) = [bucket |-> c.bucket, key |-> <<>>]
    BY <1>1, AddressOfBucket, Zenon
  <2>. QED
    BY <1>3, <2>1, <2>2, Zenon
<1>4. CASE ~c.hosted /\ c.key # <<>>
  <2>1. Text(c) = <<Slash>> \o c.bucket \o <<Slash>> \o c.key
    BY <1>1, <1>4, Zenon DEF Text
  <2>2. Addressing(None, <<Slash>> \o c.bucket \o <<Slash>> \o c.key) = [bucket |-> c.bucket, key |-> c.key]
    BY <1>1, <1>4, AddressOfObject, Zenon
  <2>. QED
    BY <1>4, <2>1, <2>2, Zenon
<1>. QED
  BY <1>1, <1>2, <1>3, <1>4, Zenon

\* The lines of a request: those of its head, its signature and its length.
LEMMA RequestLines ==
  ASSUME NEW c, NEW ask, NEW when
  PROVE  LET l == Request(c, ask, when).lines IN
         /\ \A n : n \notin {"authorization", "content-length"} =>
                Same(l, HeadLines(c), n) /\ (Has(l, n) <=> Has(HeadLines(c), n))
         /\ Has(l, "authorization") <=> c.auth = "header"
         /\ c.auth = "header" => Get(l, "authorization") = Signed(c, when)
<1>. DEFINE l == Request(c, ask, when).lines
<1>1. PICK H : H = HeadLines(c)
  BY Zenon
<1>2. PICK a : a = Line(c.auth = "header", "authorization", Signed(c, when))
  BY Zenon
<1>3. PICK b : b = Line(c.framing = "fixed", "content-length", Len(Body(c)))
  BY Zenon
<1>4. PICK ha : ha = H \o a
  BY Zenon
<1>5. l = ha \o b
  BY <1>1, <1>2, <1>3, <1>4, SMTT(20) DEF Request
<1>. HIDE DEF l
<1>6. Lines(H) /\ ~Has(H, "authorization")
  BY <1>1, HeadLinesAre, Zenon
<1>7. Lines(a) /\ (\A n : Has(a, n) => n = "authorization") /\ (Has(a, "authorization") <=> c.auth = "header")
  <2>1. c.auth = "header" => a = << <<"authorization", Signed(c, when)>> >>
    BY <1>2, Zenon DEF Line
  <2>2. c.auth # "header" => a = <<>>
    BY <1>2, Zenon DEF Line
  <2>. QED
    BY <2>1, <2>2, OneLineIs, NoLineIs, Zenon
<1>8. Lines(b) /\ (\A n : Has(b, n) => n = "content-length")
  <2>1. b = << <<"content-length", Len(Body(c))>> >> \/ b = <<>>
    BY <1>3, Zenon DEF Line
  <2>. QED
    BY <2>1, OneLineIs, NoLineIs, Zenon
<1>9. /\ Lines(ha)
      /\ \A n : Has(ha, n) <=> Has(H, n) \/ Has(a, n)
      /\ \A n : ~Has(a, n) => Same(ha, H, n)
  BY <1>4, <1>6, <1>7, Joined, Zenon
<1>10. /\ \A n : Has(l, n) <=> Has(ha, n) \/ Has(b, n)
       /\ \A n : ~Has(b, n) => Same(l, ha, n)
  BY <1>5, <1>8, <1>9, Joined, Zenon
<1>11. ASSUME NEW n, n \notin {"authorization", "content-length"}
       PROVE  Same(l, H, n) /\ (Has(l, n) <=> Has(H, n))
  <2>1. ~Has(a, n) /\ ~Has(b, n)
    BY <1>7, <1>8, <1>11, Zenon
  <2>2. Same(l, ha, n) /\ Same(ha, H, n)
    BY <1>9, <1>10, <2>1, Zenon
  <2>3. Same(l, H, n)
    BY <2>2, SMTT(20) DEF Same
  <2>. QED
    BY <1>9, <1>10, <2>1, <2>3, Zenon
<1>12. ~Has(b, "authorization")
  BY <1>8, SMTT(20)
<1>13. Has(l, "authorization") <=> c.auth = "header"
  BY <1>6, <1>7, <1>9, <1>10, <1>12, Zenon
<1>14. ASSUME c.auth = "header" PROVE Get(l, "authorization") = Signed(c, when)
  <2>1. a = << <<"authorization", Signed(c, when)>> >>
    BY <1>2, <1>14, Zenon DEF Line
  <2>2. Get(ha, "authorization") = Signed(c, when)
    BY <1>4, <1>6, <2>1, LineBehind, SMTT(20)
  <2>3. Same(l, ha, "authorization")
    BY <1>10, <1>12, Zenon
  <2>. QED
    BY <2>2, <2>3, SMTT(20) DEF Same
<1>. QED
  BY <1>1, <1>11, <1>13, <1>14, Zenon DEF l

\* Where a request is served that names its host, and what to copy, as its client does.
LEMMA RoutedBy ==
  ASSUME NEW c, Sendable(c), NEW req,
         req.path = RawPath(c), req.method = Bare(c).method, req.params = Bare(c).params,
         Get(req.lines, "host") = IF c.hosted THEN c.bucket ELSE None,
         Has(req.lines, "x-amz-copy-source") <=> c.op = "copyObject"
  PROVE  /\ Addressing(Get(req.lines, "host"), Decode(req.path)) = [bucket |-> c.bucket, key |-> c.key]
         /\ Route(req, [bucket |-> c.bucket, key |-> c.key]) = c.op
<1>1. req.method = Api[c.op][1] /\ req.params = Api[c.op][2]
  BY Zenon DEF Bare
<1>2. Addressing(Get(req.lines, "host"), Decode(req.path)) = [bucket |-> c.bucket, key |-> c.key]
  BY <1>1, Decoded, Addressed, Zenon
<1>3. Naming(c.op, c.bucket, c.key, req.lines)
  BY Zenon DEF Sendable, Naming
<1>4. FirstOf(RulesFor(req.method, c.bucket, c.key, req.params, req.lines)) = c.op
  BY <1>1, <1>3, RouteOfOperation, SMTT(20)
<1>5. Route(req, [bucket |-> c.bucket, key |-> c.key]) = c.op
  BY <1>4, Zenon DEF Route, RulesFor
<1>. QED
  BY <1>2, <1>5, Zenon

\* So is one that arrives whole.
LEMMA Routed ==
  ASSUME NEW c, Sendable(c), NEW ask, NEW when, NEW req, req = Request(c, ask, when)
  PROVE  /\ Addressing(Get(req.lines, "host"), Decode(req.path)) = [bucket |-> c.bucket, key |-> c.key]
         /\ Route(req, [bucket |-> c.bucket, key |-> c.key]) = c.op
<1>1. req.path = RawPath(c) /\ req.method = Bare(c).method /\ req.params = Bare(c).params
  BY Zenon DEF Request, Bare
<1>2. /\ Get(req.lines, "host") = IF c.hosted THEN c.bucket ELSE None
      /\ Has(req.lines, "x-amz-copy-source") <=> c.op = "copyObject"
  <2>1. /\ Same(req.lines, HeadLines(c), "host")
        /\ Has(req.lines, "x-amz-copy-source") <=> Has(HeadLines(c), "x-amz-copy-source")
    BY RequestLines, Zenon
  <2>2. /\ Get(HeadLines(c), "host") = IF c.hosted THEN c.bucket ELSE None
        /\ Has(HeadLines(c), "x-amz-copy-source") <=> c.op = "copyObject"
    BY HeadLinesAre, Zenon
  <2>. QED
    BY <2>1, <2>2, Zenon DEF Same
<1>. QED
  BY <1>1, <1>2, RoutedBy, SMTT(20)

\* The canonical form of a request is the one its client signed.
LEMMA SignedCanonically ==
  ASSUME NEW c, Sendable(c), NEW ask, NEW when, NEW req, req = Request(c, ask, when), NEW payload
  PROVE  Canonical(req, SignedNames, payload) = Canonical(Bare(c), SignedNames, payload)
<1>1. /\ req.path = RawPath(c) /\ req.method = Bare(c).method /\ req.params = Bare(c).params
      /\ Bare(c).path = EncodePath(Text(c)) /\ Bare(c).lines = HeadLines(c)
  BY Zenon DEF Request, Bare
<1>2. CanonicalUri(req.path) = CanonicalUri(Bare(c).path)
  BY <1>1, Decoded, Zenon DEF CanonicalUri
<1>3. \A n \in SignedNames : Get(req.lines, n) = Get(Bare(c).lines, n)
  <2>1. ASSUME NEW n \in SignedNames PROVE Same(req.lines, HeadLines(c), n)
    <3>1. n \notin {"authorization", "content-length"}
      BY SMTT(20) DEF SignedNames
    <3>. QED
      BY <3>1, RequestLines, Zenon
  <2>. QED
    BY <1>1, <2>1, Zenon DEF Same
<1>4. [n \in SignedNames |-> Get(req.lines, n)] = [n \in SignedNames |-> Get(Bare(c).lines, n)]
  BY <1>3, Zenon
<1>. QED
  BY <1>1, <1>2, <1>4, Zenon DEF Canonical

\* An honest signature in the header is accepted.
LEMMA HeaderAccepted ==
  ASSUME NEW c, Sendable(c), NEW ask, NEW when, NEW req, req = Request(c, ask, when),
         c.auth = "header", c.formed, c.by \in AccessKeys
  PROVE  ~IsPresigned(req) /\ CheckHeader(req) = 200
<1>1. ~IsPresigned(req)
  BY SMTT(20) DEF Request, IsPresigned
<1>2. PICK a : a = Signed(c, when)
  BY Zenon
<1>3. Has(req.lines, "authorization") /\ Get(req.lines, "authorization") = a
  BY <1>2, RequestLines, Zenon
<1>4. Payload(req.lines) = Payload(HeadLines(c))
  <2>1. "x-amz-content-sha256" \notin {"authorization", "content-length"}
    BY SMTT(20)
  <2>2. /\ Same(req.lines, HeadLines(c), "x-amz-content-sha256")
        /\ Has(req.lines, "x-amz-content-sha256") <=> Has(HeadLines(c), "x-amz-content-sha256")
    BY <2>1, RequestLines, Zenon
  <2>. QED
    BY <2>2, Zenon DEF Payload, Same
<1>5. /\ a.formed /\ a.by = c.by /\ a.when = when /\ a.names = SignedNames
      /\ a.signature = Signature(c.by, when, Canonical(Bare(c), SignedNames, Payload(HeadLines(c))))
  <2>1. c.auth # "presigned"
    BY SMTT(20)
  <2>. QED
    BY <1>2, <2>1, Zenon DEF Signed
<1>6. Verify(req, a)
  <2>1. PICK payload : payload = Payload(HeadLines(c))
    BY Zenon
  <2>2. Canonical(req, SignedNames, payload) = Canonical(Bare(c), SignedNames, payload)
    BY SignedCanonically, Zenon
  <2>. QED
    BY <1>4, <1>5, <2>1, <2>2, Zenon DEF Verify, Matches
<1>7. ParseAuthorization(req.lines) = 200
  BY <1>3, <1>5, SMTT(20) DEF ParseAuthorization
<1>8. CheckHeader(req) = 200
  BY <1>3, <1>5, <1>6, <1>7, SMTT(20) DEF CheckHeader
<1>. QED
  BY <1>1, <1>8

\* An honest presigned request is accepted from the moment it is signed to its end.
LEMMA PresignedAccepted ==
  ASSUME NEW c, Sendable(c), NEW ask, NEW when, NEW req, req = Request(c, ask, when),
         c.auth = "presigned", c.formed, c.by \in AccessKeys,
         NEW at \in Nat, at = AmzSeconds(when.date, when.sec), NEW now \in Int
  PROVE  /\ IsPresigned(req)
         /\ CheckPresigned(req, now) = 200 <=> 1 <= c.expires /\ c.expires <= 604800 /\ now <= at + c.expires
<1>1. PICK a : a = Signed(c, when)
  BY Zenon
<1>2. IsPresigned(req) /\ Head(req.presigned) = a
  BY <1>1, SMTT(20) DEF Request, IsPresigned
<1>3. /\ a.formed /\ a.by = c.by /\ a.when = when /\ a.names = SignedNames /\ a.expires = c.expires
      /\ a.signature = Signature(c.by, when, Canonical(Bare(c), SignedNames, "UNSIGNED"))
  BY <1>1, Zenon DEF Signed
<1>4. VerifyPresigned(req, a)
  <2>1. PICK payload : payload = "UNSIGNED"
    BY Zenon
  <2>2. Canonical(req, SignedNames, payload) = Canonical(Bare(c), SignedNames, payload)
    BY SignedCanonically, Zenon
  <2>. QED
    BY <1>3, <2>1, <2>2, Zenon DEF VerifyPresigned, Matches
<1>5. ParsePresigned(a) = 200
  BY <1>3, SMTT(20) DEF ParsePresigned
<1>6. PICK due : due = at + a.expires
  BY Zenon
<1>7. at = AmzSeconds(a.when.date, a.when.sec) /\ at # -1
  BY <1>3, SMTT(20)
<1>8. c.expires \in Int
  BY Zenon DEF Sendable
<1>9. ASSUME ~(1 <= c.expires /\ c.expires <= 604800) PROVE CheckPresigned(req, now) # 200
  BY <1>2, <1>3, <1>5, <1>7, <1>8, <1>9, SMTT(20) DEF CheckPresigned
<1>10. ASSUME 1 <= c.expires, c.expires <= 604800, now > at + c.expires PROVE CheckPresigned(req, now) # 200
  BY <1>2, <1>3, <1>5, <1>7, <1>8, <1>10, SMTT(20) DEF CheckPresigned
<1>11. ASSUME 1 <= c.expires, c.expires <= 604800, now <= at + c.expires PROVE CheckPresigned(req, now) = 200
  BY <1>2, <1>3, <1>4, <1>5, <1>7, <1>8, <1>11, SMTT(20) DEF CheckPresigned
<1>. QED
  BY <1>2, <1>8, <1>9, <1>10, <1>11, SMTT(20)

----------------------------------------------------------------------------

\* The fields of a connection.
Fields == {"pc", "c", "req", "cut", "gone", "when", "age", "accepted", "handler", "to", "rd", "got",
           "todo", "found", "file", "size", "start", "remaining", "status", "sent", "page", "did"}

\* What a step leaves of a connection.
Kept(in, out) ==
    /\ DOMAIN out = Fields
    /\ out.c = in.c /\ out.req = in.req /\ out.cut = in.cut /\ out.when = in.when /\ out.age = in.age
    /\ out.accepted = in.accepted

\* What a step of a handler leaves of it, besides.
Served(in, out) ==
    /\ Kept(in, out) /\ out.gone = in.gone /\ out.page = in.page
    /\ out.handler = in.handler /\ out.to = in.to

\* A connection that carries nothing has the fields of any.
LEMMA IdleIs == DOMAIN Idle = Fields
  BY SMTT(20) DEF Idle, Fields

\* An answer changes nothing the connection is about.
LEMMA AnsweredIs ==
  ASSUME NEW in, DOMAIN in = Fields, NEW status
  PROVE  Served(in, Answered(in, status)) /\ Answered(in, status).pc = "answered"
  BY SMTT(20) DEF Served, Kept, Answered, Fields

\* Nor does setting up a reader.
LEMMA ReadingIs ==
  ASSUME NEW in, DOMAIN in = Fields, NEW rd
  PROVE  Served(in, Reading(in, rd)) /\ Reading(in, rd).pc = "body"
  BY SMTT(20) DEF Served, Kept, Reading, Fields

\* Nor does the status, or the history of changes.
LEMMA MarkedIs ==
  ASSUME NEW in, DOMAIN in = Fields, NEW x
  PROVE  /\ Served(in, [in EXCEPT !.status = x]) /\ [in EXCEPT !.status = x].pc = in.pc
         /\ Served(in, [in EXCEPT !.did = x]) /\ [in EXCEPT !.did = x].pc = in.pc
  BY SMTT(20) DEF Served, Kept, Fields

\* Two such steps are one.
LEMMA ServedTwice ==
  ASSUME NEW r, NEW s, NEW t, Served(r, s), Served(s, t)
  PROVE  Served(r, t)
  BY SMTT(20) DEF Served, Kept

\* A handler leaves what the connection is about, and waits at one of its steps.
Ready(name, in, h) ==
    /\ Served(in, h)
    /\ h.pc \in {"answered", "body", "send"} \/ (h.pc = "walk" /\ name = "listObjects")

\* Every handler keeps what the connection is about and leaves it at one of its waits;
\* only list_objects waits in a walk.
LEMMA HandlerServes ==
  ASSUME NEW name, NEW to, NEW req, NEW in, DOMAIN in = Fields
  PROVE  LET h == Handler(name, to, req, in) IN
         /\ Kept(in, h) /\ h.gone = in.gone /\ h.page = in.page /\ h.handler = name /\ h.to = to
         /\ h.pc \in {"answered", "body", "send"} \/ (h.pc = "walk" /\ name = "listObjects")
<1>1. PICK at : at = [in EXCEPT !.handler = name, !.to = to]
  BY Zenon
<1>2. Kept(in, at) /\ at.gone = in.gone /\ at.page = in.page /\ at.handler = name /\ at.to = to /\ DOMAIN at = Fields
  BY <1>1, SMTT(20) DEF Kept, Fields
<1>3. ASSUME NEW status, NEW did
      PROVE  Ready(name, at, Answered(at, status)) /\ Ready(name, at, [Answered(at, status) EXCEPT !.did = did])
  <2>1. PICK r : r = Answered(at, status)
    BY Zenon
  <2>2. Served(at, r) /\ r.pc = "answered" /\ DOMAIN r = Fields
    BY <1>2, <2>1, AnsweredIs, SMTT(20) DEF Served, Kept
  <2>3. PICK m : m = [r EXCEPT !.did = did]
    BY Zenon
  <2>4. Served(r, m) /\ m.pc = r.pc
    BY <2>2, <2>3, MarkedIs, Zenon
  <2>5. Served(at, m)
    BY <2>2, <2>4, ServedTwice, SMTT(20)
  <2>6. Ready(name, at, r) /\ Ready(name, at, m)
    BY <2>2, <2>4, <2>5, SMTT(20) DEF Ready
  <2>. QED
    BY <2>1, <2>3, <2>6, Zenon
<1>4. ASSUME NEW rd, NEW status
      PROVE  Ready(name, at, Reading(at, rd)) /\ Ready(name, at, [Reading(at, rd) EXCEPT !.status = status])
  <2>1. PICK r : r = Reading(at, rd)
    BY Zenon
  <2>2. Served(at, r) /\ r.pc = "body" /\ DOMAIN r = Fields
    BY <1>2, <2>1, ReadingIs, SMTT(20) DEF Served, Kept
  <2>3. PICK m : m = [r EXCEPT !.status = status]
    BY Zenon
  <2>4. Served(r, m) /\ m.pc = r.pc
    BY <2>2, <2>3, MarkedIs, Zenon
  <2>5. Served(at, m)
    BY <2>2, <2>4, ServedTwice, SMTT(20)
  <2>6. Ready(name, at, r) /\ Ready(name, at, m)
    BY <2>2, <2>4, <2>5, SMTT(20) DEF Ready
  <2>. QED
    BY <2>1, <2>3, <2>6, Zenon
<1>5. Ready(name, at, PutObject(to, req, at)) /\ Ready(name, at, DeleteObjects(req, at))
  BY <1>4, Zenon DEF PutObject, DeleteObjects
<1>6. ASSUME NEW headOnly PROVE Ready(name, at, GetObject(to, req, at, headOnly))
  <2>1. CASE There(to)
    <3>1. PICK file, span : /\ file = objs[Target(to.key)]
                            /\ span = Span(Get(req.lines, "range"), Len(objs[Target(to.key)]))
      BY Zenon
    <3>2. PICK pc : pc = IF span.status = 416 \/ headOnly THEN "answered" ELSE "send"
      BY Zenon
    <3>3. PICK h : h = [at EXCEPT !.pc = pc, !.got = <<>>, !.file = file, !.status = span.status,
                                  !.start = span.start, !.size = span.length, !.remaining = span.length]
      BY Zenon
    <3>4. GetObject(to, req, at, headOnly) = h
      BY <2>1, <3>1, <3>2, <3>3, SMTT(20) DEF GetObject
    <3>5. Served(at, h) /\ h.pc = pc
      BY <1>2, <3>3, SMTT(20) DEF Served, Kept, Fields
    <3>6. pc \in {"answered", "send"}
      BY <3>2, SMTT(20)
    <3>. QED
      BY <3>4, <3>5, <3>6, SMTT(20) DEF Ready
  <2>2. CASE ~There(to)
    BY <1>3, <2>2, Zenon DEF GetObject
  <2>. QED
    BY <2>1, <2>2, Zenon
<1>7. Ready(name, at, DeleteObject(to, at))
  BY <1>3, Zenon DEF DeleteObject
<1>8. name = "listObjects" => Ready(name, at, ListObjects(to, at))
  <2>1. PICK h : h = [at EXCEPT !.pc = "walk", !.todo = Listable(DOMAIN objs), !.got = <<>>]
    BY Zenon
  <2>2. Served(at, h) /\ h.pc = "walk"
    BY <1>2, <2>1, SMTT(20) DEF Served, Kept, Fields
  <2>3. name = "listObjects" => Ready(name, at, h)
    BY <2>2, SMTT(20) DEF Ready
  <2>. QED
    BY <1>3, <2>1, <2>3, Zenon DEF ListObjects
<1>9. Ready(name, at, Handler(name, to, req, in))
  BY <1>1, <1>3, <1>5, <1>6, <1>7, <1>8, Zenon DEF Handler
<1>. QED
  BY <1>2, <1>9, SMTT(20) DEF Ready, Served, Kept

\* The moment a request was signed at, and the moment it is.
Moment(when) == AmzSeconds(when.date, when.sec)
Now(at) == at.day * DaySeconds + at.sec

\* A request on its way: what its client means, whole or with a connection that is
\* gone, and of the age it says.
Carried(x, w, now) ==
    /\ x.c \in w.sends
    /\ x.cut = "no" => x.req = Request(x.c, x.req.ask, x.when)
    /\ x.cut # "no" => x.gone
    /\ Moment(x.when) \in Nat /\ x.age \in Int /\ Moment(x.when) + x.age = now

Undecided(x) == x.accepted = FALSE /\ x.page = None

\* A request that was accepted or refused.
Intended(x) ==
    x.accepted /\ x.cut = "no" => x.handler = x.c.op /\ x.to = [bucket |-> x.c.bucket, key |-> x.c.key]
Honest(x) ==
    x.cut = "no" /\ x.c.formed /\ x.c.by \in AccessKeys /\ x.c.auth = "header" => x.accepted
Timely(expires, age) == 1 <= expires /\ expires <= 604800 /\ age <= expires
InTime(x, w) ==
    ~w.anonymous /\ x.cut = "no" /\ x.c.auth = "presigned" /\ x.c.formed /\ x.c.by \in AccessKeys =>
        (x.accepted <=> Timely(x.c.expires, x.age))
Listed(x) == x.pc = "walk" \/ x.page # None => x.accepted /\ x.handler = "listObjects"
Judged(x, w) == Intended(x) /\ Honest(x) /\ InTime(x, w) /\ Listed(x)

\* The clock shows a moment of the date it is.
ClockInv ==
    /\ env \in Worlds
    /\ DOMAIN clock = {"day", "sec"} /\ clock.day \in Nat /\ clock.sec \in Nat /\ clock.sec < DaySeconds
    /\ date = CivilFromDays(clock.day)

\* What is true of the connection at each of its steps.
ConnInv ==
    /\ DOMAIN conn = Fields
    /\ conn.pc \in {"idle", "signed", "sent", "body", "read", "send", "walk", "answered"}
    /\ conn.pc # "idle" => Carried(conn, env, Now(clock))
    /\ conn.pc \in {"signed", "sent"} => Undecided(conn)
    /\ conn.pc = "signed" => conn.cut = "no"
    /\ Decided => Judged(conn, env)

\* The listing that is followed is of a request some client sends.
ListingInv ==
    /\ DOMAIN listing = {"next", "c", "pages", "markers", "kept"}
    /\ listing.next # None => listing.c \in env.sends
    /\ conn.pc # "idle" /\ conn.c.op = "listObjects" => listing.c \in env.sends

\* The inductive invariant: what a client means and what the server holds of it agree
\* from the signature to the answer.
ServerInv == ClockInv /\ ConnInv /\ ListingInv

\* It holds where every behaviour starts.
LEMMA InitInv == Init => ServerInv
<1>. SUFFICES ASSUME Init PROVE ServerInv
  BY Zenon
<1>1. /\ env \in Worlds /\ clock = [day |-> env.day, sec |-> env.sec] /\ date = env.date
      /\ conn = Idle /\ listing = NoListing
  BY Zenon DEF Init
<1>2. /\ env.day \in Nat /\ env.date = CivilFromDays(env.day)
      /\ env.sec \in 0..(DaySeconds - 1)
  BY <1>1, WorldAssumption, Zenon
<1>3. ClockInv
  <2>1. DaySeconds \in Nat
    BY SMTT(20) DEF DaySeconds
  <2>2. env.sec \in Nat /\ env.sec < DaySeconds
    BY <1>2, <2>1, SMTT(20)
  <2>3. DOMAIN clock = {"day", "sec"} /\ clock.day = env.day /\ clock.sec = env.sec
    BY <1>1, SMTT(20)
  <2>. QED
    BY <1>1, <1>2, <2>2, <2>3, Zenon DEF ClockInv
<1>4. conn.pc = "idle" /\ DOMAIN conn = Fields
  BY <1>1, IdleIs, SMTT(20) DEF Idle
<1>5. ConnInv
  BY <1>4, SMTT(20) DEF ConnInv, Decided
<1>6. ListingInv
  BY <1>1, <1>4, SMTT(20) DEF ListingInv, NoListing
<1>. QED
  BY <1>3, <1>5, <1>6, Zenon DEF ServerInv

\* The moment a date and a second of its day are.
LEMMA MomentIs ==
  ASSUME NEW day \in Nat, NEW sec \in Nat, NEW when, when = [date |-> CivilFromDays(day), sec |-> sec]
  PROVE  Moment(when) = day * DaySeconds + sec /\ Moment(when) \in Nat
<1>1. DaysFromCivil(CivilFromDays(day)) = day
  BY DaysOfCivil, SMTT(20)
<1>2. when.date = CivilFromDays(day) /\ when.sec = sec
  BY SMTT(20)
<1>3. Moment(when) = IF day * DaySeconds + sec < 0 THEN -1 ELSE day * DaySeconds + sec
  BY <1>1, <1>2, SMTT(20) DEF Moment, AmzSeconds
<1>. QED
  BY <1>3, SMTT(20) DEF DaySeconds

\* A request that is signed now, or a day ahead, has the age it says.
LEMMA SignStep == ServerInv /\ SignRequest => ServerInv'
<1>. SUFFICES ASSUME ServerInv, SignRequest PROVE ServerInv'
  BY Zenon
<1>1. UNCHANGED <<env, objs, clock, date>> /\ ClockInv /\ ListingInv /\ ConnInv
  BY Zenon DEF SignRequest, ServerInv
<1>2. ClockInv'
  BY <1>1, SMTT(20) DEF ClockInv
<1>0. PICK c \in IF listing.next # None THEN {listing.c} ELSE env.sends : \E ask, when :
         /\ when = [date |-> IF c.skew = 0 THEN date ELSE NextDay(date), sec |-> clock.sec]
         /\ conn' = [Idle EXCEPT !.pc = "signed", !.c = c, !.when = when,
                                 !.age = IF c.skew = 0 THEN 0 ELSE -DaySeconds, !.req = Request(c, ask, when)]
         /\ listing' = IF c.op # "listObjects" \/ listing.next # None THEN listing
                       ELSE [NoListing EXCEPT !.c = c, !.kept = DOMAIN objs]
  <2>. DEFINE asked(c) == IF listing.next = None THEN c.ask
                          ELSE IF c.ask.v2 THEN [c.ask EXCEPT !.token = listing.next]
                          ELSE [c.ask EXCEPT !.marker = listing.next]
              at(c) == [date |-> IF c.skew = 0 THEN date ELSE NextDay(date), sec |-> clock.sec]
  <2>1. PICK c \in IF listing.next # None THEN {listing.c} ELSE env.sends :
           /\ conn' = [Idle EXCEPT !.pc = "signed", !.c = c, !.when = at(c),
                                   !.age = IF c.skew = 0 THEN 0 ELSE -DaySeconds, !.req = Request(c, asked(c), at(c))]
           /\ listing' = IF c.op # "listObjects" \/ listing.next # None THEN listing
                         ELSE [NoListing EXCEPT !.c = c, !.kept = DOMAIN objs]
    BY Zenon DEF SignRequest
  <2>2. PICK ask, when : ask = asked(c) /\ when = at(c)
    BY Zenon
  <2>. QED
    BY <2>1, <2>2, Zenon
<1>3. PICK ask, when :
         /\ when = [date |-> IF c.skew = 0 THEN date ELSE NextDay(date), sec |-> clock.sec]
         /\ conn' = [Idle EXCEPT !.pc = "signed", !.c = c, !.when = when,
                                 !.age = IF c.skew = 0 THEN 0 ELSE -DaySeconds, !.req = Request(c, ask, when)]
         /\ listing' = IF c.op # "listObjects" \/ listing.next # None THEN listing
                       ELSE [NoListing EXCEPT !.c = c, !.kept = DOMAIN objs]
  BY <1>0, Zenon
<1>4. c \in env.sends /\ Sendable(c)
  <2>1. c \in env.sends
    BY <1>0, <1>1, Zenon DEF ListingInv
  <2>. QED
    BY <1>1, <2>1, WorldAssumption, Zenon DEF ClockInv
<1>5. /\ DOMAIN conn' = Fields /\ conn'.pc = "signed" /\ conn'.c = c /\ conn'.when = when
      /\ conn'.age = (IF c.skew = 0 THEN 0 ELSE -DaySeconds) /\ conn'.req = Request(c, ask, when)
      /\ conn'.cut = "no" /\ conn'.accepted = FALSE /\ conn'.page = None
  BY <1>3, SMTT(20) DEF Idle, Fields
<1>6. Moment(when) \in Nat /\ conn'.age \in Int /\ Moment(when) + conn'.age = Now(clock)
  <2>1. clock.day \in Nat /\ clock.sec \in Nat /\ date = CivilFromDays(clock.day)
    BY <1>1, Zenon DEF ClockInv
  <2>2. CASE c.skew = 0
    <3>1. when = [date |-> CivilFromDays(clock.day), sec |-> clock.sec]
      BY <1>3, <2>1, <2>2, Zenon
    <3>2. Moment(when) = clock.day * DaySeconds + clock.sec /\ Moment(when) \in Nat
      BY <2>1, <3>1, MomentIs, Zenon
    <3>3. conn'.age = 0
      BY <1>5, <2>2, Zenon
    <3>. QED
      BY <3>2, <3>3, SMTT(20) DEF Now
  <2>3. CASE c.skew = 1
    <3>1. NextDay(date) = CivilFromDays(clock.day + 1)
      BY <2>1, CivilFollowsCalendar, SMTT(20)
    <3>2. when = [date |-> CivilFromDays(clock.day + 1), sec |-> clock.sec]
      BY <1>3, <2>3, <3>1, SMTT(20)
    <3>3. clock.day + 1 \in Nat
      BY <2>1, SMTT(20)
    <3>4. Moment(when) = (clock.day + 1) * DaySeconds + clock.sec /\ Moment(when) \in Nat
      BY <2>1, <3>2, <3>3, MomentIs, Zenon
    <3>5. conn'.age = -DaySeconds
      BY <1>5, <2>3, SMTT(20)
    <3>. QED
      BY <2>1, <3>4, <3>5, SMTT(20) DEF Now, DaySeconds
  <2>. QED
    BY <1>4, <2>2, <2>3, SMTT(20) DEF Sendable
<1>7. Request(c, ask, when).ask = ask
  BY SMTT(20) DEF Request
<1>8. Carried(conn', env, Now(clock))
  BY <1>4, <1>5, <1>6, <1>7, SMTT(20) DEF Carried
<1>9. ConnInv'
  BY <1>1, <1>5, <1>8, SMTT(20) DEF ConnInv, Undecided, Decided
<1>10. ListingInv'
  <2>1. CASE c.op # "listObjects" \/ listing.next # None
    BY <1>1, <1>3, <1>4, <1>5, <2>1, SMTT(20) DEF ListingInv
  <2>2. CASE c.op = "listObjects" /\ listing.next = None
    <3>1. listing' = [NoListing EXCEPT !.c = c, !.kept = DOMAIN objs]
      BY <1>3, <2>2, Zenon
    <3>2. DOMAIN listing' = {"next", "c", "pages", "markers", "kept"} /\ listing'.c = c /\ listing'.next = None
      BY <3>1, SMTT(20) DEF NoListing
    <3>. QED
      BY <1>1, <1>4, <1>5, <3>2, SMTT(20) DEF ListingInv
  <2>. QED
    BY <2>1, <2>2, Zenon
<1>. QED
  BY <1>2, <1>9, <1>10, Zenon DEF ServerInv

\* What a step that leaves the time, the world and the listing keeps.
Still == UNCHANGED <<env, clock, date, listing>>

\* A step of the connection alone needs to be looked at there only.
LEMMA StillKeeps ==
  ASSUME ServerInv, Still, conn'.pc # "idle" => conn.pc # "idle" /\ conn'.c = conn.c, ConnInv'
  PROVE  ServerInv'
<1>1. ClockInv /\ ListingInv
  BY Zenon DEF ServerInv
<1>2. ClockInv'
  BY <1>1, SMTT(20) DEF ClockInv, Still
<1>3. ListingInv'
  BY <1>1, SMTT(20) DEF ListingInv, Still
<1>. QED
  BY <1>2, <1>3, Zenon DEF ServerInv

\* What is sent is what was signed, or its connection is gone.
LEMMA SendStep == ServerInv /\ Send => ServerInv'
<1>. SUFFICES ASSUME ServerInv, Send PROVE ServerInv'
  BY Zenon
<1>1. Still /\ conn.pc = "signed"
  BY Zenon DEF Send, Still
<1>2. ConnInv
  BY Zenon DEF ServerInv
<1>3. DOMAIN conn = Fields /\ Carried(conn, env, Now(clock)) /\ Undecided(conn) /\ conn.cut = "no"
  BY <1>1, <1>2, SMTT(20) DEF ConnInv
<1>4. \/ \E w, gone : conn' = [conn EXCEPT !.pc = "sent", !.got = w, !.gone = gone]
      \/ \E r, cut : cut # "no" /\ conn' = [conn EXCEPT !.pc = "sent", !.req = r, !.cut = cut, !.gone = TRUE]
  <2>1. \/ \E w \in Delivered(conn.c) :
              conn' = [conn EXCEPT !.pc = "sent", !.got = w, !.gone = (conn.c.fault \in {"cut", "torn"})]
        \/ \E r \in BrokenHeads(conn.req) :
              conn' = [conn EXCEPT !.pc = "sent", !.req = r, !.cut = "head", !.gone = TRUE]
        \/ \E r \in BrokenLines(conn.req) :
              conn' = [conn EXCEPT !.pc = "sent", !.req = r, !.cut = "line", !.gone = TRUE]
    BY Zenon DEF Send
  <2>2. PICK gone : gone = (conn.c.fault \in {"cut", "torn"})
    BY Zenon
  <2>3. "head" # "no" /\ "line" # "no"
    BY SMTT(20)
  <2>. QED
    BY <2>1, <2>2, <2>3, Zenon
<1>5. /\ DOMAIN conn' = Fields /\ conn'.pc = "sent" /\ Carried(conn', env, Now(clock)) /\ Undecided(conn')
      /\ conn'.c = conn.c
  <2>1. CASE \E w, gone : conn' = [conn EXCEPT !.pc = "sent", !.got = w, !.gone = gone]
    BY <1>3, <2>1, SMTT(20) DEF Fields, Carried, Undecided
  <2>2. CASE \E r, cut : cut # "no" /\ conn' = [conn EXCEPT !.pc = "sent", !.req = r, !.cut = cut, !.gone = TRUE]
    BY <1>3, <2>2, SMTT(20) DEF Fields, Carried, Undecided
  <2>. QED
    BY <1>4, <2>1, <2>2, Zenon
<1>6. ConnInv'
  BY <1>1, <1>5, SMTT(20) DEF ConnInv, Decided, Still
<1>. QED
  BY <1>1, <1>5, <1>6, StillKeeps, SMTT(20)

\* A request that was judged stays so while it is served.
LEMMA Onward ==
  ASSUME ServerInv, Still, Decided, Kept(conn, conn'), conn.gone => conn'.gone,
         conn'.handler = conn.handler, conn'.to = conn.to, 
         conn'.pc = "walk" => conn.pc = "walk",
         conn'.page = conn.page \/ conn.pc = "walk",
         conn'.pc \in {"body", "read", "send", "walk", "answered"}
  PROVE  ServerInv'
<1>1. ConnInv /\ Carried(conn, env, Now(clock)) /\ Judged(conn, env)
  BY SMTT(20) DEF ServerInv, ConnInv, Decided
<1>2. Carried(conn', env, Now(clock))
  BY <1>1, SMTT(20) DEF Carried, Kept
<1>3. Intended(conn') /\ Honest(conn') /\ InTime(conn', env)
  BY <1>1, SMTT(20) DEF Judged, Intended, Honest, InTime, Kept
<1>4. Listed(conn')
  BY <1>1, SMTT(20) DEF Judged, Listed, Kept
<1>5. ConnInv'
  BY <1>1, <1>2, <1>3, <1>4, SMTT(20) DEF ConnInv, Decided, Still, Judged, Kept
<1>6. conn'.c = conn.c /\ conn.pc # "idle"
  BY SMTT(20) DEF Kept, Decided
<1>. QED
  BY <1>5, <1>6, StillKeeps, Zenon

\* Reading the body keeps it.
LEMMA ReadBodyStep == ServerInv /\ ReadBody => ServerInv'
<1>. SUFFICES ASSUME ServerInv, ReadBody PROVE ServerInv'
  BY Zenon
<1>1. Still /\ conn.pc = "body" /\ DOMAIN conn = Fields
  BY Zenon DEF ReadBody, Still, ServerInv, ConnInv
<1>2. \/ \E r, pc : pc \in {"read", "body"} /\ conn' = [conn EXCEPT !.rd = r.rd, !.got = conn.got \o r.got, !.pc = pc]
      \/ conn' = [conn EXCEPT !.pc = "answered", !.status = 500]
  <2>1. PICK r : r = Read(conn.rd)
    BY Zenon
  <2>2. PICK pc : pc = IF r.got = <<>> THEN "read" ELSE "body"
    BY Zenon
  <2>3. pc \in {"read", "body"}
    BY <2>2, SMTT(20)
  <2>4. \/ conn' = [conn EXCEPT !.rd = r.rd, !.got = conn.got \o r.got, !.pc = pc]
        \/ conn' = [conn EXCEPT !.pc = "answered", !.status = 500]
    BY <2>1, <2>2, Zenon DEF ReadBody, Answer
  <2>. QED
    BY <2>3, <2>4, Zenon
<1>3. Served(conn, conn') /\ conn'.pc \in {"read", "body", "answered"}
  <2>1. CASE \E r, pc : pc \in {"read", "body"} /\ conn' = [conn EXCEPT !.rd = r.rd, !.got = conn.got \o r.got, !.pc = pc]
    BY <1>1, <2>1, SMTT(20) DEF Served, Kept, Fields
  <2>2. CASE conn' = [conn EXCEPT !.pc = "answered", !.status = 500]
    BY <1>1, <2>2, SMTT(20) DEF Served, Kept, Fields
  <2>. QED
    BY <1>2, <2>1, <2>2, Zenon
<1>. QED
  BY <1>1, <1>3, Onward, SMTT(20) DEF Served, Decided

\* So does the end of a put,
LEMMA CommitStep == ServerInv /\ Commit => ServerInv'
<1>. SUFFICES ASSUME ServerInv, Commit PROVE ServerInv'
  BY Zenon
<1>1. Still /\ conn.pc = "read" /\ DOMAIN conn = Fields
  BY Zenon DEF Commit, Still, ServerInv, ConnInv
<1>2. \/ \E did : conn' = [conn EXCEPT !.pc = "answered", !.status = 200, !.did = did]
      \/ \E status : conn' = [conn EXCEPT !.pc = "answered", !.status = status]
  BY Zenon DEF Commit, Answer
<1>3. Served(conn, conn') /\ conn'.pc = "answered"
  <2>1. CASE \E did : conn' = [conn EXCEPT !.pc = "answered", !.status = 200, !.did = did]
    BY <1>1, <2>1, SMTT(20) DEF Served, Kept, Fields
  <2>2. CASE \E status : conn' = [conn EXCEPT !.pc = "answered", !.status = status]
    BY <1>1, <2>2, SMTT(20) DEF Served, Kept, Fields
  <2>. QED
    BY <1>2, <2>1, <2>2, Zenon
<1>. QED
  BY <1>1, <1>3, Onward, SMTT(20) DEF Served, Decided

\* each deletion of a list,
LEMMA DeleteNextStep == ServerInv /\ DeleteNext => ServerInv'
<1>. SUFFICES ASSUME ServerInv, DeleteNext PROVE ServerInv'
  BY Zenon
<1>1. Still /\ conn.pc = "read" /\ DOMAIN conn = Fields
  BY Zenon DEF DeleteNext, Still, ServerInv, ConnInv
<1>2. \/ \E got, did : conn' = [conn EXCEPT !.got = got, !.did = did]
      \/ conn' = [conn EXCEPT !.pc = "answered", !.status = 200]
  <2>1. CASE Items(conn.got) = {}
    BY <2>1, Zenon DEF DeleteNext, Answer
  <2>2. CASE Items(conn.got) # {}
    <3>1. PICK gone, i :
            conn' = [conn EXCEPT !.got = IF Items(conn.got) = {i} THEN <<>> ELSE SubSeq(conn.got, i + 1, Len(conn.got)),
                                 !.did = @ \cup {<<g, None>> : g \in gone}]
      BY <2>2, Zenon DEF DeleteNext
    <3>2. PICK got : got = IF Items(conn.got) = {i} THEN <<>> ELSE SubSeq(conn.got, i + 1, Len(conn.got))
      BY Zenon
    <3>3. PICK did : did = conn.did \cup {<<g, None>> : g \in gone}
      BY Zenon
    <3>. QED
      BY <3>1, <3>2, <3>3, Zenon
  <2>. QED
    BY <2>1, <2>2, Zenon
<1>3. Served(conn, conn') /\ conn'.pc \in {"read", "answered"}
  <2>1. CASE \E got, did : conn' = [conn EXCEPT !.got = got, !.did = did]
    BY <1>1, <2>1, SMTT(20) DEF Served, Kept, Fields
  <2>2. CASE conn' = [conn EXCEPT !.pc = "answered", !.status = 200]
    BY <1>1, <2>2, SMTT(20) DEF Served, Kept, Fields
  <2>. QED
    BY <1>2, <2>1, <2>2, Zenon
<1>. QED
  BY <1>1, <1>3, Onward, SMTT(20) DEF Served, Decided

\* each block of an answer, or the client's leaving in the middle of it,
LEMMA SendBlockStep == ServerInv /\ SendBlock => ServerInv'
<1>. SUFFICES ASSUME ServerInv, SendBlock PROVE ServerInv'
  BY Zenon
<1>1. Still /\ conn.pc = "send" /\ DOMAIN conn = Fields
  BY Zenon DEF SendBlock, Still, ServerInv, ConnInv
<1>2. \/ \E sent, remaining : conn' = [conn EXCEPT !.sent = sent, !.remaining = remaining]
      \/ conn' = [conn EXCEPT !.pc = "answered"]
      \/ conn' = Idle
  BY Zenon DEF SendBlock, Goto
<1>3. CASE conn' = Idle
  <2>1. conn'.pc = "idle" /\ DOMAIN conn' = Fields
    BY <1>3, IdleIs, SMTT(20) DEF Idle
  <2>2. ConnInv'
    BY <2>1, SMTT(20) DEF ConnInv, Decided
  <2>. QED
    BY <1>1, <2>1, <2>2, StillKeeps, Zenon
<1>4. CASE conn' # Idle
  <2>1. Served(conn, conn') /\ conn'.pc \in {"send", "answered"}
    <3>1. CASE \E sent, remaining : conn' = [conn EXCEPT !.sent = sent, !.remaining = remaining]
      BY <1>1, <3>1, SMTT(20) DEF Served, Kept, Fields
    <3>2. CASE conn' = [conn EXCEPT !.pc = "answered"]
      BY <1>1, <3>2, SMTT(20) DEF Served, Kept, Fields
    <3>. QED
      BY <1>2, <1>4, <3>1, <3>2, Zenon
  <2>. QED
    BY <1>1, <2>1, Onward, SMTT(20) DEF Served, Decided
<1>. QED
  BY <1>3, <1>4, Zenon

\* each entry of a directory,
LEMMA WalkStep == ServerInv /\ Walk => ServerInv'
<1>. SUFFICES ASSUME ServerInv, Walk PROVE ServerInv'
  BY Zenon
<1>1. Still /\ conn.pc = "walk" /\ DOMAIN conn = Fields
  BY Zenon DEF Walk, Still, ServerInv, ConnInv
<1>2. \/ \E todo, found : conn' = [conn EXCEPT !.todo = todo, !.found = found]
      \/ \E todo : conn' = [conn EXCEPT !.todo = todo]
      \/ \E found : conn' = [conn EXCEPT !.found = found]
      \/ conn' = [conn EXCEPT !.pc = "answered", !.status = 500]
  BY Zenon DEF Walk, Answer
<1>3. Served(conn, conn') /\ conn'.pc \in {"walk", "answered"}
  <2>1. CASE \E todo, found : conn' = [conn EXCEPT !.todo = todo, !.found = found]
    BY <1>1, <2>1, SMTT(20) DEF Served, Kept, Fields
  <2>2. CASE \E todo : conn' = [conn EXCEPT !.todo = todo]
    BY <1>1, <2>2, SMTT(20) DEF Served, Kept, Fields
  <2>3. CASE \E found : conn' = [conn EXCEPT !.found = found]
    BY <1>1, <2>3, SMTT(20) DEF Served, Kept, Fields
  <2>4. CASE conn' = [conn EXCEPT !.pc = "answered", !.status = 500]
    BY <1>1, <2>4, SMTT(20) DEF Served, Kept, Fields
  <2>. QED
    BY <1>2, <2>1, <2>2, <2>3, <2>4, Zenon
<1>. QED
  BY <1>1, <1>3, Onward, SMTT(20) DEF Served, Decided

\* the page made of them,
LEMMA ListPageStep == ServerInv /\ ListPage => ServerInv'
<1>. SUFFICES ASSUME ServerInv, ListPage PROVE ServerInv'
  BY Zenon
<1>1. Still /\ conn.pc = "walk" /\ DOMAIN conn = Fields
  BY Zenon DEF ListPage, Still, ServerInv, ConnInv
<1>2. \E page : conn' = [conn EXCEPT !.pc = "answered", !.status = 200, !.page = page]
  BY Zenon DEF ListPage
<1>3. /\ Kept(conn, conn') /\ conn'.gone = conn.gone /\ conn'.handler = conn.handler /\ conn'.to = conn.to
      /\ conn'.pc = "answered"
  BY <1>1, <1>2, SMTT(20) DEF Kept, Fields
<1>. QED
  BY <1>1, <1>3, Onward, SMTT(20) DEF Decided

\* and a client that goes away, whose request was whole or not as before.
LEMMA HangupStep == ServerInv /\ Hangup => ServerInv'
<1>. SUFFICES ASSUME ServerInv, Hangup PROVE ServerInv'
  BY Zenon
<1>1. /\ Still /\ conn.pc \notin {"idle", "signed"} /\ DOMAIN conn = Fields /\ ConnInv
      /\ conn' = [conn EXCEPT !.gone = TRUE]
  BY Zenon DEF Hangup, Still, ServerInv, ConnInv
<1>2. /\ Kept(conn, conn') /\ conn'.gone /\ conn'.handler = conn.handler /\ conn'.to = conn.to
      /\ conn'.pc = conn.pc /\ conn'.page = conn.page
  BY <1>1, SMTT(20) DEF Kept, Fields
<1>3. CASE conn.pc = "sent"
  <2>1. Carried(conn', env, Now(clock)) /\ Undecided(conn')
    BY <1>1, <1>2, <1>3, SMTT(20) DEF Carried, Undecided, Kept, ConnInv
  <2>2. ConnInv'
    BY <1>1, <1>2, <1>3, <2>1, SMTT(20) DEF ConnInv, Still, Kept, Decided
  <2>. QED
    BY <1>1, <1>2, <2>2, StillKeeps, SMTT(20) DEF Kept
<1>4. CASE conn.pc # "sent"
  <2>1. conn.pc \in {"body", "read", "send", "walk", "answered"}
    BY <1>1, <1>4, SMTT(20) DEF ConnInv
  <2>. QED
    BY <1>1, <1>2, <1>4, <2>1, Onward, SMTT(20) DEF Decided
<1>. QED
  BY <1>3, <1>4, Zenon

\* What authentication says of a request that arrives whole and is signed with a key
\* the server knows.
LEMMA Authenticated ==
  ASSUME ServerInv, conn.pc = "sent", conn.cut = "no", conn.c.formed, conn.c.by \in AccessKeys,
         NEW verdict, verdict = Authenticate(conn.req, Now(clock), env.anonymous)
  PROVE  /\ conn.c.auth = "header" => verdict = 200
         /\ ~env.anonymous /\ conn.c.auth = "presigned" =>
               (verdict = 200 <=> Timely(conn.c.expires, conn.age))
<1>1. /\ ClockInv /\ Carried(conn, env, Now(clock))
  BY SMTT(20) DEF ServerInv, ConnInv
<1>2. Sendable(conn.c)
  BY <1>1, WorldAssumption, Zenon DEF ClockInv, Carried
<1>3. PICK c, ask, when, req : c = conn.c /\ ask = conn.req.ask /\ when = conn.when /\ req = conn.req
  BY Zenon
<1>4. req = Request(c, ask, when) /\ Sendable(c) /\ c.formed /\ c.by \in AccessKeys
  BY <1>1, <1>2, <1>3, Zenon DEF Carried
<1>5. c.auth = "header" => verdict = 200
  <2>1. SUFFICES ASSUME c.auth = "header" PROVE verdict = 200
    BY Zenon
  <2>2. ~IsPresigned(req) /\ CheckHeader(req) = 200
    BY <1>4, <2>1, HeaderAccepted, SMTT(20)
  <2>. QED
    BY <1>3, <2>2, Zenon DEF Authenticate
<1>6. ASSUME ~env.anonymous, c.auth = "presigned"
      PROVE  verdict = 200 <=> Timely(c.expires, conn.age)
  <2>1. PICK at, now : at = Moment(when) /\ now = Now(clock)
    BY Zenon
  <2>2. at \in Nat /\ conn.age \in Int /\ at + conn.age = now /\ at = AmzSeconds(when.date, when.sec)
    BY <1>1, <1>3, <2>1, Zenon DEF Carried, Moment
  <2>3. now \in Int /\ c.expires \in Int
    BY <1>4, <2>2, SMTT(20) DEF Sendable
  <2>4. IsPresigned(req) /\ (CheckPresigned(req, now) = 200 <=> Timely(c.expires, now - at))
    BY <1>4, <1>6, <2>2, <2>3, PresignedAccepted, SMTT(20) DEF Timely
  <2>5. verdict = CheckPresigned(req, now)
    BY <1>3, <1>6, <2>1, <2>4, Zenon DEF Authenticate
  <2>6. now - at = conn.age
    BY <2>2, <2>3, SMTT(20)
  <2>. QED
    BY <2>4, <2>5, <2>6, SMTT(20)
<1>. QED
  BY <1>3, <1>5, <1>6, Zenon

\* The step that decides: a whole request is authenticated as it was signed, and
\* leads to its own handler with its own bucket and key.
LEMMA AcceptStep == ServerInv /\ Accept => ServerInv'
<1>. SUFFICES ASSUME ServerInv, Accept PROVE ServerInv'
  BY Zenon
<1>1. /\ Still /\ conn.pc = "sent" /\ ConnInv /\ DOMAIN conn = Fields
      /\ Carried(conn, env, Now(clock)) /\ Undecided(conn)
  BY SMTT(20) DEF Accept, Still, ServerInv, ConnInv
<1>2. PICK verdict, to, name, in :
         /\ verdict = Authenticate(conn.req, Now(clock), env.anonymous)
         /\ to = Addressing(Get(conn.req.lines, "host"), Decode(conn.req.path))
         /\ name = Route(conn.req, to)
         /\ in = [conn EXCEPT !.accepted = TRUE]
  BY Zenon
<1>3. \/ verdict = 200 /\ conn' = Handler(name, to, conn.req, in)
      \/ verdict # 200 /\ conn' = Answered(conn, verdict)
  BY <1>2, Zenon DEF Accept, Now
<1>4. conn.cut = "no" => to = [bucket |-> conn.c.bucket, key |-> conn.c.key] /\ name = conn.c.op
  <2>1. SUFFICES ASSUME conn.cut = "no"
                 PROVE  to = [bucket |-> conn.c.bucket, key |-> conn.c.key] /\ name = conn.c.op
    BY Zenon
  <2>2. Sendable(conn.c)
    BY <1>1, WorldAssumption, Zenon DEF ServerInv, ClockInv, Carried
  <2>3. PICK ask, when : ask = conn.req.ask /\ when = conn.when
    BY Zenon
  <2>4. conn.req = Request(conn.c, ask, when)
    BY <1>1, <2>1, <2>3, Zenon DEF Carried
  <2>. QED
    BY <1>2, <2>2, <2>4, Routed, SMTT(20)
<1>5. CASE verdict = 200 /\ conn' = Handler(name, to, conn.req, in)
  <2>1. /\ DOMAIN in = Fields /\ Kept([conn EXCEPT !.accepted = TRUE], in) /\ in.accepted = TRUE /\ in.page = None
        /\ in.c = conn.c /\ in.cut = conn.cut /\ in.req = conn.req /\ in.when = conn.when /\ in.age = conn.age
        /\ in.gone = conn.gone
    BY <1>1, <1>2, SMTT(20) DEF Kept, Fields, Undecided
  <2>2. /\ Kept(in, conn') /\ conn'.gone = in.gone /\ conn'.page = in.page /\ conn'.handler = name /\ conn'.to = to
        /\ conn'.pc \in {"answered", "body", "send"} \/ (conn'.pc = "walk" /\ name = "listObjects")
    BY <1>5, <2>1, HandlerServes, SMTT(20)
  <2>3. /\ DOMAIN conn' = Fields /\ conn'.c = conn.c /\ conn'.cut = conn.cut /\ conn'.req = conn.req
        /\ conn'.when = conn.when /\ conn'.age = conn.age /\ conn'.accepted = TRUE /\ conn'.page = None
        /\ conn'.gone = conn.gone
    BY <2>1, <2>2, SMTT(20) DEF Kept
  <2>4. Carried(conn', env, Now(clock))
    BY <1>1, <2>3, SMTT(20) DEF Carried
  <2>5. Intended(conn') /\ Honest(conn')
    BY <1>4, <2>2, <2>3, SMTT(20) DEF Intended, Honest
  <2>6. InTime(conn', env)
    <3>1. SUFFICES ASSUME ~env.anonymous, conn.cut = "no", conn.c.auth = "presigned", conn.c.formed,
                          conn.c.by \in AccessKeys
                   PROVE  Timely(conn.c.expires, conn.age)
      BY <2>3, SMTT(20) DEF InTime
    <3>. QED
      BY <1>1, <1>2, <1>5, <3>1, Authenticated, Zenon
  <2>7. Listed(conn')
    BY <2>2, <2>3, SMTT(20) DEF Listed
  <2>8. ConnInv'
    BY <1>1, <2>2, <2>3, <2>4, <2>5, <2>6, <2>7, SMTT(20) DEF ConnInv, Judged, Decided, Still
  <2>. QED
    BY <1>1, <2>3, <2>8, StillKeeps, SMTT(20)
<1>6. CASE verdict # 200 /\ conn' = Answered(conn, verdict)
  <2>1. Served(conn, conn') /\ conn'.pc = "answered"
    BY <1>1, <1>6, AnsweredIs, Zenon
  <2>2. Carried(conn', env, Now(clock))
    BY <1>1, <2>1, SMTT(20) DEF Carried, Served, Kept
  <2>3. conn'.accepted = FALSE /\ conn'.page = None /\ conn'.c = conn.c /\ conn'.cut = conn.cut /\ conn'.age = conn.age
    BY <1>1, <2>1, SMTT(20) DEF Served, Kept, Undecided
  <2>4. Intended(conn') /\ Listed(conn')
    BY <2>1, <2>3, SMTT(20) DEF Intended, Listed
  <2>5. Honest(conn')
    <3>1. SUFFICES ASSUME conn.cut = "no", conn.c.auth = "header", conn.c.formed, conn.c.by \in AccessKeys
                   PROVE  verdict = 200
      BY <1>6, <2>3, SMTT(20) DEF Honest
    <3>. QED
      BY <1>1, <1>2, <3>1, Authenticated, Zenon
  <2>6. InTime(conn', env)
    <3>1. SUFFICES ASSUME ~env.anonymous, conn.cut = "no", conn.c.auth = "presigned", conn.c.formed,
                          conn.c.by \in AccessKeys
                   PROVE  ~Timely(conn.c.expires, conn.age)
      BY <2>3, SMTT(20) DEF InTime
    <3>. QED
      BY <1>1, <1>2, <1>6, <3>1, Authenticated, Zenon
  <2>7. ConnInv'
    BY <1>1, <2>1, <2>2, <2>4, <2>5, <2>6, SMTT(20) DEF ConnInv, Judged, Decided, Still, Served, Kept
  <2>. QED
    BY <1>1, <2>3, <2>7, StillKeeps, SMTT(20)
<1>. QED
  BY <1>3, <1>5, <1>6, Zenon

\* The answer ends the request; sent once more, it is as old as it was.
LEMMA ReceiveStep == ServerInv /\ Receive => ServerInv'
<1>. SUFFICES ASSUME ServerInv, Receive PROVE ServerInv'
  BY Zenon
<1>1. /\ UNCHANGED <<env, clock, date>> /\ conn.pc = "answered" /\ ClockInv /\ ConnInv /\ ListingInv
      /\ Carried(conn, env, Now(clock)) /\ Judged(conn, env)
  BY SMTT(20) DEF Receive, ServerInv, ConnInv, Decided
<1>2. ClockInv'
  BY <1>1, SMTT(20) DEF ClockInv
<1>3. \/ conn' = Idle
      \/ /\ conn.cut = "no"
         /\ conn' = [Idle EXCEPT !.pc = "signed", !.c = conn.c, !.when = conn.when,
                                 !.req = conn.req, !.age = conn.age]
  BY Zenon DEF Receive
<1>4. conn'.pc # "idle" => conn'.c = conn.c
  <2>1. CASE conn' = Idle
    BY <2>1, SMTT(20) DEF Idle
  <2>2. CASE conn' = [Idle EXCEPT !.pc = "signed", !.c = conn.c, !.when = conn.when,
                                  !.req = conn.req, !.age = conn.age]
    BY <2>2, SMTT(20) DEF Idle
  <2>. QED
    BY <1>3, <2>1, <2>2, Zenon
<1>5. ConnInv'
  <2>1. CASE conn' = Idle
    <3>1. conn'.pc = "idle" /\ DOMAIN conn' = Fields
      BY <2>1, IdleIs, SMTT(20) DEF Idle
    <3>. QED
      BY <3>1, SMTT(20) DEF ConnInv, Decided
  <2>2. CASE conn.cut = "no" /\ conn' = [Idle EXCEPT !.pc = "signed", !.c = conn.c, !.when = conn.when,
                                                     !.req = conn.req, !.age = conn.age]
    <3>1. /\ DOMAIN conn' = Fields /\ conn'.pc = "signed" /\ conn'.c = conn.c /\ conn'.when = conn.when
          /\ conn'.req = conn.req /\ conn'.age = conn.age /\ conn'.cut = "no" /\ conn'.accepted = FALSE
          /\ conn'.page = None
      BY <2>2, SMTT(20) DEF Idle, Fields
    <3>2. Carried(conn', env, Now(clock)) /\ Undecided(conn')
      BY <1>1, <2>2, <3>1, SMTT(20) DEF Carried, Undecided
    <3>. QED
      BY <1>1, <3>1, <3>2, SMTT(20) DEF ConnInv, Decided
  <2>. QED
    BY <1>3, <2>1, <2>2, Zenon
<1>6. ListingInv'
  <2>1. conn.page # None /\ ~conn.gone => listing.c \in env.sends
    <3>1. SUFFICES ASSUME conn.page # None, ~conn.gone PROVE listing.c \in env.sends
      BY Zenon
    <3>2. conn.accepted /\ conn.handler = "listObjects" /\ conn.cut = "no"
      BY <1>1, <3>1, Zenon DEF Judged, Listed, Carried
    <3>3. conn.c.op = "listObjects"
      BY <1>1, <3>2, Zenon DEF Judged, Intended
    <3>. QED
      BY <1>1, <3>3, SMTT(20) DEF ListingInv
  <2>2. /\ DOMAIN listing' = DOMAIN listing /\ listing'.c = listing.c
        /\ listing' = listing \/ (conn.page # None /\ ~conn.gone)
    <3>1. \/ listing' = listing
          \/ /\ conn.page # None /\ ~conn.gone
             /\ \E next, pages, markers :
                   listing' = [listing EXCEPT !.next = next, !.pages = pages, !.markers = markers]
      BY Zenon DEF Receive
    <3>2. CASE /\ conn.page # None /\ ~conn.gone
               /\ \E next, pages, markers :
                     listing' = [listing EXCEPT !.next = next, !.pages = pages, !.markers = markers]
      <4>1. DOMAIN listing = {"next", "c", "pages", "markers", "kept"}
        BY <1>1, Zenon DEF ListingInv
      <4>. QED
        BY <3>2, <4>1, SMTT(20)
    <3>. QED
      BY <3>1, <3>2, Zenon
  <2>3. CASE listing' = listing
    BY <1>1, <1>4, <2>3, SMTT(20) DEF ListingInv
  <2>4. CASE conn.page # None /\ ~conn.gone
    BY <1>1, <2>1, <2>2, <2>4, SMTT(20) DEF ListingInv
  <2>. QED
    BY <2>2, <2>3, <2>4, Zenon
<1>. QED
  BY <1>2, <1>5, <1>6, Zenon DEF ServerInv

\* Other clients do not touch the connection.
LEMMA ChangeStep == ServerInv /\ Change => ServerInv'
<1>. SUFFICES ASSUME ServerInv, Change PROVE ServerInv'
  BY Zenon
<1>1. UNCHANGED <<env, clock, date, conn>> /\ ClockInv /\ ConnInv /\ ListingInv
  BY Zenon DEF Change, ServerInv
<1>2. \E kept : listing' = [listing EXCEPT !.kept = kept]
  BY Zenon DEF Change
<1>3. ClockInv' /\ ConnInv'
  BY <1>1, SMTT(20) DEF ClockInv, ConnInv, Decided
<1>4. ListingInv'
  BY <1>1, <1>2, SMTT(20) DEF ListingInv
<1>. QED
  BY <1>3, <1>4, Zenon DEF ServerInv

\* Time passes for the clock and for the request's age alike, over midnight too.
LEMMA TickStep == ServerInv /\ Tick => ServerInv'
<1>. SUFFICES ASSUME ServerInv, Tick PROVE ServerInv'
  BY Zenon
<1>1. UNCHANGED <<env, listing>> /\ ClockInv /\ ConnInv /\ ListingInv /\ conn.pc \in {"idle", "signed", "sent"}
  BY Zenon DEF Tick, ServerInv
<1>2. PICK sec : sec = clock.sec + env.step
  BY Zenon
<1>3. /\ clock' = IF sec >= DaySeconds THEN [day |-> clock.day + 1, sec |-> sec - DaySeconds]
                  ELSE [clock EXCEPT !.sec = sec]
      /\ date' = IF sec >= DaySeconds THEN NextDay(date) ELSE date
      /\ conn' = IF conn.pc = "idle" THEN conn ELSE [conn EXCEPT !.age = conn.age + env.step]
  BY <1>2, Zenon DEF Tick
<1>4. /\ DOMAIN clock = {"day", "sec"} /\ clock.day \in Nat /\ clock.sec \in Nat /\ clock.sec < DaySeconds
      /\ date = CivilFromDays(clock.day) /\ env \in Worlds
  BY <1>1, Zenon DEF ClockInv
<1>5. env.step \in Nat /\ env.step <= DaySeconds /\ DaySeconds \in Nat
  <2>1. env.step \in 0..DaySeconds
    BY <1>4, WorldAssumption, Zenon
  <2>2. DaySeconds \in Nat
    BY SMTT(20) DEF DaySeconds
  <2>. QED
    BY <2>1, <2>2, SMTT(20)
<1>6. ClockInv' /\ Now(clock') = Now(clock) + env.step
  <2>1. CASE sec >= DaySeconds
    <3>1. clock'.day = clock.day + 1 /\ clock'.sec = sec - DaySeconds /\ DOMAIN clock' = {"day", "sec"}
      BY <1>3, <2>1, SMTT(20)
    <3>2. date' = CivilFromDays(clock'.day)
      <4>1. NextDay(date) = CivilFromDays(clock.day + 1)
        BY <1>4, CivilFollowsCalendar, SMTT(20)
      <4>. QED
        BY <1>3, <2>1, <3>1, <4>1, Zenon
    <3>3. clock'.day \in Nat /\ clock'.sec \in Nat /\ clock'.sec < DaySeconds
      BY <1>2, <1>4, <1>5, <2>1, <3>1, SMTT(20)
    <3>4. Now(clock') = Now(clock) + env.step
      BY <1>2, <1>4, <1>5, <3>1, SMTT(20) DEF Now, DaySeconds
    <3>. QED
      BY <1>1, <1>4, <3>1, <3>2, <3>3, <3>4, Zenon DEF ClockInv
  <2>2. CASE ~(sec >= DaySeconds)
    <3>1. clock'.day = clock.day /\ clock'.sec = sec /\ DOMAIN clock' = {"day", "sec"} /\ date' = date
      BY <1>3, <1>4, <2>2, SMTT(20)
    <3>2. clock'.day \in Nat /\ clock'.sec \in Nat /\ clock'.sec < DaySeconds
      BY <1>2, <1>4, <1>5, <2>2, <3>1, SMTT(20)
    <3>3. Now(clock') = Now(clock) + env.step
      BY <1>2, <1>4, <1>5, <3>1, SMTT(20) DEF Now, DaySeconds
    <3>. QED
      BY <1>1, <1>4, <3>1, <3>2, <3>3, Zenon DEF ClockInv
  <2>. QED
    BY <2>1, <2>2, Zenon
<1>7. CASE conn.pc = "idle"
  <2>1. conn' = conn
    BY <1>3, <1>7, Zenon
  <2>2. ConnInv' /\ ListingInv'
    BY <1>1, <1>7, <2>1, SMTT(20) DEF ConnInv, ListingInv, Decided
  <2>. QED
    BY <1>6, <2>2, Zenon DEF ServerInv
<1>8. CASE conn.pc # "idle"
  <2>1. conn' = [conn EXCEPT !.age = conn.age + env.step]
    BY <1>3, <1>8, Zenon
  <2>2. DOMAIN conn = Fields /\ Carried(conn, env, Now(clock)) /\ Undecided(conn)
    BY <1>1, <1>8, SMTT(20) DEF ConnInv
  <2>3. /\ DOMAIN conn' = Fields /\ conn'.pc = conn.pc /\ conn'.c = conn.c /\ conn'.when = conn.when
        /\ conn'.req = conn.req /\ conn'.age = conn.age + env.step /\ conn'.cut = conn.cut
        /\ conn'.accepted = conn.accepted /\ conn'.page = conn.page /\ conn'.gone = conn.gone
    BY <2>1, <2>2, SMTT(20) DEF Fields
  <2>4. PICK now, later : now = Now(clock) /\ later = Now(clock')
    BY Zenon
  <2>5. Moment(conn.when) \in Nat /\ conn.age \in Int /\ Moment(conn.when) + conn.age = now /\ later = now + env.step
    BY <1>6, <2>2, <2>4, Zenon DEF Carried
  <2>6. conn'.age \in Int /\ Moment(conn'.when) + conn'.age = later
    BY <1>5, <2>3, <2>5, SMTT(20)
  <2>7. Carried(conn', env, later) /\ Undecided(conn')
    BY <2>2, <2>3, <2>5, <2>6, SMTT(20) DEF Carried, Undecided
  <2>8. ConnInv'
    BY <1>1, <1>8, <2>3, <2>4, <2>7, SMTT(20) DEF ConnInv, Decided
  <2>9. ListingInv'
    BY <1>1, <2>3, SMTT(20) DEF ListingInv
  <2>. QED
    BY <1>6, <2>8, <2>9, Zenon DEF ServerInv
<1>. QED
  BY <1>7, <1>8, Zenon

\* The strengthening is inductive.
THEOREM ServerInvariant == Spec => []ServerInv
<1>1. ServerInv /\ [Next]_vars => ServerInv'
  <2>1. ServerInv /\ UNCHANGED vars => ServerInv'
    BY SMTT(20) DEF vars, ServerInv, ClockInv, ConnInv, ListingInv, Decided
  <2>. QED
    BY <2>1, SignStep, SendStep, AcceptStep, ReadBodyStep, CommitStep, DeleteNextStep, SendBlockStep, WalkStep,
       ListPageStep, ReceiveStep, HangupStep, ChangeStep, TickStep, Zenon DEF Next, Serve
<1>. QED
  BY InitInv, <1>1, PTL DEF Spec

\* What a client asks for is what the server does, whatever the operation, the
\* bucket, the key and the way it is escaped, addressed and signed.
THEOREM WhatIsAskedIsDone == Spec => []AsIntended
<1>1. ServerInv => AsIntended
  BY Zenon DEF ServerInv, ConnInv, Judged, Intended, AsIntended, Whole
<1>. QED
  BY ServerInvariant, <1>1, PTL

\* An honest signature in the header lets a whole request in.
THEOREM HonestRequestsPass == Spec => []HonestAccepted
<1>1. ServerInv => HonestAccepted
  BY Zenon DEF ServerInv, ConnInv, Judged, Honest, HonestAccepted, Whole
<1>. QED
  BY ServerInvariant, <1>1, PTL

\* A presigned request works from its signature to its end, to the second, whatever
\* the day it was signed and however often it is sent.
THEOREM PresignedInTime == Spec => []PresignedWindow
<1>1. ServerInv => PresignedWindow
  BY SMTT(20) DEF ServerInv, ConnInv, Judged, InTime, Timely, PresignedWindow, Whole, Decided
<1>. QED
  BY ServerInvariant, <1>1, PTL

\* The server's dates are the calendar's on every day it runs.
THEOREM DatesAreRight == Spec => []CalendarRight
<1>1. ServerInv => CalendarRight
  BY DaysOfCivil, SMTT(20) DEF ServerInv, ClockInv, CalendarRight
<1>. QED
  BY ServerInvariant, <1>1, PTL

=============================================================================
