---------------------------- MODULE FramingProofs ----------------------------
(***************************************************************************)
(* What the readers of a body return, for every body, however it is cut    *)
(* into chunks and however large a read is (Framing).  A sequence of parts *)
(* is spoken of by what has been put together after each of them, a chain  *)
(* of signatures by the signature after each chunk.  The invariant of a    *)
(* reader is that what it returned and has at hand is the first parts, and *)
(* that what comes next is the client's, or has to be signed to be so.     *)
(***************************************************************************)
EXTENDS Framing, SequencesExt, SequenceTheorems, CalendarProofs  \* for Least and its kind

----------------------------------------------------------------------------
(* The parts of a body, and the signatures of its chunks.                  *)

\* What has been put together of a sequence of sequences after each of them.
Flattens(f, s) ==
    /\ DOMAIN f = 0..Len(s) /\ f[0] = <<>>
    /\ \A i \in 1..Len(s) : f[i] = f[i - 1] \o s[i]

\* FlattenSeq's function exists, whatever the length.
LEMMA FlattenExists ==
  ASSUME NEW s
  PROVE  \A n \in Nat : \E f : f = [i \in 1..n |-> IF i = 1 THEN s[i] ELSE f[i - 1] \o s[i]]
<1>. DEFINE Without(n) == ~\E f : f = [i \in 1..n |-> IF i = 1 THEN s[i] ELSE f[i - 1] \o s[i]]
            Bad == {n \in Nat : Without(n)}
<1>1. SUFFICES ASSUME Bad # {} PROVE FALSE
  BY Zenon
<1>2. PICK n \in Bad : \A k \in Bad : n <= k
  BY <1>1, Least, Zenon
<1>3. n \in Nat /\ Without(n)
  BY Zenon
<1>4. n # 0
  <2>1. SUFFICES ASSUME n = 0 PROVE FALSE
    BY Zenon
  <2>2. \A g, h : [i \in 1..0 |-> IF i = 1 THEN s[i] ELSE g[i - 1] \o s[i]] = [i \in 1..0 |-> IF i = 1 THEN s[i] ELSE h[i - 1] \o s[i]]
    BY SMTT(20)
  <2>3. PICK h : h = [i \in 1..0 |-> IF i = 1 THEN s[i] ELSE s[i - 1] \o s[i]]
    BY Zenon
  <2>4. h = [i \in 1..0 |-> IF i = 1 THEN s[i] ELSE h[i - 1] \o s[i]]
    BY <2>2, <2>3, SMTT(20)
  <2>. QED
    BY <1>3, <2>1, <2>4, Zenon
<1>5. PICK p \in Nat : n = p + 1
  <2>1. n - 1 \in Nat /\ n = (n - 1) + 1
    BY <1>3, <1>4, SMTT(20)
  <2>. QED
    BY <2>1, Zenon
<1>6. ~Without(p)
  <2>1. ~(n <= p)
    BY <1>5, SMTT(20)
  <2>. QED
    BY <1>2, <2>1, Zenon
<1>7. PICK f : f = [i \in 1..p |-> IF i = 1 THEN s[i] ELSE f[i - 1] \o s[i]]
  BY <1>6, Zenon
<1>8. PICK g : g = [i \in 1..n |-> IF i = 1 THEN s[i] ELSE f[i - 1] \o s[i]]
  BY Zenon
<1>9. \A i \in 1..n : i # 1 => g[i - 1] = f[i - 1]
  <2>1. SUFFICES ASSUME NEW i \in 1..n, i # 1 PROVE g[i - 1] = f[i - 1]
    BY Zenon
  <2>2. PICK m : m = i - 1
    BY Zenon
  <2>3. m \in 1..p /\ m \in 1..n
    BY <1>5, <2>1, <2>2, SMTT(20)
  <2>4. f[m] = IF m = 1 THEN s[m] ELSE f[m - 1] \o s[m]
    BY <1>7, <2>3, Zenon
  <2>5. g[m] = IF m = 1 THEN s[m] ELSE f[m - 1] \o s[m]
    BY <1>8, <2>3, Zenon
  <2>. QED
    BY <2>2, <2>4, <2>5, Zenon
<1>10. g = [i \in 1..n |-> IF i = 1 THEN s[i] ELSE g[i - 1] \o s[i]]
  <2>1. \A i \in 1..n : (IF i = 1 THEN s[i] ELSE f[i - 1] \o s[i]) = (IF i = 1 THEN s[i] ELSE g[i - 1] \o s[i])
    BY <1>9, Zenon
  <2>. QED
    BY <1>8, <2>1, Zenon
<1>. QED
  BY <1>3, <1>10, Zenon

\* FlattenSeq puts one sequence after the other.
LEMMA Flattening ==
  ASSUME NEW S, NEW s \in Seq(Seq(S))
  PROVE  \E f : Flattens(f, s) /\ FlattenSeq(s) = f[Len(s)]
<1>1. Len(s) \in Nat
  BY LenProperties, Zenon
<1>2. CASE Len(s) = 0
  <2>1. PICK f : f = [i \in 0..Len(s) |-> <<>>]
    BY Zenon
  <2>2. s = <<>>
    BY <1>2, EmptySeq, SMTT(20)
  <2>3. FlattenSeq(s) = <<>>
    BY <1>2, <2>2, Zenon DEF FlattenSeq
  <2>4. Flattens(f, s) /\ f[Len(s)] = <<>>
    BY <1>2, <2>1, SMTT(20) DEF Flattens
  <2>. QED
    BY <2>3, <2>4, Zenon
<1>3. CASE Len(s) # 0
  <2>1. PICK g : g = [i \in 1..Len(s) |-> IF i = 1 THEN s[i] ELSE g[i - 1] \o s[i]]
    BY <1>1, FlattenExists, Zenon
  <2>2. PICK h : h = [i \in 1..Len(s) |-> IF i = 1 THEN s[i] ELSE h[i - 1] \o s[i]] /\ FlattenSeq(s) = h[Len(s)]
    BY <1>3, <2>1, Zenon DEF FlattenSeq
  <2>3. PICK f : f = [i \in 0..Len(s) |-> IF i = 0 THEN <<>> ELSE h[i]]
    BY Zenon
  <2>4. DOMAIN f = 0..Len(s) /\ f[0] = <<>> /\ \A i \in 1..Len(s) : f[i] = h[i]
    BY <1>1, <2>3, SMTT(20)
  <2>5. ASSUME NEW i \in 1..Len(s) PROVE f[i] = f[i - 1] \o s[i]
    <3>1. h[i] = IF i = 1 THEN s[i] ELSE h[i - 1] \o s[i]
      BY <2>2, Zenon
    <3>2. CASE i = 1
      <4>1. s[i] \in Seq(S)
        BY ElementOfSeq, Zenon
      <4>2. <<>> \o s[i] = s[i]
        BY <4>1, ConcatEmptySeq, Zenon
      <4>3. i - 1 = 0
        BY <3>2, SMTT(20)
      <4>. QED
        BY <2>4, <3>1, <3>2, <4>2, <4>3, Zenon
    <3>3. CASE i # 1
      <4>1. i - 1 \in 1..Len(s)
        BY <1>1, <3>3, SMTT(20)
      <4>. QED
        BY <2>4, <3>1, <3>3, <4>1, Zenon
    <3>. QED
      BY <3>2, <3>3, Zenon
  <2>6. f[Len(s)] = h[Len(s)]
    <3>1. Len(s) \in 1..Len(s)
      BY <1>1, <1>3, SMTT(20)
    <3>. QED
      BY <2>4, <3>1, Zenon
  <2>. QED
    BY <2>2, <2>4, <2>5, <2>6, Zenon DEF Flattens
<1>. QED
  BY <1>2, <1>3, Zenon

\* A function of 1..n is a sequence.
LEMMA FunctionIsSeq ==
  ASSUME NEW S, NEW n \in Nat, NEW f \in [1..n -> S]
  PROVE  f \in Seq(S) /\ Len(f) = n
<1>1. f \in UNION {[1..m -> S] : m \in Nat}
  OBVIOUS
<1>. QED
  BY <1>1, SMTT(20)

\* What holds of 0, and of n + 1 if of n, holds of every natural number.
LEMMA Counting ==
  ASSUME NEW S, 0 \in S, \A n \in Nat : n \in S => n + 1 \in S
  PROVE  \A n \in Nat : n \in S
<1>. DEFINE Bad == {n \in Nat : n \notin S}
<1>1. SUFFICES ASSUME Bad # {} PROVE FALSE
  BY Zenon
<1>2. PICK n \in Bad : \A k \in Bad : n <= k
  BY <1>1, Least, Zenon
<1>3. n \in Nat /\ n # 0 /\ n \notin S
  BY Zenon
<1>4. PICK p \in Nat : n = p + 1
  <2>1. n - 1 \in Nat /\ n = (n - 1) + 1
    BY <1>3, SMTT(20)
  <2>. QED
    BY <2>1, Zenon
<1>5. ~(n <= p)
  BY <1>4, SMTT(20)
<1>. QED
  BY <1>2, <1>3, <1>4, <1>5, Zenon

\* Each part of a flattened sequence is one of the same elements.
LEMMA Flattened ==
  ASSUME NEW S, NEW s \in Seq(Seq(S)), NEW f, Flattens(f, s)
  PROVE  \A i \in 0..Len(s) : f[i] \in Seq(S)
<1>. DEFINE Good == {n \in Nat : n <= Len(s) => f[n] \in Seq(S)}
<1>1. Len(s) \in Nat
  BY LenProperties, Zenon
<1>2. 0 \in Good
  BY EmptySeq, Zenon DEF Flattens
<1>3. ASSUME NEW n \in Nat, n \in Good PROVE n + 1 \in Good
  <2>1. SUFFICES ASSUME n + 1 <= Len(s) PROVE f[n + 1] \in Seq(S)
    BY SMTT(20)
  <2>2. n + 1 \in 1..Len(s) /\ n <= Len(s) /\ (n + 1) - 1 = n
    BY <1>1, <2>1, SMTT(20)
  <2>3. s[n + 1] \in Seq(S) /\ f[n] \in Seq(S)
    BY <1>3, <2>2, ElementOfSeq, Zenon
  <2>4. f[n + 1] = f[n] \o s[n + 1]
    BY <2>2, Zenon DEF Flattens
  <2>. QED
    BY <2>3, <2>4, ConcatProperties, Zenon
<1>4. \A n \in Nat : n \in Good
  <2>. HIDE DEF Good
  <2>. QED
    BY <1>2, <1>3, Counting, Zenon
<1>. QED
  BY <1>1, <1>4, SMTT(20)

\* What is flattened begins with each of its parts.
BeginsWithParts(S, f, s) == \A i \in 0..Len(s) : \E t \in Seq(S) : f[Len(s)] = f[i] \o t

\* Each value of a flattening goes on to the last.
LEMMA FlattenedFrom ==
  ASSUME NEW S, NEW s \in Seq(Seq(S)), NEW f, Flattens(f, s)
  PROVE  BeginsWithParts(S, f, s)
<1>. DEFINE Good == {n \in Nat : n <= Len(s) => \E t \in Seq(S) : f[Len(s)] = f[Len(s) - n] \o t}
<1>1. Len(s) \in Nat /\ \A i \in 0..Len(s) : f[i] \in Seq(S)
  BY LenProperties, Flattened, Zenon
<1>2. 0 \in Good
  <2>1. f[Len(s)] = f[Len(s)] \o <<>> /\ <<>> \in Seq(S)
    <3>1. Len(s) \in 0..Len(s)
      BY <1>1, SMTT(20)
    <3>. QED
      BY <1>1, <3>1, ConcatEmptySeq, EmptySeq, Zenon
  <2>2. Len(s) - 0 = Len(s)
    BY <1>1, SMTT(20)
  <2>. QED
    BY <2>1, <2>2, Zenon
<1>3. ASSUME NEW n \in Nat, n \in Good PROVE n + 1 \in Good
  <2>0. n + 1 \in Nat
    BY SMTT(20)
  <2>1. SUFFICES ASSUME n + 1 <= Len(s) PROVE \E t \in Seq(S) : f[Len(s)] = f[Len(s) - (n + 1)] \o t
    BY <2>0, Zenon
  <2>2. PICK i : i = Len(s) - n
    BY Zenon
  <2>3. i \in 1..Len(s) /\ n <= Len(s) /\ i - 1 = Len(s) - (n + 1) /\ i - 1 \in 0..Len(s)
    BY <1>1, <2>1, <2>2, SMTT(20)
  <2>4. PICK t \in Seq(S) : f[Len(s)] = f[i] \o t
    BY <1>3, <2>2, <2>3, Zenon
  <2>5. f[i] = f[i - 1] \o s[i]
    BY <2>3, Zenon DEF Flattens
  <2>6. s[i] \in Seq(S) /\ f[i - 1] \in Seq(S)
    BY <1>1, <2>3, ElementOfSeq, Zenon
  <2>7. f[Len(s)] = f[i - 1] \o (s[i] \o t) /\ s[i] \o t \in Seq(S)
    <3>1. PICK u, v : u = f[i - 1] /\ v = s[i]
      BY Zenon
    <3>2. u \in Seq(S) /\ v \in Seq(S)
      BY <2>6, <3>1, Zenon
    <3>3. (u \o v) \o t = u \o (v \o t) /\ v \o t \in Seq(S)
      BY <3>2, ConcatAssociative, ConcatProperties, SMTT(20)
    <3>. QED
      BY <2>4, <2>5, <3>1, <3>3, Zenon
  <2>. QED
    BY <2>3, <2>7, Zenon
<1>4. \A n \in Nat : n \in Good
  <2>. HIDE DEF Good
  <2>. QED
    BY <1>2, <1>3, Counting, Zenon
<1>5. ASSUME NEW i \in 0..Len(s) PROVE \E t \in Seq(S) : f[Len(s)] = f[i] \o t
  <2>1. PICK n : n = Len(s) - i
    BY Zenon
  <2>2. n \in Nat /\ n <= Len(s) /\ Len(s) - n = i
    BY <1>1, <2>1, SMTT(20)
  <2>. QED
    BY <1>4, <2>2, Zenon
<1>. QED
  BY <1>5, Zenon DEF BeginsWithParts

\* And has the elements of each of the sequences it is made of.
LEMMA FlattenedHas ==
  ASSUME NEW S, NEW s \in Seq(Seq(S)), NEW f, Flattens(f, s)
  PROVE  s \in Seq(Seq(ToSet(f[Len(s)])))
<1>. DEFINE B == ToSet(f[Len(s)])
<1>1. Len(s) \in Nat /\ \A i \in 0..Len(s) : f[i] \in Seq(S)
  BY LenProperties, Flattened, Zenon
<1>2. \A i \in 0..Len(s) : \E t \in Seq(S) : f[Len(s)] = f[i] \o t
  <2>1. BeginsWithParts(S, f, s)
    BY FlattenedFrom, Zenon
  <2>. QED
    BY <2>1, Zenon DEF BeginsWithParts
<1>3. ASSUME NEW i \in 1..Len(s) PROVE s[i] \in Seq(B)
  <2>1. i \in 0..Len(s) /\ i - 1 \in 0..Len(s)
    BY <1>1, SMTT(20)
  <2>2. PICK t \in Seq(S) : f[Len(s)] = f[i] \o t
    BY <1>2, <2>1, Zenon
  <2>3. PICK u, v : u = f[i - 1] /\ v = s[i]
    BY Zenon
  <2>4. u \in Seq(S) /\ v \in Seq(S) /\ f[i] \in Seq(S) /\ f[i] = u \o v
    BY <1>1, <2>1, <2>3, ElementOfSeq, Zenon DEF Flattens
  <2>5. /\ Len(u) \in Nat /\ Len(v) \in Nat /\ Len(t) \in Nat /\ Len(f[i]) = Len(u) + Len(v)
        /\ \A k \in 1..(Len(u) + Len(v)) : f[i][k] = IF k <= Len(u) THEN u[k] ELSE v[k - Len(u)]
    BY <2>2, <2>4, LenProperties, ConcatProperties, SMTT(20)
  <2>6. /\ Len(f[Len(s)]) = Len(f[i]) + Len(t)
        /\ \A k \in 1..(Len(f[i]) + Len(t)) : f[Len(s)][k] = IF k <= Len(f[i]) THEN f[i][k] ELSE t[k - Len(f[i])]
    BY <2>2, <2>4, ConcatProperties, SMTT(20)
  <2>7. DOMAIN f[Len(s)] = 1..Len(f[Len(s)])
    <3>1. Len(s) \in 0..Len(s)
      BY <1>1, SMTT(20)
    <3>. QED
      BY <1>1, <3>1, LenProperties, Zenon
  <2>8. ASSUME NEW k \in 1..Len(v) PROVE v[k] \in B
    <3>1. PICK m : m = k + Len(u)
      BY Zenon
    <3>2. m \in 1..(Len(u) + Len(v)) /\ ~(m <= Len(u)) /\ m - Len(u) = k /\ m <= Len(f[i]) /\ m \in 1..(Len(f[i]) + Len(t))
      BY <2>5, <3>1, SMTT(20)
    <3>3. f[Len(s)][m] = v[k]
      BY <2>5, <2>6, <3>2, SMTT(20)
    <3>. QED
      BY <2>6, <2>7, <3>2, <3>3, Zenon DEF ToSet
  <2>9. v \in [1..Len(v) -> B]
    <3>. HIDE DEF B
    <3>1. v \in [1..Len(v) -> S]
      BY <2>4, LenProperties, Zenon
    <3>. QED
      BY <2>8, <3>1, Zenon
  <2>. QED
    BY <2>3, <2>5, <2>9, FunctionIsSeq, Zenon
<1>4. s \in [1..Len(s) -> Seq(B)]
  <2>. HIDE DEF B
  <2>1. s \in [1..Len(s) -> Seq(S)]
    BY LenProperties, Zenon
  <2>. QED
    BY <1>3, <2>1, Zenon
<1>. QED
  BY <1>1, <1>4, FunctionIsSeq, Zenon

----------------------------------------------------------------------------
\* The data of each chunk the client sends, the last one empty.
Datum(s, i) == IF i <= Len(s) THEN s[i] ELSE <<>>

\* The signatures of the chunks, from the seed on.
Chains(sig, s) ==
    /\ DOMAIN sig = 0..(Len(s) + 1) /\ sig[0] = Seed
    /\ \A i \in 1..(Len(s) + 1) : sig[i] = <<sig[i - 1], Datum(s, i)>>

\* Chain's function exists, whatever the length.
LEMMA ChainExists ==
  ASSUME NEW all
  PROVE  \A n \in Nat : \E g : g = [i \in 0..n |-> IF i = 0 THEN Seed ELSE Sign(g[i - 1], all[i])]
<1>. DEFINE Has(n) == \E g : g = [i \in 0..n |-> IF i = 0 THEN Seed ELSE Sign(g[i - 1], all[i])]
            Good == {n \in Nat : Has(n)}
<1>1. 0 \in Good
  <2>1. PICK g : g = [i \in 0..0 |-> Seed]
    BY Zenon
  <2>2. \A i \in 0..0 : i = 0
    BY SMTT(20)
  <2>3. g = [i \in 0..0 |-> IF i = 0 THEN Seed ELSE Sign(g[i - 1], all[i])]
    BY <2>1, <2>2, Zenon
  <2>. QED
    BY <2>3, Zenon
<1>2. ASSUME NEW p \in Nat, p \in Good PROVE p + 1 \in Good
  <2>1. PICK n \in Nat : n = p + 1
    BY SMTT(20)
  <2>2. PICK f : f = [i \in 0..p |-> IF i = 0 THEN Seed ELSE Sign(f[i - 1], all[i])]
    BY <1>2, Zenon
  <2>3. PICK g : g = [i \in 0..n |-> IF i = 0 THEN Seed ELSE Sign(f[i - 1], all[i])]
    BY Zenon
  <2>4. \A i \in 0..n : i # 0 => g[i - 1] = f[i - 1]
    <3>1. SUFFICES ASSUME NEW i \in 0..n, i # 0 PROVE g[i - 1] = f[i - 1]
      BY Zenon
    <3>2. PICK m : m = i - 1
      BY Zenon
    <3>3. m \in 0..p /\ m \in 0..n
      BY <2>1, <3>1, <3>2, SMTT(20)
    <3>4. f[m] = IF m = 0 THEN Seed ELSE Sign(f[m - 1], all[m])
      BY <2>2, <3>3, Zenon
    <3>5. g[m] = IF m = 0 THEN Seed ELSE Sign(f[m - 1], all[m])
      BY <2>3, <3>3, Zenon
    <3>. QED
      BY <3>2, <3>4, <3>5, Zenon
  <2>5. g = [i \in 0..n |-> IF i = 0 THEN Seed ELSE Sign(g[i - 1], all[i])]
    <3>1. \A i \in 0..n : (IF i = 0 THEN Seed ELSE Sign(f[i - 1], all[i])) = (IF i = 0 THEN Seed ELSE Sign(g[i - 1], all[i]))
      BY <2>4, Zenon
    <3>. QED
      BY <2>3, <3>1, Zenon
  <2>. QED
    BY <2>1, <2>5, Zenon
<1>3. \A n \in Nat : n \in Good
  <2>. HIDE DEF Good
  <2>. QED
    BY <1>1, <1>2, Counting, Zenon
<1>. QED
  BY <1>3, Zenon

\* What a client sends for its chunks: each with its data and its place in the chain.
LEMMA ChainIs ==
  ASSUME NEW S, NEW s \in Seq(Seq(S))
  PROVE  \E sig : /\ Chains(sig, s)
                  /\ Chain(s) = [i \in 1..(Len(s) + 1) |-> [data |-> Datum(s, i), sig |-> sig[i], whole |-> TRUE]]
<1>. DEFINE all == Append(s, <<>>)
<1>2. /\ Len(s) \in Nat /\ Len(all) = Len(s) + 1 /\ all[Len(s) + 1] = <<>>
      /\ \A i \in 1..Len(s) : all[i] = s[i]
  BY LenProperties, AppendProperties, EmptySeq, SMTT(20)
<1>3. \A i \in 1..Len(all) : all[i] = Datum(s, i)
  BY <1>2, SMTT(20) DEF Datum
<1>4. Len(all) \in Nat
  BY <1>2, SMTT(20)
<1>5. PICK g : g = [i \in 0..Len(all) |-> IF i = 0 THEN Seed ELSE Sign(g[i - 1], all[i])]
  BY <1>4, ChainExists, Zenon
<1>6. \E sig : /\ sig = [i \in 0..Len(all) |-> IF i = 0 THEN Seed ELSE Sign(sig[i - 1], all[i])]
               /\ Chain(s) = [i \in 1..Len(all) |-> [data |-> all[i], sig |-> sig[i], whole |-> TRUE]]
  BY <1>5, Zenon DEF Chain
<1>. HIDE DEF all
<1>7. PICK sig : /\ sig = [i \in 0..Len(all) |-> IF i = 0 THEN Seed ELSE Sign(sig[i - 1], all[i])]
                 /\ Chain(s) = [i \in 1..Len(all) |-> [data |-> all[i], sig |-> sig[i], whole |-> TRUE]]
  BY <1>6, Zenon
<1>8. Chains(sig, s)
  <2>1. DOMAIN sig = 0..(Len(s) + 1)
    BY <1>2, <1>7, Zenon
  <2>2. sig[0] = Seed
    <3>1. 0 \in 0..Len(all)
      BY <1>4, SMTT(20)
    <3>. QED
      BY <1>7, <3>1, Zenon
  <2>3. ASSUME NEW i \in 1..(Len(s) + 1) PROVE sig[i] = <<sig[i - 1], Datum(s, i)>>
    <3>1. i \in 0..Len(all) /\ i # 0 /\ i \in 1..Len(all)
      BY <1>2, SMTT(20)
    <3>2. sig[i] = Sign(sig[i - 1], all[i])
      BY <1>7, <3>1, Zenon
    <3>. QED
      BY <1>3, <3>1, <3>2, Zenon DEF Sign
  <2>. QED
    BY <2>1, <2>2, <2>3, Zenon DEF Chains
<1>9. Chain(s) = [i \in 1..(Len(s) + 1) |-> [data |-> Datum(s, i), sig |-> sig[i], whole |-> TRUE]]
  BY <1>2, <1>3, <1>7, Zenon
<1>. QED
  BY <1>8, <1>9, Zenon

\* No two chunks of a chain have the same signature.
LEMMA ChainInjective ==
  ASSUME NEW s, Len(s) \in Nat, NEW sig, Chains(sig, s), \A i \in 1..(Len(s) + 1) : sig[i] # Seed
  PROVE  \A i, j \in 0..(Len(s) + 1) : sig[i] = sig[j] => i = j
<1>. DEFINE Ends == 0..(Len(s) + 1)
            Good == {n \in Nat : n \in Ends => \A j \in Ends : sig[n] = sig[j] => n = j}
<1>1. 0 \in Good
  <2>1. SUFFICES ASSUME NEW j \in Ends, sig[0] = sig[j], j # 0 PROVE FALSE
    BY Zenon
  <2>2. j \in 1..(Len(s) + 1)
    BY <2>1, SMTT(20)
  <2>. QED
    BY <2>1, <2>2, Zenon DEF Chains
<1>2. ASSUME NEW p \in Nat, p \in Good PROVE p + 1 \in Good
  <2>1. PICK n \in Nat : n = p + 1
    BY SMTT(20)
  <2>2. SUFFICES ASSUME n \in Ends, NEW j \in Ends, sig[n] = sig[j] PROVE n = j
    BY <2>1, Zenon
  <2>3. n \in 1..(Len(s) + 1) /\ n - 1 = p /\ p \in Ends
    BY <2>1, <2>2, SMTT(20)
  <2>4. sig[n] = <<sig[p], Datum(s, n)>> /\ sig[n] # Seed
    BY <2>3, Zenon DEF Chains
  <2>5. j # 0
    BY <2>2, <2>4, Zenon DEF Chains
  <2>6. j \in 1..(Len(s) + 1) /\ j - 1 \in Ends
    BY <2>2, <2>5, SMTT(20)
  <2>7. sig[j] = <<sig[j - 1], Datum(s, j)>>
    BY <2>6, Zenon DEF Chains
  <2>8. sig[p] = sig[j - 1]
    <3>1. \A a, b, c, d : <<a, b>> = <<c, d>> => a = c
      BY SMTT(20)
    <3>. QED
      BY <2>2, <2>4, <2>7, <3>1, Zenon
  <2>9. p = j - 1
    BY <1>2, <2>3, <2>6, <2>8, Zenon
  <2>. QED
    BY <2>1, <2>6, <2>9, SMTT(20)
<1>3. \A n \in Nat : n \in Good
  <2>. HIDE DEF Good
  <2>. QED
    BY <1>1, <1>2, Counting, Zenon
<1>4. \A i \in Ends : i \in Nat
  BY SMTT(20)
<1>. QED
  BY <1>3, <1>4, Zenon

----------------------------------------------------------------------------
(* The readers.                                                            *)

\* Chunks as they may arrive: of these blocks, with one of these signatures.
Packets(B, sigs) == [data : Seq(B), sig : sigs, whole : BOOLEAN]

ReaderFields == {"chunked", "wire", "buf", "pos", "done", "chain", "remaining", "failed"}

\* A reader of chunks P, or of blocks B, that has returned got.
Typed(rd, got, B, P) ==
    /\ DOMAIN rd = ReaderFields
    /\ rd.chunked \in BOOLEAN /\ rd.done \in BOOLEAN /\ rd.failed = FALSE
    /\ rd.buf \in Seq(B) /\ rd.pos \in Nat /\ rd.pos <= Len(rd.buf) /\ rd.remaining \in Nat
    /\ got \in Seq(B)
    /\ rd.chunked => rd.wire \in Seq(P)
    /\ ~rd.chunked => rd.wire \in Seq(B) \/ (rd.remaining = 0 /\ rd.wire \in Seq(P))

\* What of the chunk at hand was not returned yet.
Rest(rd) == SubSeq(rd.buf, rd.pos + 1, Len(rd.buf))

\* Whole chunks come in the order of the client, from the one after the i-th on.
Straight(wire, s, i) ==
    \A n \in DOMAIN wire : wire[n].whole => i + n <= Len(s) + 1 /\ wire[n].data = Datum(s, i + n)

\* After i chunks the reader has returned, or has at hand, what the client sent in
\* them, and what comes next is in the client's order or must be signed to be so.
Ordered(rd, got, s, f, sig) == \E i \in 0..(Len(s) + 1) :
    /\ got \o Rest(rd) = f[IF i <= Len(s) THEN i ELSE Len(s)]
    /\ rd.done = (i = Len(s) + 1)
    /\ rd.chain = sig[i] \/ (rd.chain = NoChain /\ Straight(rd.wire, s, i))

\* A reader of blocks has returned the beginning of a body, and has the next blocks before it.
Paced(rd, got, body) ==
    \/ rd.remaining = 0 /\ got = <<>>
    \/ \E n \in 0..Len(body) : got \o rd.wire = SubSeq(body, 1, n)

\* The chunk read when the one at hand is used up.
Filled(rd, q) ==
    LET c == rd.wire[1] IN
    /\ Used(rd) /\ ~rd.done /\ rd.wire # <<>> /\ c.whole /\ (rd.chain # NoChain => c.sig = Sign(rd.chain, c.data))
    /\ DOMAIN q = ReaderFields /\ q.chunked = rd.chunked /\ q.remaining = rd.remaining /\ q.failed = FALSE
    /\ q.wire = Tail(rd.wire) /\ q.done = (c.data = <<>>)
    /\ q.chain = IF rd.chain = NoChain THEN NoChain ELSE c.sig
    /\ IF c.data = <<>> THEN q.buf = rd.buf /\ q.pos = rd.pos ELSE q.buf = c.data /\ q.pos = 0

\* fill_next_chunk takes the next chunk or fails.
LEMMA FillIs ==
  ASSUME NEW rd, NEW got, NEW B, NEW P, Typed(rd, got, B, P), rd.chunked, Used(rd), ~rd.done,
         NEW q, q = FillNextChunk(rd), ~q.failed
  PROVE  Filled(rd, q)
<1>1. rd.wire # <<>>
  <2>1. SUFFICES ASSUME rd.wire = <<>> PROVE FALSE
    BY Zenon
  <2>2. q = [rd EXCEPT !.failed = TRUE]
    BY <2>1, Zenon DEF FillNextChunk
  <2>. QED
    BY <2>2, SMTT(20) DEF Typed, ReaderFields
<1>2. PICK c : c = rd.wire[1]
  BY Zenon
<1>3. Head(rd.wire) = c
  BY <1>1, <1>2, SMTT(20) DEF Typed
<1>4. c.whole /\ (rd.chain # NoChain => c.sig = Sign(rd.chain, c.data))
  <2>1. SUFFICES ASSUME ~(c.whole /\ (rd.chain # NoChain => c.sig = Sign(rd.chain, c.data))) PROVE FALSE
    BY Zenon
  <2>2. q = [rd EXCEPT !.failed = TRUE]
    BY <1>1, <1>3, <2>1, Zenon DEF FillNextChunk
  <2>. QED
    BY <2>2, SMTT(20) DEF Typed, ReaderFields
<1>5. q = [rd EXCEPT !.wire = Tail(@), !.done = (c.data = <<>>),
                     !.chain = IF @ = NoChain THEN NoChain ELSE c.sig,
                     !.buf = IF c.data = <<>> THEN @ ELSE c.data,
                     !.pos = IF c.data = <<>> THEN @ ELSE 0]
  BY <1>1, <1>3, <1>4, Zenon DEF FillNextChunk
<1>6. /\ DOMAIN q = ReaderFields /\ q.chunked = rd.chunked /\ q.remaining = rd.remaining /\ q.failed = FALSE
      /\ q.wire = Tail(rd.wire) /\ q.done = (c.data = <<>>)
      /\ q.chain = IF rd.chain = NoChain THEN NoChain ELSE c.sig
  <2>1. \A x \in ReaderFields : x \in DOMAIN rd
    BY Zenon DEF Typed
  <2>2. "wire" \in DOMAIN rd /\ "done" \in DOMAIN rd /\ "chain" \in DOMAIN rd
    BY <2>1, SMTT(20) DEF ReaderFields
  <2>3. q.wire = Tail(rd.wire) /\ q.done = (c.data = <<>>) /\ q.chain = IF rd.chain = NoChain THEN NoChain ELSE c.sig
    BY <1>5, <2>2, Zenon
  <2>4. DOMAIN q = ReaderFields
    BY <1>5, Zenon DEF Typed
  <2>5. q.chunked = rd.chunked /\ q.remaining = rd.remaining /\ q.failed = rd.failed
    <3>1. "chunked" \in DOMAIN rd /\ "remaining" \in DOMAIN rd /\ "failed" \in DOMAIN rd
      BY <2>1, SMTT(20) DEF ReaderFields
    <3>2. \A x \in {"chunked", "remaining", "failed"} :
             x # "wire" /\ x # "done" /\ x # "chain" /\ x # "buf" /\ x # "pos"
      BY SMTT(20)
    <3>3. \A x \in {"chunked", "remaining", "failed"} : q[x] = rd[x]
      BY <1>5, <3>1, <3>2, Zenon
    <3>. QED
      BY <3>3, Zenon
  <2>. QED
    BY <2>3, <2>4, <2>5, Zenon DEF Typed
<1>7. IF c.data = <<>> THEN q.buf = rd.buf /\ q.pos = rd.pos ELSE q.buf = c.data /\ q.pos = 0
  <2>1. PICK b, p : b = (IF c.data = <<>> THEN rd.buf ELSE c.data) /\ p = (IF c.data = <<>> THEN rd.pos ELSE 0)
    BY Zenon
  <2>2. "buf" \in DOMAIN rd /\ "pos" \in DOMAIN rd
    BY SMTT(20) DEF Typed, ReaderFields
  <2>3. q.buf = b /\ q.pos = p
    BY <1>5, <2>1, <2>2, Zenon
  <2>. QED
    BY <2>1, <2>3, Zenon
<1>. QED
  BY <1>1, <1>2, <1>4, <1>6, <1>7, Zenon DEF Filled

\* A chunk that was taken is typed as the reader was.
LEMMA FilledTyped ==
  ASSUME NEW rd, NEW got, NEW B, NEW sigs, Typed(rd, got, B, Packets(B, sigs)), rd.chunked, NEW q, Filled(rd, q)
  PROVE  /\ Typed(q, got, B, Packets(B, sigs)) /\ rd.wire[1] \in Packets(B, sigs)
         /\ \A n \in DOMAIN q.wire : n + 1 \in DOMAIN rd.wire /\ q.wire[n] = rd.wire[n + 1]
<1>1. PICK P, c : P = Packets(B, sigs) /\ c = rd.wire[1]
  BY Zenon
<1>2. rd.wire \in Seq(P) /\ rd.wire # <<>> /\ q.wire = Tail(rd.wire)
  BY <1>1, SMTT(20) DEF Typed, Filled
<1>3. /\ q.wire \in Seq(P) /\ c \in P
      /\ \A n \in DOMAIN q.wire : n + 1 \in DOMAIN rd.wire /\ q.wire[n] = rd.wire[n + 1]
  BY <1>1, <1>2, SMTT(20)
<1>4. c.data \in Seq(B)
  BY <1>1, <1>3, SMTT(20) DEF Packets
<1>5. q.buf \in Seq(B) /\ q.pos \in Nat /\ q.pos <= Len(q.buf)
  BY <1>1, <1>4, SMTT(20) DEF Typed, Filled
<1>6. q.done \in BOOLEAN /\ q.chunked = rd.chunked /\ q.failed = FALSE /\ q.remaining = rd.remaining /\ DOMAIN q = ReaderFields
  BY SMTT(20) DEF Filled
<1>7. Typed(q, got, B, P)
  BY <1>1, <1>3, <1>5, <1>6, SMTT(20) DEF Typed
<1>. QED
  BY <1>1, <1>3, <1>7, Zenon

\* The chunks a client sends, what they make together and their signatures.
Sends(B, s, f, sig, sigs) ==
    /\ s \in Seq(Seq(B) \ {<<>>}) /\ Flattens(f, s) /\ Chains(sig, s)
    /\ \A i \in 0..(Len(s) + 1) : sig[i] # NoChain
    /\ \A i \in 1..(Len(s) + 1) : sig[i] # Seed
    /\ sigs = {sig[i] : i \in 1..(Len(s) + 1)}

\* A chunk that was taken is the client's next, by its place or by its signature.
LEMMA FilledOrdered ==
  ASSUME NEW B, NEW s, NEW f, NEW sig, NEW sigs, Sends(B, s, f, sig, sigs),
         NEW rd, NEW got, Typed(rd, got, B, Packets(B, sigs)), rd.chunked, NEW q, Filled(rd, q),
         Ordered(rd, got, s, f, sig)
  PROVE  Ordered(q, got, s, f, sig)
<1>0. /\ s \in Seq(Seq(B) \ {<<>>}) /\ Flattens(f, s) /\ Chains(sig, s)
      /\ \A i \in 0..(Len(s) + 1) : sig[i] # NoChain
      /\ \A i \in 1..(Len(s) + 1) : sig[i] # Seed
      /\ sigs = {sig[i] : i \in 1..(Len(s) + 1)}
  BY Zenon DEF Sends
<1>1. PICK i \in 0..(Len(s) + 1) :
         /\ got \o Rest(rd) = f[IF i <= Len(s) THEN i ELSE Len(s)]
         /\ rd.done = (i = Len(s) + 1)
         /\ rd.chain = sig[i] \/ (rd.chain = NoChain /\ Straight(rd.wire, s, i))
  BY Zenon DEF Ordered
<1>2. PICK c : c = rd.wire[1]
  BY Zenon
<1>3. /\ Used(rd) /\ ~rd.done /\ rd.wire # <<>> /\ c.whole /\ (rd.chain # NoChain => c.sig = Sign(rd.chain, c.data))
      /\ q.done = (c.data = <<>>) /\ q.chain = IF rd.chain = NoChain THEN NoChain ELSE c.sig
      /\ IF c.data = <<>> THEN q.buf = rd.buf /\ q.pos = rd.pos ELSE q.buf = c.data /\ q.pos = 0
  BY <1>2, Zenon DEF Filled
<1>4. /\ Len(s) \in Nat /\ s \in Seq(Seq(B)) /\ \A n \in 1..Len(s) : s[n] # <<>>
  BY <1>0, SMTT(20)
<1>5. i <= Len(s) /\ i \in Nat /\ i + 1 \in 1..(Len(s) + 1)
  <2>1. i # Len(s) + 1
    BY <1>1, <1>3, Zenon
  <2>. QED
    BY <1>4, <2>1, SMTT(20)
<1>6. /\ c \in Packets(B, sigs) /\ rd.wire \in Seq(Packets(B, sigs))
      /\ \A n \in DOMAIN q.wire : n + 1 \in DOMAIN rd.wire /\ q.wire[n] = rd.wire[n + 1]
  <2>1. rd.wire \in Seq(Packets(B, sigs))
    BY SMTT(20) DEF Typed
  <2>. QED
    BY <1>2, <2>1, FilledTyped, SMTT(20)
<1>7. c.data \in Seq(B) /\ c.sig \in sigs
  BY <1>6, SMTT(20) DEF Packets
<1>8. /\ c.data = Datum(s, i + 1)
      /\ q.chain = sig[i + 1] \/ (q.chain = NoChain /\ Straight(q.wire, s, i + 1))
  <2>1. CASE rd.chain = NoChain
    <3>1. Straight(rd.wire, s, i)
      BY <1>0, <1>1, <2>1, Zenon
    <3>2. 1 \in DOMAIN rd.wire
      BY <1>3, <1>6, SMTT(20)
    <3>3. c.data = Datum(s, i + 1)
      BY <1>2, <1>3, <3>1, <3>2, Zenon DEF Straight
    <3>4. \A n \in DOMAIN q.wire : n \in Nat
      BY <1>6, FilledTyped, SMTT(20) DEF Typed, Filled
    <3>5. Straight(q.wire, s, i + 1)
      <4>1. SUFFICES ASSUME NEW n \in DOMAIN q.wire, q.wire[n].whole
                     PROVE  (i + 1) + n <= Len(s) + 1 /\ q.wire[n].data = Datum(s, (i + 1) + n)
        BY Zenon DEF Straight
      <4>2. i + (n + 1) <= Len(s) + 1 /\ q.wire[n].data = Datum(s, i + (n + 1))
        BY <1>6, <3>1, <4>1, Zenon DEF Straight
      <4>3. i + (n + 1) = (i + 1) + n
        <5>1. n \in Nat /\ i \in Nat
          BY <1>5, <3>4, <4>1, Zenon
        <5>. QED
          BY <5>1, SMTT(20)
      <4>. QED
        BY <4>2, <4>3, Zenon
    <3>. QED
      BY <1>3, <2>1, <3>3, <3>5, Zenon
  <2>2. CASE rd.chain # NoChain
    <3>1. rd.chain = sig[i]
      BY <1>1, <2>2, Zenon
    <3>2. PICK m \in 1..(Len(s) + 1) : c.sig = sig[m]
      BY <1>0, <1>7, SMTT(20)
    <3>3. sig[m] = <<sig[m - 1], Datum(s, m)>> /\ c.sig = <<sig[i], c.data>>
      BY <1>0, <1>3, <2>2, <3>1, Zenon DEF Chains, Sign
    <3>4. sig[m - 1] = sig[i] /\ Datum(s, m) = c.data
      <4>1. \A a, b, d, e : <<a, b>> = <<d, e>> => a = d /\ b = e
        BY SMTT(20)
      <4>. QED
        BY <3>2, <3>3, <4>1, SMTT(20)
    <3>5. m - 1 \in 0..(Len(s) + 1) /\ i \in 0..(Len(s) + 1)
      BY <1>4, SMTT(20)
    <3>6. m - 1 = i
      BY <1>0, <1>4, <3>4, <3>5, ChainInjective, Zenon
    <3>7. m = i + 1
      BY <1>5, <3>6, SMTT(20)
    <3>. QED
      BY <1>3, <2>2, <3>2, <3>4, <3>7, Zenon
  <2>. QED
    BY <2>1, <2>2, Zenon
<1>9. got = f[i] /\ got \in Seq(B) /\ Rest(rd) = <<>>
  <2>1. Rest(rd) = <<>>
    BY <1>3, SubSeqEmpty, SMTT(20) DEF Rest, Used, Typed
  <2>2. got \in Seq(B)
    BY Zenon DEF Typed
  <2>. QED
    BY <1>1, <1>5, <2>1, <2>2, ConcatEmptySeq, Zenon
<1>10. CASE i + 1 <= Len(s)
  <2>1. i + 1 \in 1..Len(s) /\ (i + 1) - 1 = i /\ i + 1 # Len(s) + 1
    BY <1>4, <1>5, <1>10, SMTT(20)
  <2>2. c.data = s[i + 1] /\ c.data # <<>>
    BY <1>4, <1>8, <1>10, <2>1, Zenon DEF Datum
  <2>3. Rest(q) = c.data
    <3>1. q.buf = c.data /\ q.pos + 1 = 1
      BY <1>3, <2>2, SMTT(20)
    <3>. QED
      BY <1>7, <3>1, SubSeqFull, Zenon DEF Rest
  <2>4. f[i + 1] = f[i] \o s[i + 1]
    BY <1>0, <2>1, Zenon DEF Flattens
  <2>5. got \o Rest(q) = f[IF i + 1 <= Len(s) THEN i + 1 ELSE Len(s)]
    BY <1>9, <1>10, <2>2, <2>3, <2>4, Zenon
  <2>6. q.done = (i + 1 = Len(s) + 1)
    BY <1>3, <2>1, <2>2, Zenon
  <2>7. i + 1 \in 0..(Len(s) + 1)
    BY <1>4, <1>5, SMTT(20)
  <2>. QED
    BY <1>8, <2>5, <2>6, <2>7, Zenon DEF Ordered
<1>11. CASE ~(i + 1 <= Len(s))
  <2>1. i = Len(s) /\ i + 1 = Len(s) + 1 /\ i + 1 \in 0..(Len(s) + 1)
    BY <1>4, <1>5, <1>11, SMTT(20)
  <2>2. c.data = <<>>
    BY <1>8, <1>11, Zenon DEF Datum
  <2>3. Rest(q) = <<>>
    BY <1>3, <1>9, <2>2, Zenon DEF Rest
  <2>4. got \o Rest(q) = f[IF i + 1 <= Len(s) THEN i + 1 ELSE Len(s)]
    BY <1>9, <1>11, <2>1, <2>3, ConcatEmptySeq, Zenon
  <2>5. q.done = (i + 1 = Len(s) + 1)
    BY <1>3, <2>1, <2>2, Zenon
  <2>. QED
    BY <1>8, <2>1, <2>4, <2>5, Zenon DEF Ordered
<1>. QED
  BY <1>10, <1>11, Zenon

\* What one read of a chunked body returns.
Taken(q, r) ==
    LET n == IF Used(q) THEN 0 ELSE Min2(BufBlocks, Len(q.buf) - q.pos) IN
    /\ r.rd = [q EXCEPT !.pos = @ + n]
    /\ r.got = SubSeq(q.buf, q.pos + 1, q.pos + n)

\* A read of a chunked body takes a chunk if it must and can, and returns what it has.
LEMMA ReadChunkedIs ==
  ASSUME NEW rd, NEW got, NEW B, NEW P, Typed(rd, got, B, P), rd.chunked,
         NEW r, r = Read(rd), ~r.rd.failed
  PROVE  \E q : (q = rd \/ Filled(rd, q)) /\ (Used(q) /\ q = rd => rd.done) /\ Taken(q, r)
<1>1. PICK q : q = IF Used(rd) /\ ~rd.done THEN FillNextChunk(rd) ELSE rd
  BY Zenon
<1>2. PICK n : n = IF q.failed \/ Used(q) THEN 0 ELSE Min2(BufBlocks, Len(q.buf) - q.pos)
  BY Zenon
<1>3. r = [rd |-> [q EXCEPT !.pos = @ + n], got |-> SubSeq(q.buf, q.pos + 1, q.pos + n)]
  BY <1>1, <1>2, Zenon DEF Read, ReadChunked
<1>4. r.rd = [q EXCEPT !.pos = @ + n] /\ r.got = SubSeq(q.buf, q.pos + 1, q.pos + n)
  <2>. DEFINE after == [q EXCEPT !.pos = @ + n]
              part == SubSeq(q.buf, q.pos + 1, q.pos + n)
  <2>1. r = [rd |-> after, got |-> part]
    BY <1>3, Zenon
  <2>. HIDE DEF after, part
  <2>2. r.rd = after /\ r.got = part
    BY <2>1, SMTT(20)
  <2>. QED
    BY <2>2, Zenon DEF after, part
<1>5. r.rd.failed = q.failed
  BY <1>4, SMTT(20)
<1>6. ~q.failed
  BY <1>5, Zenon
<1>7. Taken(q, r)
  BY <1>2, <1>4, <1>6, Zenon DEF Taken
<1>8. CASE Used(rd) /\ ~rd.done
  <2>1. Filled(rd, q)
    BY <1>1, <1>6, <1>8, FillIs, Zenon
  <2>2. q # rd
    <3>1. Len(q.wire) # Len(rd.wire)
      BY <2>1, HeadTailProperties, SMTT(20) DEF Filled, Typed
    <3>. QED
      BY <3>1, Zenon
  <2>. QED
    BY <1>7, <2>1, <2>2, Zenon
<1>9. CASE ~(Used(rd) /\ ~rd.done)
  BY <1>1, <1>7, <1>9, Zenon
<1>. QED
  BY <1>8, <1>9, Zenon

\* What a read returns, and what it leaves at hand, is what was at hand; it is nothing
\* only if nothing was.
Returned(q, got, r) ==
    /\ (got \o r.got) \o Rest(r.rd) = got \o Rest(q)
    /\ r.rd.wire = q.wire /\ r.rd.done = q.done /\ r.rd.chain = q.chain /\ r.rd.chunked = q.chunked
    /\ r.got = <<>> => Used(q)

\* So does a read of what is at hand.
LEMMA TakenIs ==
  ASSUME NEW q, NEW got, NEW B, NEW P, Typed(q, got, B, P), NEW r, Taken(q, r)
  PROVE  Typed(r.rd, got \o r.got, B, P) /\ Returned(q, got, r)
<1>1. PICK n : n = IF Used(q) THEN 0 ELSE Min2(BufBlocks, Len(q.buf) - q.pos)
  BY Zenon
<1>2. r.rd = [q EXCEPT !.pos = @ + n] /\ r.got = SubSeq(q.buf, q.pos + 1, q.pos + n)
  BY <1>1, Zenon DEF Taken
<1>3. /\ DOMAIN q = ReaderFields /\ q.buf \in Seq(B) /\ q.pos \in Nat /\ q.pos <= Len(q.buf) /\ got \in Seq(B)
      /\ Len(q.buf) \in Nat
  BY LenProperties, Zenon DEF Typed
<1>4. n \in Nat /\ q.pos + n <= Len(q.buf) /\ (~Used(q) => n > 0)
  <2>1. BufBlocks \in Nat /\ BufBlocks > 0
    BY BufAssumption, SMTT(20)
  <2>. QED
    BY <1>1, <1>3, <2>1, SMTT(20) DEF Used, Min2
<1>5. PICK m : m = q.pos + n
  BY Zenon
<1>6. m \in Nat /\ m <= Len(q.buf) /\ q.pos <= m /\ (~Used(q) => q.pos + 1 <= m)
  BY <1>3, <1>4, <1>5, SMTT(20)
<1>7. /\ r.rd.pos = m /\ r.rd.buf = q.buf /\ r.rd.wire = q.wire /\ r.rd.done = q.done /\ r.rd.chain = q.chain
      /\ r.rd.chunked = q.chunked /\ r.rd.remaining = q.remaining /\ r.rd.failed = q.failed
      /\ DOMAIN r.rd = ReaderFields
  <2>1. r.rd = [q EXCEPT !.pos = m]
    BY <1>2, <1>5, Zenon
  <2>2. "pos" \in DOMAIN q
    BY <1>3, SMTT(20) DEF ReaderFields
  <2>3. r.rd.pos = m /\ DOMAIN r.rd = ReaderFields
    BY <1>3, <2>1, <2>2, Zenon
  <2>4. \A x \in ReaderFields : x # "pos" => r.rd[x] = q[x]
    BY <1>3, <2>1, Zenon
  <2>5. \A x \in ReaderFields \ {"pos"} : r.rd[x] = q[x]
    BY <2>4, Zenon
  <2>6. {"chunked", "wire", "buf", "done", "chain", "remaining", "failed"} \subseteq ReaderFields \ {"pos"}
    BY SMTT(20) DEF ReaderFields
  <2>7. \A x \in {"chunked", "wire", "buf", "done", "chain", "remaining", "failed"} : r.rd[x] = q[x]
    BY <2>5, <2>6, Zenon
  <2>. QED
    BY <2>3, <2>7, Zenon
<1>8. r.got \in Seq(B) /\ Len(r.got) = n
  <2>1. \A i \in (q.pos + 1)..m : q.buf[i] \in B
    BY <1>3, <1>6, SMTT(20)
  <2>2. m - (q.pos + 1) + 1 = n /\ q.pos + 1 \in Int /\ m \in Int /\ (q.pos + 1 <= m \/ n = 0)
    BY <1>3, <1>4, <1>5, <1>6, SMTT(20)
  <2>3. SubSeq(q.buf, q.pos + 1, m) \in Seq(B) /\ Len(SubSeq(q.buf, q.pos + 1, m)) = n
    BY <2>1, <2>2, SubSeqProperties, SMTT(20)
  <2>. QED
    BY <1>2, <1>5, <2>3, Zenon
<1>9. got \o r.got \in Seq(B)
  BY <1>3, <1>8, ConcatProperties, SMTT(20)
<1>10. Typed(r.rd, got \o r.got, B, P)
  BY <1>3, <1>6, <1>7, <1>9, Zenon DEF Typed
<1>11. r.got \o Rest(r.rd) = Rest(q) /\ Rest(r.rd) \in Seq(B)
  <2>1. PICK b, k : b = q.buf /\ k = q.pos + 1
    BY Zenon
  <2>2. /\ b \in Seq(B) /\ k \in 1..(Len(b) + 1) /\ m \in (k - 1)..Len(b) /\ Len(b) \in m..Len(b)
    BY <1>3, <1>6, <2>1, SMTT(20)
  <2>3. SubSeq(b, k, m) \o SubSeq(b, m + 1, Len(b)) = SubSeq(b, k, Len(b))
    BY <2>2, ConcatAdjacentSubSeq, Zenon
  <2>4. \A i \in (m + 1)..Len(b) : b[i] \in B
    BY <1>6, <2>2, SMTT(20)
  <2>5. SubSeq(b, m + 1, Len(b)) \in Seq(B)
    <3>1. m + 1 \in Int /\ Len(b) \in Int
      BY <1>3, <1>6, <2>1, SMTT(20)
    <3>. QED
      BY <2>4, <3>1, SubSeqProperties, SMTT(20)
  <2>6. r.got = SubSeq(b, k, m) /\ Rest(r.rd) = SubSeq(b, m + 1, Len(b)) /\ Rest(q) = SubSeq(b, k, Len(b))
    BY <1>2, <1>5, <1>7, <2>1, Zenon DEF Rest
  <2>. QED
    BY <2>3, <2>5, <2>6, Zenon
<1>12. (got \o r.got) \o Rest(r.rd) = got \o Rest(q)
  <2>1. (got \o r.got) \o Rest(r.rd) = got \o (r.got \o Rest(r.rd))
    <3>1. PICK u, v, w : u = got /\ v = r.got /\ w = Rest(r.rd)
      BY Zenon
    <3>2. u \in Seq(B) /\ v \in Seq(B) /\ w \in Seq(B)
      BY <1>3, <1>8, <1>11, <3>1, Zenon
    <3>3. (u \o v) \o w = u \o (v \o w)
      BY <3>2, ConcatAssociative, SMTT(20)
    <3>. QED
      BY <3>1, <3>3, Zenon
  <2>. QED
    BY <1>11, <2>1, Zenon
<1>13. r.got = <<>> => Used(q)
  <2>1. r.got = <<>> => n = 0
    BY <1>8, EmptySeq, SMTT(20)
  <2>. QED
    BY <1>4, <2>1, SMTT(20)
<1>. QED
  BY <1>7, <1>10, <1>12, <1>13, Zenon DEF Returned

\* A reader of chunks is so after each read, and keeps the client's order.
LEMMA ReadChunkedSteps ==
  ASSUME NEW B, NEW s, NEW f, NEW sig, NEW sigs, Sends(B, s, f, sig, sigs),
         NEW rd, NEW got, Typed(rd, got, B, Packets(B, sigs)), rd.chunked, NEW r, r = Read(rd), ~r.rd.failed
  PROVE  /\ Typed(r.rd, got \o r.got, B, Packets(B, sigs)) /\ r.rd.chunked
         /\ Ordered(rd, got, s, f, sig) =>
               /\ Ordered(r.rd, got \o r.got, s, f, sig)
               /\ r.got = <<>> => got = f[Len(s)]
<1>0. /\ s \in Seq(Seq(B) \ {<<>>}) /\ Flattens(f, s) /\ Chains(sig, s)
      /\ \A i \in 0..(Len(s) + 1) : sig[i] # NoChain
      /\ \A i \in 1..(Len(s) + 1) : sig[i] # Seed
      /\ sigs = {sig[i] : i \in 1..(Len(s) + 1)}
  BY Zenon DEF Sends
<1>1. PICK q : (q = rd \/ Filled(rd, q)) /\ (Used(q) /\ q = rd => rd.done) /\ Taken(q, r)
  BY ReadChunkedIs, Zenon
<1>2. Typed(q, got, B, Packets(B, sigs)) /\ q.chunked
  <2>1. CASE q = rd
    BY <2>1, Zenon
  <2>2. CASE Filled(rd, q)
    BY <2>2, FilledTyped, Zenon DEF Filled
  <2>. QED
    BY <1>1, <2>1, <2>2, Zenon
<1>3. /\ Typed(r.rd, got \o r.got, B, Packets(B, sigs)) /\ r.rd.chunked
      /\ (got \o r.got) \o Rest(r.rd) = got \o Rest(q)
      /\ r.rd.wire = q.wire /\ r.rd.done = q.done /\ r.rd.chain = q.chain
      /\ r.got = <<>> => Used(q)
  <2>1. PICK P : P = Packets(B, sigs)
    BY Zenon
  <2>2. Typed(q, got, B, P) /\ Taken(q, r)
    BY <1>1, <1>2, <2>1, Zenon
  <2>3. Typed(r.rd, got \o r.got, B, P) /\ Returned(q, got, r)
    BY <2>2, TakenIs, Zenon
  <2>. QED
    BY <1>2, <2>1, <2>3, Zenon DEF Returned
<1>4. SUFFICES ASSUME Ordered(rd, got, s, f, sig)
               PROVE  Ordered(r.rd, got \o r.got, s, f, sig) /\ (r.got = <<>> => got = f[Len(s)])
  BY <1>3, Zenon
<1>5. Ordered(q, got, s, f, sig)
  <2>1. CASE q = rd
    BY <1>4, <2>1, Zenon
  <2>2. CASE Filled(rd, q)
    BY <1>4, <2>2, FilledOrdered, Zenon
  <2>. QED
    BY <1>1, <2>1, <2>2, Zenon
<1>6. Ordered(r.rd, got \o r.got, s, f, sig)
  BY <1>3, <1>5, Zenon DEF Ordered
<1>7. ASSUME r.got = <<>> PROVE got = f[Len(s)]
  <2>1. Used(q) /\ got \in Seq(B)
    BY <1>2, <1>3, <1>7, Zenon DEF Typed
  <2>2. Rest(q) = <<>>
    BY <1>2, <2>1, SubSeqEmpty, SMTT(20) DEF Rest, Used, Typed
  <2>3. q.done
    <3>1. CASE q = rd
      BY <1>1, <2>1, <3>1, Zenon
    <3>2. CASE Filled(rd, q)
      <4>1. PICK d : d = rd.wire[1].data
        BY Zenon
      <4>2. d \in Seq(B) /\ q.done = (d = <<>>) /\ (d # <<>> => q.buf = d /\ q.pos = 0)
        <5>1. rd.wire[1] \in Packets(B, sigs)
          BY <3>2, FilledTyped, SMTT(20)
        <5>2. d \in Seq(B)
          BY <4>1, <5>1, SMTT(20) DEF Packets
        <5>. QED
          BY <3>2, <4>1, <5>2, Zenon DEF Filled
      <4>3. d = <<>>
        <5>1. d # <<>> => Len(d) \in Nat /\ Len(d) # 0
          BY <4>2, EmptySeq, SMTT(20)
        <5>2. d # <<>> => 0 >= Len(d)
          BY <2>1, <4>2, Zenon DEF Used
        <5>. QED
          BY <5>1, <5>2, SMTT(20)
      <4>. QED
        BY <4>2, <4>3, Zenon
    <3>. QED
      BY <1>1, <3>1, <3>2, Zenon
  <2>4. PICK i \in 0..(Len(s) + 1) : got \o Rest(q) = f[IF i <= Len(s) THEN i ELSE Len(s)] /\ q.done = (i = Len(s) + 1)
    BY <1>5, Zenon DEF Ordered
  <2>5. ~(i <= Len(s))
    <3>1. Len(s) \in Nat
      BY <1>0, LenProperties, SMTT(20)
    <3>2. i = Len(s) + 1
      BY <2>3, <2>4, Zenon
    <3>. QED
      BY <3>1, <3>2, SMTT(20)
  <2>. QED
    BY <2>1, <2>2, <2>4, <2>5, ConcatEmptySeq, Zenon
<1>. QED
  BY <1>6, <1>7, Zenon

\* A sequence followed by another, and that by nothing else, begins with it.
LEMMA BeginsWith ==
  ASSUME NEW B, NEW u \in Seq(B), NEW v \in Seq(B), NEW w \in Seq(B), NEW n \in 0..Len(w), u \o v = SubSeq(w, 1, n)
  PROVE  IsPrefix(u, w)
<1>1. /\ Len(u) \in Nat /\ Len(v) \in Nat /\ Len(w) \in Nat /\ Len(u \o v) = Len(u) + Len(v)
      /\ \A i \in 1..(Len(u) + Len(v)) : (u \o v)[i] = IF i <= Len(u) THEN u[i] ELSE v[i - Len(u)]
  BY LenProperties, ConcatProperties, SMTT(20)
<1>2. \A i \in 1..n : w[i] \in B
  BY <1>1, SMTT(20)
<1>3. n \in Nat /\ n <= Len(w)
  BY <1>1, SMTT(20)
<1>4. Len(SubSeq(w, 1, n)) = n /\ \A i \in 1..n : SubSeq(w, 1, n)[i] = w[i]
  BY <1>2, <1>3, SubSeqProperties, SMTT(20)
<1>5. n = Len(u) + Len(v)
  BY <1>1, <1>4, Zenon
<1>6. Len(u) <= Len(w) /\ \A i \in 1..Len(u) : i \in 1..n /\ i <= Len(u) /\ i \in 1..(Len(u) + Len(v))
  BY <1>1, <1>3, <1>5, SMTT(20)
<1>7. \A i \in 1..Len(u) : u[i] = w[i]
  BY <1>1, <1>4, <1>6, Zenon
<1>8. SubSeq(u, 1, Len(u)) = SubSeq(w, 1, Len(u))
  <2>1. PICK x : x = SubSeq(w, 1, Len(u))
    BY Zenon
  <2>2. \A i \in 1..Len(u) : w[i] \in B
    BY <1>1, <1>7, SMTT(20)
  <2>3. x \in Seq(B) /\ Len(x) = Len(u) /\ \A i \in 1..Len(u) : x[i] = w[i]
    BY <1>1, <2>1, <2>2, SubSeqProperties, SMTT(20)
  <2>4. x = u
    BY <1>7, <2>3, SeqEqual, SMTT(20)
  <2>. QED
    BY <2>1, <2>4, SubSeqFull, Zenon
<1>. QED
  BY <1>6, <1>8, Zenon DEF IsPrefix

\* A reader of blocks returns the next ones of the body, as far as they arrive.
LEMMA ReadFixedSteps ==
  ASSUME NEW B, NEW P, NEW rd, NEW got, Typed(rd, got, B, P), ~rd.chunked, NEW r, r = Read(rd), NEW body
  PROVE  /\ Typed(r.rd, got \o r.got, B, P) /\ ~r.rd.chunked
         /\ Paced(rd, got, body) => Paced(r.rd, got \o r.got, body)
         /\ Len(got \o r.got) + r.rd.remaining = Len(got) + rd.remaining
<1>1. PICK n : n = Min2(Min2(BufBlocks, rd.remaining), Len(rd.wire))
  BY Zenon
<1>2. PICK wire, left : wire = rd.wire /\ left = rd.remaining
  BY Zenon
<1>3. /\ DOMAIN rd = ReaderFields /\ left \in Nat /\ got \in Seq(B)
      /\ wire \in Seq(B) \/ (left = 0 /\ wire \in Seq(P))
  BY <1>2, Zenon DEF Typed
<1>4. Len(wire) \in Nat
  BY <1>3, LenProperties, SMTT(20)
<1>5. n \in Nat /\ n <= left /\ n <= Len(wire)
  BY <1>1, <1>2, <1>3, <1>4, BufAssumption, SMTT(20) DEF Min2
<1>6. PICK head, tail : head = SubSeq(wire, 1, n) /\ tail = SubSeq(wire, n + 1, Len(wire))
  BY Zenon
<1>7. r = [rd |-> [rd EXCEPT !.remaining = left - n, !.wire = tail], got |-> head]
  BY <1>1, <1>2, <1>6, Zenon DEF Read, ReadFixed
<1>8. r.got = head /\ r.rd = [rd EXCEPT !.remaining = left - n, !.wire = tail]
  <2>. DEFINE after == [rd EXCEPT !.remaining = left - n, !.wire = tail]
  <2>1. r = [rd |-> after, got |-> head]
    BY <1>7, Zenon
  <2>. HIDE DEF after
  <2>2. r.rd = after /\ r.got = head
    BY <2>1, SMTT(20)
  <2>. QED
    BY <2>2, Zenon DEF after
<1>9. /\ r.rd.remaining = left - n /\ r.rd.wire = tail /\ DOMAIN r.rd = ReaderFields
      /\ \A x \in ReaderFields \ {"remaining", "wire"} : r.rd[x] = rd[x]
  <2>1. "remaining" \in DOMAIN rd /\ "wire" \in DOMAIN rd /\ "remaining" # "wire"
    BY <1>3, SMTT(20) DEF ReaderFields
  <2>. QED
    BY <1>3, <1>8, <2>1, Zenon
<1>10. \A x \in {"chunked", "buf", "pos", "done", "chain", "failed"} : r.rd[x] = rd[x]
  <2>1. {"chunked", "buf", "pos", "done", "chain", "failed"} \subseteq ReaderFields \ {"remaining", "wire"}
    BY SMTT(20) DEF ReaderFields
  <2>. QED
    BY <1>9, <2>1, Zenon
<1>11. /\ r.rd.chunked = rd.chunked /\ r.rd.buf = rd.buf /\ r.rd.pos = rd.pos /\ r.rd.done = rd.done
       /\ r.rd.failed = rd.failed
  BY <1>10, Zenon
<1>12. left - n \in Nat
  BY <1>3, <1>5, SMTT(20)
<1>13. CASE wire \in Seq(B)
  <2>1. \A i \in 1..Len(wire) : wire[i] \in B
    BY <1>13, SMTT(20)
  <2>2. (\A i \in 1..n : wire[i] \in B) /\ (\A i \in (n + 1)..Len(wire) : wire[i] \in B)
    BY <1>4, <1>5, <2>1, SMTT(20)
  <2>3. head \in Seq(B) /\ tail \in Seq(B)
    BY <1>4, <1>5, <1>6, <2>2, SubSeqProperties, SMTT(20)
  <2>4. got \o head \in Seq(B)
    BY <1>3, <2>3, ConcatProperties, SMTT(20)
  <2>5. Typed(r.rd, got \o r.got, B, P) /\ ~r.rd.chunked
    BY <1>8, <1>9, <1>11, <1>12, <2>3, <2>4, Zenon DEF Typed
  <2>6. head \o tail = wire
    <3>1. /\ 1 \in 1..(Len(wire) + 1) /\ n \in (1 - 1)..Len(wire) /\ Len(wire) \in n..Len(wire)
      BY <1>4, <1>5, SMTT(20)
    <3>2. head \o tail = SubSeq(wire, 1, Len(wire))
      BY <1>6, <1>13, <3>1, ConcatAdjacentSubSeq, Zenon
    <3>. QED
      BY <1>13, <3>2, SubSeqFull, Zenon
  <2>7. (got \o head) \o tail = got \o wire
    <3>1. (got \o head) \o tail = got \o (head \o tail)
      BY <1>3, <2>3, ConcatAssociative, SMTT(20)
    <3>. QED
      BY <2>6, <3>1, Zenon
  <2>8. rd.remaining = 0 /\ got = <<>> => r.rd.remaining = 0 /\ got \o r.got = <<>>
    <3>1. SUFFICES ASSUME left = 0, got = <<>> PROVE left - n = 0 /\ got \o head = <<>>
      BY <1>2, <1>8, <1>9, Zenon
    <3>2. n = 0
      BY <1>5, <3>1, SMTT(20)
    <3>3. head = <<>>
      BY <1>6, <3>2, SubSeqEmpty, SMTT(20)
    <3>. QED
      BY <3>1, <3>2, <3>3, ConcatEmptySeq, EmptySeq, SMTT(20)
  <2>9. Paced(rd, got, body) => Paced(r.rd, got \o r.got, body)
    BY <1>2, <1>8, <1>9, <2>7, <2>8, Zenon DEF Paced
  <2>10. Len(got \o r.got) + r.rd.remaining = Len(got) + rd.remaining
    <3>1. Len(head) = n
      BY <1>4, <1>5, <1>6, <1>13, SubSeqProperties, SMTT(20)
    <3>2. Len(got \o head) = Len(got) + Len(head) /\ Len(got) \in Nat
      BY <1>3, <2>3, ConcatProperties, LenProperties, Zenon
    <3>3. Len(got \o head) + (left - n) = Len(got) + left
      BY <1>3, <1>5, <3>1, <3>2, SMTT(20)
    <3>. QED
      BY <1>2, <1>8, <1>9, <3>3, Zenon
  <2>. QED
    BY <2>5, <2>9, <2>10, Zenon
<1>14. CASE left = 0 /\ wire \in Seq(P)
  <2>1. n = 0
    BY <1>5, <1>14, SMTT(20)
  <2>2. head = <<>> /\ tail = wire /\ left - n = 0
    <3>1. head = <<>> /\ n + 1 = 1 /\ left - n = 0
      BY <1>6, <1>14, <2>1, SubSeqEmpty, SMTT(20)
    <3>. QED
      BY <1>6, <1>14, <3>1, SubSeqFull, Zenon
  <2>3. got \o r.got = got
    BY <1>3, <1>8, <2>2, ConcatEmptySeq, Zenon
  <2>4. Typed(r.rd, got \o r.got, B, P) /\ ~r.rd.chunked
    BY <1>3, <1>9, <1>11, <1>12, <1>14, <2>2, <2>3, Zenon DEF Typed
  <2>5. Paced(rd, got, body) => Paced(r.rd, got \o r.got, body)
    BY <1>2, <1>9, <1>14, <2>2, <2>3, Zenon DEF Paced
  <2>6. Len(got \o r.got) + r.rd.remaining = Len(got) + rd.remaining
    BY <1>2, <1>9, <1>14, <2>2, <2>3, Zenon
  <2>. QED
    BY <2>4, <2>5, <2>6, Zenon
<1>. QED
  BY <1>3, <1>13, <1>14, Zenon
==============================================================================
