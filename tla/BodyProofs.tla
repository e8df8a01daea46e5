------------------------------ MODULE BodyProofs ------------------------------
(***************************************************************************)
(* What a connection carries besides its head (Server): the body the       *)
(* client sends, whole or cut or tampered with, what a put commits of it,  *)
(* and the part of an object an answer sends.  First what clients send as  *)
(* the readers see it, then a head that broke off, then an inductive       *)
(* invariant next to that of ServerProofs, one lemma for each action.  Then*)
(* the pages of a listing, while other clients change the bucket, and the  *)
(* types, which rest on all of it.                                         *)
(***************************************************************************)
EXTENDS ServerProofs, FramingProofs, FiniteSetTheorems

----------------------------------------------------------------------------
(* What a client sends, as the readers' invariants speak of it.            *)

\* The blocks of its body.
Stuff(c) == ToSet(Body(c))
\* What has been put together after each of its chunks, their signatures, and what may
\* be made of them on the way.
Parts(c) == CHOOSE f : Flattens(f, c.chunks) /\ FlattenSeq(c.chunks) = f[Len(c.chunks)]
Sigs(c) == CHOOSE sig :
    /\ Chains(sig, c.chunks)
    /\ Chain(c.chunks) = [i \in 1..(Len(c.chunks) + 1) |->
                             [data |-> Datum(c.chunks, i), sig |-> sig[i], whole |-> TRUE]]
Papers(c) == Packets(Stuff(c), {Sigs(c)[i] : i \in 1..(Len(c.chunks) + 1)})

\* What is known of a client that sends what it may.
Framed(c) ==
    /\ Len(c.chunks) \in Nat /\ c.chunks \in Seq(Seq(Stuff(c)) \ {<<>>})
    /\ Flattens(Parts(c), c.chunks) /\ Parts(c)[Len(c.chunks)] = Body(c)
    /\ Chains(Sigs(c), c.chunks)
    /\ Chain(c.chunks) = [i \in 1..(Len(c.chunks) + 1) |->
                             [data |-> Datum(c.chunks, i), sig |-> Sigs(c)[i], whole |-> TRUE]]
    /\ \A i \in 0..(Len(c.chunks) + 1) : Sigs(c)[i] # NoChain
    /\ \A i \in 1..(Len(c.chunks) + 1) : Sigs(c)[i] # Seed
    /\ Body(c) \in Seq(Stuff(c)) /\ Body(c) \in Seq(Block) /\ Stuff(c) \subseteq Block

\* The chunks a client sends, what they make together and their signatures.
LEMMA FramedIs ==
  ASSUME NEW c, Sendable(c)
  PROVE  Framed(c)
<1>. DEFINE s == c.chunks
<1>1. s \in Seq(Seq(Block) \ {<<>>}) /\ \A e \in ToSet(Chain(s)) : e.sig \notin {Seed, NoChain}
  BY Zenon DEF Sendable
<1>. HIDE DEF s
<1>2. s \in Seq(Seq(Block)) /\ Len(s) \in Nat /\ \A i \in 1..Len(s) : s[i] # <<>>
  BY <1>1, SMTT(20)
<1>3. PICK f : Flattens(f, s) /\ FlattenSeq(s) = f[Len(s)]
  BY <1>2, Flattening, Zenon
<1>4. Flattens(Parts(c), s) /\ Parts(c)[Len(s)] = Body(c)
  BY <1>3, Zenon DEF Parts, s, Body
<1>5. \E sig : /\ Chains(sig, s)
               /\ Chain(s) = [i \in 1..(Len(s) + 1) |-> [data |-> Datum(s, i), sig |-> sig[i], whole |-> TRUE]]
  BY <1>2, ChainIs, Zenon
<1>6. PICK sig : sig = Sigs(c)
  BY Zenon
<1>7. /\ Chains(sig, s)
      /\ Chain(s) = [i \in 1..(Len(s) + 1) |-> [data |-> Datum(s, i), sig |-> sig[i], whole |-> TRUE]]
  BY <1>5, <1>6, Zenon DEF Sigs, s
<1>8. ASSUME NEW i \in 1..(Len(s) + 1) PROVE sig[i] # NoChain /\ sig[i] # Seed
  <2>1. Chain(s)[i] = [data |-> Datum(s, i), sig |-> sig[i], whole |-> TRUE] /\ DOMAIN Chain(s) = 1..(Len(s) + 1)
    BY <1>7, Zenon
  <2>2. Chain(s)[i].sig = sig[i]
    BY <2>1, SMTT(20)
  <2>3. Chain(s)[i] \in ToSet(Chain(s))
    BY <2>1, Zenon DEF ToSet
  <2>. QED
    BY <1>1, <2>2, <2>3, Zenon
<1>9. \A i \in 0..(Len(s) + 1) : sig[i] # NoChain
  <2>1. sig[0] # NoChain
    BY <1>7, SeedAssumption, Zenon DEF Chains
  <2>2. \A i \in 0..(Len(s) + 1) : i = 0 \/ i \in 1..(Len(s) + 1)
    BY <1>2, SMTT(20)
  <2>. QED
    BY <1>8, <2>1, <2>2, Zenon
<1>10. s \in Seq(Seq(Stuff(c)))
  BY <1>2, <1>4, FlattenedHas, Zenon DEF Stuff
<1>11. s \in Seq(Seq(Stuff(c)) \ {<<>>})
  BY <1>2, <1>10, SMTT(20)
<1>12. Len(s) \in 0..Len(s)
  BY <1>2, SMTT(20)
<1>13. Body(c) \in Seq(Block)
  BY <1>2, <1>4, <1>12, Flattened, Zenon
<1>14. Stuff(c) \subseteq Block /\ Body(c) \in Seq(Stuff(c))
  <2>1. PICK b, B : b = Body(c) /\ B = Stuff(c)
    BY Zenon
  <2>2. b \in Seq(Block) /\ B = {b[i] : i \in DOMAIN b}
    BY <1>13, <2>1, Zenon DEF Stuff, ToSet
  <2>3. B \subseteq Block /\ b \in Seq(B)
    BY <2>2, SMTT(20)
  <2>. QED
    BY <2>1, <2>3, Zenon
<1>. QED
  BY <1>2, <1>4, <1>6, <1>7, <1>8, <1>9, <1>11, <1>13, <1>14, Zenon DEF Framed, s

LEMMA BodyLength ==
  ASSUME NEW c, Sendable(c)
  PROVE  Len(Body(c)) \in Nat /\ Len(Body(c)) < Word
<1>1. Body(c) \in Seq(Stuff(c))
  BY FramedIs, Zenon DEF Framed
<1>. QED
  BY <1>1, LenProperties, Zenon DEF Sendable

\* What may arrive of a body.
Arrives(c, w) ==
    /\ c.framing = "none" => w = <<>>
    /\ c.framing = "fixed" =>
          /\ w \in Seq(Stuff(c))
          /\ c.fault \notin Tampering => \E n \in 0..Len(Body(c)) : w = SubSeq(Body(c), 1, n)
    /\ c.framing \notin {"none", "fixed"} =>
          w \in Seq(Papers(c)) /\ (c.fault \notin Tampering => Straight(w, c.chunks, 0))

\* The beginning of a body sent as it is, or of its chunks, the last of them torn or not;
\* or its blocks or chunks with one left out, repeated, moved or altered.
LEMMA DeliveredIs ==
  ASSUME NEW c, Sendable(c), NEW anonymous, Faulty(c, anonymous), NEW w \in Delivered(c)
  PROVE  Arrives(c, w)
<1>1. Framed(c)
  BY FramedIs, Zenon
<1>2. PICK W : W = Wire(c)
  BY Zenon
<1>3. c.fault \in {"none", "cut", "torn", "drop", "repeat", "swap", "alter"}
  BY SMTT(20) DEF Faulty, Tampering
<1>4. CASE c.framing = "none"
  <2>1. W = <<>>
    BY <1>2, <1>4, SMTT(20) DEF Wire
  <2>2. c.fault \notin Tampering /\ c.fault \in {"none", "cut", "torn"}
    BY <1>3, <1>4, SMTT(20) DEF Faulty, Tampering
  <2>3. DOMAIN W = {}
    BY <2>1, SMTT(20)
  <2>4. w = <<>>
    BY <1>2, <2>1, <2>2, <2>3, SMTT(20) DEF Delivered
  <2>. QED
    BY <1>4, <2>4, SMTT(20) DEF Arrives
<1>5. CASE c.framing = "fixed"
  <2>1. PICK B, b : B = Stuff(c) /\ b = Body(c)
    BY Zenon
  <2>2. W = b /\ b \in Seq(B)
    BY <1>1, <1>2, <1>5, <2>1, SMTT(20) DEF Wire, Framed
  <2>3. c.fault \in {"none", "cut"} \cup Tampering
    BY <1>3, <1>5, SMTT(20) DEF Faulty, Tampering
  <2>4. CASE c.fault \in {"none", "cut"}
    <3>1. w = W \/ \E n \in DOMAIN W : w = SubSeq(W, 1, n - 1)
      BY <1>2, <2>4, SMTT(20) DEF Delivered
    <3>2. \E n \in 0..Len(b) : w = SubSeq(b, 1, n)
      <4>1. CASE w = W
        <5>1. Len(b) \in 0..Len(b)
          BY <2>2, SMTT(20)
        <5>. QED
          BY <2>2, <4>1, <5>1, SubSeqFull, Zenon
      <4>2. CASE \E n \in DOMAIN W : w = SubSeq(W, 1, n - 1)
        <5>1. \A n \in DOMAIN b : n - 1 \in 0..Len(b)
          BY <2>2, SMTT(20)
        <5>. QED
          BY <2>2, <4>2, <5>1, Zenon
      <4>. QED
        BY <3>1, <4>1, <4>2, Zenon
    <3>3. w \in Seq(B)
      BY <2>2, <3>2, SMTT(20)
    <3>. QED
      BY <1>5, <2>1, <3>2, <3>3, SMTT(20) DEF Arrives
  <2>5. CASE c.fault \in Tampering
    <3>1. w \in Seq(B)
      <4>1. CASE c.fault = "drop"
        <5>1. PICK n \in DOMAIN W : w = RemoveAt(W, n)
          BY <1>2, <4>1, SMTT(20) DEF Delivered
        <5>. QED
          BY <2>2, <5>1, SMTT(20) DEF RemoveAt
      <4>2. CASE c.fault = "repeat"
        <5>1. PICK n \in DOMAIN W : w = InsertAt(W, n, W[n])
          BY <1>2, <4>2, SMTT(20) DEF Delivered
        <5>. QED
          BY <2>2, <5>1, SMTT(20) DEF InsertAt
      <4>3. CASE c.fault = "swap"
        <5>1. PICK n \in 1..(Len(W) - 1) : w = [W EXCEPT ![n] = W[n + 1], ![n + 1] = W[n]]
          BY <1>2, <4>3, SMTT(20) DEF Delivered
        <5>. QED
          BY <2>2, <5>1, SMTT(20)
      <4>4. CASE c.fault = "alter"
        <5>1. PICK n \in DOMAIN W, m \in DOMAIN W : w = [W EXCEPT ![n] = W[m]]
          BY <1>2, <1>5, <4>4, SMTT(20) DEF Delivered
        <5>. QED
          BY <2>2, <5>1, SMTT(20)
      <4>. QED
        BY <2>5, <4>1, <4>2, <4>3, <4>4, Zenon DEF Tampering
    <3>. QED
      BY <1>5, <2>1, <2>5, <3>1, SMTT(20) DEF Arrives
  <2>. QED
    BY <2>3, <2>4, <2>5, Zenon
<1>6. CASE c.framing \notin {"none", "fixed"}
  <2>1. PICK B, sig, sigs, s : /\ B = Stuff(c) /\ sig = Sigs(c) /\ s = c.chunks
                               /\ sigs = {sig[i] : i \in 1..(Len(s) + 1)}
    BY Zenon
  <2>2. PICK P : P = Packets(B, sigs)
    BY Zenon
  <2>3. Papers(c) = P
    BY <2>1, <2>2, Zenon DEF Papers
  <2>4. W = Chain(s)
    BY <1>2, <1>6, <2>1, SMTT(20) DEF Wire
  <2>5. /\ Len(s) \in Nat /\ s \in Seq(Seq(B) \ {<<>>})
        /\ W = [i \in 1..(Len(s) + 1) |-> [data |-> Datum(s, i), sig |-> sig[i], whole |-> TRUE]]
    BY <1>1, <2>1, <2>4, Zenon DEF Framed
  <2>6. \A i \in 1..(Len(s) + 1) : Datum(s, i) \in Seq(B) /\ sig[i] \in sigs
    BY <2>1, <2>5, SMTT(20) DEF Datum
  <2>7. /\ Len(W) = Len(s) + 1 /\ DOMAIN W = 1..Len(W) /\ W \in Seq(P)
        /\ \A i \in 1..Len(W) : W[i] \in P /\ W[i].data = Datum(s, i)
    BY <2>2, <2>5, <2>6, SMTT(20) DEF Packets
  <2>8. CASE c.fault = "none" \/ w = W
    <3>1. w = W
      BY <1>2, <2>8, SMTT(20) DEF Delivered
    <3>2. Straight(w, s, 0)
      BY <2>5, <2>7, <3>1, SMTT(20) DEF Straight
    <3>. QED
      BY <1>6, <2>1, <2>3, <2>7, <3>1, <3>2, Zenon DEF Arrives
  <2>9. CASE c.fault = "cut"
    <3>1. PICK n \in DOMAIN W : w = SubSeq(W, 1, n - 1)
      BY <1>2, <2>9, SMTT(20) DEF Delivered
    <3>2. w \in Seq(P) /\ Len(w) = n - 1 /\ \A i \in 1..(n - 1) : w[i] = W[i] /\ i \in 1..Len(W)
      BY <2>5, <2>7, <3>1, SubSeqProperties, SMTT(20)
    <3>3. Straight(w, s, 0)
      <4>1. DOMAIN w = 1..(n - 1) /\ \A i \in 1..(n - 1) : 0 + i = i /\ i <= Len(s) + 1
        BY <2>5, <2>7, <3>1, <3>2, SMTT(20)
      <4>. QED
        BY <2>7, <3>2, <4>1, Zenon DEF Straight
    <3>. QED
      BY <1>6, <2>1, <2>3, <3>2, <3>3, Zenon DEF Arrives
  <2>10. CASE c.fault = "torn" /\ w # W
    <3>1. PICK n \in DOMAIN W : w = [SubSeq(W, 1, n) EXCEPT ![n].whole = FALSE]
      BY <1>2, <2>10, SMTT(20) DEF Delivered
    <3>2. PICK v : v = SubSeq(W, 1, n)
      BY Zenon
    <3>3. /\ v \in Seq(P) /\ Len(v) = n /\ n \in 1..n /\ n \in 1..Len(W)
          /\ \A i \in 1..n : v[i] = W[i] /\ i \in 1..Len(W) /\ 0 + i = i /\ i <= Len(s) + 1
      <4>1. n \in Nat /\ n \in 1..Len(W)
        BY <2>5, <2>7, <3>1, SMTT(20)
      <4>. QED
        BY <2>5, <2>7, <3>2, <4>1, SubSeqProperties, SMTT(20)
    <3>4. PICK e : e = [v[n] EXCEPT !.whole = FALSE]
      BY Zenon
    <3>5. e \in P /\ e.whole = FALSE
      <4>1. v[n] \in [data : Seq(B), sig : sigs, whole : BOOLEAN]
        BY <2>2, <2>7, <3>3, Zenon DEF Packets
      <4>2. PICK x : x = v[n]
        BY Zenon
      <4>3. x \in [data : Seq(B), sig : sigs, whole : BOOLEAN] /\ e = [x EXCEPT !.whole = FALSE]
        BY <3>4, <4>1, <4>2, Zenon
      <4>4. e \in [data : Seq(B), sig : sigs, whole : BOOLEAN]
        BY <4>3, Zenon
      <4>5. e.whole = FALSE
        BY <4>3, SMTT(20)
      <4>. QED
        BY <2>2, <4>4, <4>5, Zenon DEF Packets
    <3>6. w = [v EXCEPT ![n] = e]
      BY <3>1, <3>2, <3>4, Zenon
    <3>7. w \in Seq(P) /\ DOMAIN w = 1..n /\ w[n] = e /\ \A i \in 1..n : i # n => w[i] = v[i]
      BY <3>3, <3>5, <3>6, SMTT(20)
    <3>8. Straight(w, s, 0)
      BY <2>7, <3>3, <3>5, <3>7, Zenon DEF Straight
    <3>. QED
      BY <1>6, <2>1, <2>3, <3>7, <3>8, Zenon DEF Arrives
  <2>11. CASE c.fault = "drop"
    <3>1. PICK n \in DOMAIN W : w = RemoveAt(W, n)
      BY <1>2, <2>11, SMTT(20) DEF Delivered
    <3>2. w \in Seq(P)
      BY <2>7, <3>1, SMTT(20) DEF RemoveAt
    <3>. QED
      BY <1>6, <2>3, <2>11, <3>2, SMTT(20) DEF Arrives, Tampering
  <2>12. CASE c.fault = "repeat"
    <3>1. PICK n \in DOMAIN W : w = InsertAt(W, n, W[n])
      BY <1>2, <2>12, SMTT(20) DEF Delivered
    <3>2. w \in Seq(P)
      BY <2>7, <3>1, SMTT(20) DEF InsertAt
    <3>. QED
      BY <1>6, <2>3, <2>12, <3>2, SMTT(20) DEF Arrives, Tampering
  <2>13. CASE c.fault = "swap"
    <3>1. PICK n \in 1..(Len(W) - 1) : w = [W EXCEPT ![n] = W[n + 1], ![n + 1] = W[n]]
      BY <1>2, <2>13, SMTT(20) DEF Delivered
    <3>2. w \in Seq(P)
      BY <2>7, <3>1, SMTT(20)
    <3>. QED
      BY <1>6, <2>3, <2>13, <3>2, SMTT(20) DEF Arrives, Tampering
  <2>14. CASE c.fault = "alter"
    <3>9. c.framing = "streaming" /\ c.framing # "fixed"
      BY <1>6, <2>14, SMTT(20) DEF Faulty, Tampering
    <3>1. PICK n \in DOMAIN W : w = [W EXCEPT ![n].data = Reverse(@)]
      BY <1>2, <2>14, <3>9, SMTT(20) DEF Delivered
    <3>2. PICK e : e = [W[n] EXCEPT !.data = Reverse(@)]
      BY Zenon
    <3>3. w = [W EXCEPT ![n] = e]
      BY <3>1, <3>2, Zenon
    <3>4. W[n] \in P /\ W[n].data \in Seq(B)
      BY <2>2, <2>7, <3>1, SMTT(20) DEF Packets
    <3>5. Reverse(W[n].data) \in Seq(B)
      BY <3>4, SMTT(20) DEF Reverse
    <3>6. e \in P
      BY <2>2, <3>2, <3>4, <3>5, SMTT(20) DEF Packets
    <3>7. w \in Seq(P)
      <4>1. Len(W) \in Nat /\ W \in [1..Len(W) -> P]
        BY <2>7, LenProperties, Zenon
      <4>2. w \in [1..Len(W) -> P]
        BY <3>3, <3>6, <4>1, Zenon
      <4>. QED
        BY <4>1, <4>2, FunctionIsSeq, Zenon
    <3>. QED
      BY <1>6, <2>3, <2>14, <3>7, SMTT(20) DEF Arrives, Tampering
  <2>. QED
    BY <1>3, <2>8, <2>9, <2>10, <2>11, <2>12, <2>13, <2>14, Zenon
<1>. QED
  BY <1>4, <1>5, <1>6, Zenon

----------------------------------------------------------------------------
(* The head of a request, whole or in part.                                *)

\* The lines of a client's head, or the first of them and of the last of these a part.
Headed(l, c) ==
    /\ Lines(l)
    /\ \A i \in DOMAIN l :
          IF i <= Len(HeadLines(c))
          THEN \/ l[i] = HeadLines(c)[i]
               \/ /\ i = Len(l) /\ l[i][1] = HeadLines(c)[i][1]
                  /\ l[i][2] \in Partial(HeadLines(c)[i])
          ELSE \/ l[i][1] = "authorization" /\ c.auth = "header"
               \/ l[i][1] = "content-length" /\ l[i][2] \in 0..Len(Body(c))

\* None of them is in part.
Complete(l, c) == \A i \in DOMAIN l : i <= Len(HeadLines(c)) => l[i] = HeadLines(c)[i]

\* They are so whole,
LEMMA HeadedWhole ==
  ASSUME NEW c, Sendable(c), NEW ask, NEW when, NEW req, req = Request(c, ask, when)
  PROVE  Headed(req.lines, c) /\ Complete(req.lines, c)
<1>1. PICK H, a, b : /\ H = HeadLines(c)
                     /\ a = Line(c.auth = "header", "authorization", Signed(c, when))
                     /\ b = Line(c.framing = "fixed", "content-length", Len(Body(c)))
  BY Zenon
<1>2. PICK ha : ha = H \o a
  BY Zenon
<1>3. PICK l : l = ha \o b
  BY Zenon
<1>4. req.lines = l
  BY <1>1, <1>2, <1>3, SMTT(20) DEF Request
<1>5. Lines(H)
  BY <1>1, HeadLinesAre, Zenon
<1>6. a = <<>> \/ (a = << <<"authorization", Signed(c, when)>> >> /\ c.auth = "header")
  BY <1>1, Zenon DEF Line
<1>7. b = <<>> \/ b = << <<"content-length", Len(Body(c))>> >>
  BY <1>1, Zenon DEF Line
<1>8. PICK S : H \in Seq(S)
  BY <1>5, Zenon DEF Lines
<1>9. PICK x, y : x = <<"authorization", Signed(c, when)>> /\ y = <<"content-length", Len(Body(c))>>
  BY Zenon
<1>10. x[1] = "authorization"
  BY <1>9, SMTT(20)
<1>11. PICK T : T = S \cup {x, y}
  BY Zenon
<1>12. (a = <<>> \/ (a = <<x>> /\ c.auth = "header")) /\ (b = <<>> \/ b = <<y>>)
  BY <1>6, <1>7, <1>9, Zenon
<1>13. /\ l \in Seq(T) /\ Len(H) \in Nat
       /\ \A i \in DOMAIN l : \/ i <= Len(H) /\ l[i] = H[i]
                              \/ ~(i <= Len(H)) /\ ((l[i] = x /\ c.auth = "header") \/ l[i] = y)
  <2>1. H \in Seq(T) /\ a \in Seq(T) /\ b \in Seq(T) /\ Len(H) \in Nat /\ DOMAIN a = 1..Len(a) /\ DOMAIN b = 1..Len(b)
    <3>1. x \in T /\ y \in T /\ H \in Seq(T) /\ Len(H) \in Nat
      BY <1>8, <1>11, SMTT(20)
    <3>4. <<>> \in Seq(T) /\ <<x>> \in Seq(T) /\ <<y>> \in Seq(T)
      BY <3>1, SMTT(20)
    <3>2. a \in Seq(T)
      BY <1>12, <3>4, Zenon
    <3>3. b \in Seq(T)
      BY <1>12, <3>4, Zenon
    <3>. QED
      BY <3>1, <3>2, <3>3, LenProperties, SMTT(20)
  <2>2. (\A j \in 1..Len(a) : a[j] = x /\ c.auth = "header") /\ \A j \in 1..Len(b) : b[j] = y
    BY <1>12, SMTT(20)
  <2>3. ha \in Seq(T) /\ Len(ha) = Len(H) + Len(a) /\ Len(a) \in Nat
        /\ \A i \in 1..(Len(H) + Len(a)) : ha[i] = IF i <= Len(H) THEN H[i] ELSE a[i - Len(H)]
    BY <1>2, <2>1, ConcatProperties, LenProperties, SMTT(20)
  <2>4. l \in Seq(T) /\ Len(l) = Len(ha) + Len(b) /\ Len(b) \in Nat /\ DOMAIN l = 1..(Len(ha) + Len(b))
        /\ \A i \in 1..(Len(ha) + Len(b)) : l[i] = IF i <= Len(ha) THEN ha[i] ELSE b[i - Len(ha)]
    <3>1. ha \in Seq(T) /\ b \in Seq(T)
      BY <2>1, <2>3, Zenon
    <3>2. /\ ha \o b \in Seq(T) /\ Len(ha \o b) = Len(ha) + Len(b)
          /\ \A i \in 1..(Len(ha) + Len(b)) : (ha \o b)[i] = IF i <= Len(ha) THEN ha[i] ELSE b[i - Len(ha)]
      BY <3>1, ConcatProperties, Zenon
    <3>3. DOMAIN l = 1..Len(l) /\ Len(b) \in Nat
      BY <1>3, <3>1, <3>2, LenProperties, Zenon
    <3>. QED
      BY <1>3, <3>2, <3>3, Zenon
  <2>5. ASSUME NEW i \in DOMAIN l
        PROVE  \/ i <= Len(H) /\ l[i] = H[i]
               \/ ~(i <= Len(H)) /\ ((l[i] = x /\ c.auth = "header") \/ l[i] = y)
    <3>1. CASE i <= Len(H)
      BY <2>1, <2>3, <2>4, <3>1, SMTT(20)
    <3>2. CASE ~(i <= Len(H)) /\ i <= Len(ha)
      <4>1. i - Len(H) \in 1..Len(a) /\ i \in 1..(Len(H) + Len(a))
        BY <2>1, <2>3, <2>4, <3>2, SMTT(20)
      <4>2. l[i] = ha[i] /\ ha[i] = a[i - Len(H)]
        BY <2>3, <2>4, <3>2, <4>1, Zenon
      <4>. QED
        BY <2>2, <3>2, <4>1, <4>2, Zenon
    <3>3. CASE ~(i <= Len(ha))
      <4>1. i - Len(ha) \in 1..Len(b) /\ ~(i <= Len(H))
        BY <2>1, <2>3, <2>4, <3>3, SMTT(20)
      <4>2. l[i] = b[i - Len(ha)]
        BY <2>4, <3>3, Zenon
      <4>. QED
        BY <2>2, <4>1, <4>2, Zenon
    <3>. QED
      BY <3>1, <3>2, <3>3, Zenon
  <2>. QED
    BY <2>1, <2>4, <2>5, Zenon
<1>14. y[1] = "content-length" /\ y[2] \in 0..Len(Body(c))
  <2>1. Len(Body(c)) \in Nat
    BY BodyLength, Zenon
  <2>. QED
    BY <1>9, <2>1, SMTT(20)
<1>. QED
  BY <1>1, <1>4, <1>10, <1>13, <1>14, Zenon DEF Headed, Complete, Lines

\* if the rest is lost,
LEMMA HeadedCut ==
  ASSUME NEW c, NEW l, Headed(l, c), NEW n \in 0..Len(l)
  PROVE  Headed(SubSeq(l, 1, n), c)
<1>1. PICK S : l \in Seq(S)
  BY Zenon DEF Headed, Lines
<1>2. PICK m : m = SubSeq(l, 1, n)
  BY Zenon
<1>3. m \in Seq(S) /\ \A i \in DOMAIN m : i \in DOMAIN l /\ m[i] = l[i] /\ (i = Len(l) => i = Len(m))
  BY <1>1, <1>2, SMTT(20)
<1>. QED
  BY <1>2, <1>3, Zenon DEF Headed, Lines

\* and if it breaks off within a line.
LEMMA HeadedTorn ==
  ASSUME NEW c, Sendable(c), NEW l, Headed(l, c), Complete(l, c), NEW n \in DOMAIN l, NEW v \in Partial(l[n])
  PROVE  Headed(Append(SubSeq(l, 1, n - 1), <<l[n][1], v>>), c)
<1>1. PICK S : l \in Seq(S)
  BY Zenon DEF Headed, Lines
<1>2. PICK H, x : H = HeadLines(c) /\ x = <<l[n][1], v>>
  BY Zenon
<1>3. PICK m : m = Append(SubSeq(l, 1, n - 1), x)
  BY Zenon
<1>4. n \in 1..Len(l) /\ Len(l) \in Nat /\ DOMAIN l = 1..Len(l)
  BY <1>1, SMTT(20)
<1>5. m \in Seq(S \cup {x}) /\ Len(m) = n /\ m[n] = x /\ DOMAIN m = 1..n /\ \A i \in 1..(n - 1) : m[i] = l[i]
  <2>1. PICK k : k = SubSeq(l, 1, n - 1)
    BY Zenon
  <2>2. k \in Seq(S) /\ Len(k) = n - 1 /\ \A i \in 1..(n - 1) : k[i] = l[i]
    BY <1>1, <1>4, <2>1, SubSeqProperties, SMTT(20)
  <2>3. k \in Seq(S \cup {x}) /\ x \in S \cup {x} /\ m = Append(k, x)
    BY <1>3, <2>1, <2>2, SMTT(20)
  <2>. QED
    BY <1>4, <2>2, <2>3, AppendProperties, LenProperties, SMTT(20)
<1>6. \A i \in DOMAIN l : IF i <= Len(H) THEN l[i] = H[i]
                          ELSE \/ l[i][1] = "authorization" /\ c.auth = "header"
                               \/ l[i][1] = "content-length" /\ l[i][2] \in 0..Len(Body(c))
  BY <1>2, Zenon DEF Headed, Complete
<1>7. x[1] = l[n][1] /\ x[2] = v
  BY <1>2, SMTT(20)
<1>8. l[n][1] = "content-length" /\ l[n][2] \in 0..Len(Body(c)) => x[2] \in 0..Len(Body(c))
  <2>1. SUFFICES ASSUME l[n][1] = "content-length", l[n][2] \in 0..Len(Body(c)) PROVE v \in 0..Len(Body(c))
    BY <1>7, Zenon
  <2>2. v \in 0..l[n][2]
    BY <2>1, Zenon DEF Partial
  <2>3. Len(Body(c)) \in Nat
    BY BodyLength, Zenon
  <2>. QED
    BY <2>1, <2>2, <2>3, SMTT(20)
<1>9. ASSUME NEW i \in DOMAIN m
      PROVE  IF i <= Len(H) THEN m[i] = H[i] \/ (i = Len(m) /\ m[i][1] = H[i][1] /\ m[i][2] \in Partial(H[i]))
             ELSE \/ m[i][1] = "authorization" /\ c.auth = "header"
                  \/ m[i][1] = "content-length" /\ m[i][2] \in 0..Len(Body(c))
  <2>1. CASE i = n
    BY <1>5, <1>6, <1>7, <1>8, <2>1, Zenon
  <2>2. CASE i # n
    <3>1. i \in 1..(n - 1) /\ i \in DOMAIN l /\ i # Len(l)
      BY <1>4, <1>5, <2>2, SMTT(20)
    <3>. QED
      BY <1>5, <1>6, <3>1, Zenon
  <2>. QED
    BY <2>1, <2>2, Zenon
<1>. QED
  BY <1>2, <1>3, <1>5, <1>9, Zenon DEF Headed, Lines

\* The length announced is not more than the body's.
LEMMA LengthIs ==
  ASSUME NEW c, Sendable(c), NEW req, Headed(req.lines, c)
  PROVE  Length(req) \in 0..Len(Body(c))
<1>1. PICK l : l = req.lines
  BY Zenon
<1>2. PICK S : l \in Seq(S)
  BY <1>1, Zenon DEF Headed, Lines
<1>3. ~Has(HeadLines(c), "content-length") /\ Lines(HeadLines(c))
  BY HeadLinesAre, Zenon
<1>4. SUFFICES ASSUME Has(l, "content-length") PROVE Get(l, "content-length") \in 0..Len(Body(c))
  <2>1. 0 \in 0..Len(Body(c))
    BY BodyLength, SMTT(20)
  <2>. QED
    BY <1>1, <2>1, Zenon DEF Length
<1>5. ASSUME NEW i \in DOMAIN l, l[i][1] = "content-length" PROVE l[i][2] \in 0..Len(Body(c))
  <2>1. CASE i <= Len(HeadLines(c))
    <3>1. i \in DOMAIN HeadLines(c)
      BY <1>2, <1>3, <2>1, SMTT(20) DEF Lines
    <3>. QED
      BY <1>1, <1>3, <1>5, <2>1, <3>1, Zenon DEF Headed, Has
  <2>2. CASE ~(i <= Len(HeadLines(c)))
    <3>1. "authorization" # "content-length"
      BY SMTT(20)
    <3>. QED
      BY <1>1, <1>5, <2>2, <3>1, Zenon DEF Headed
  <2>. QED
    BY <2>1, <2>2, Zenon
<1>6. \E i \in DOMAIN l : l[i][1] = "content-length" /\ Get(l, "content-length") = l[i][2]
  <2>1. PICK at : at = {i \in DOMAIN l : l[i][1] = "content-length"}
    BY Zenon
  <2>2. at \in SUBSET (1..Len(l)) /\ at # {} /\ Len(l) \in Nat
    BY <1>2, <1>4, <2>1, SMTT(20) DEF Has
  <2>3. Max(at) \in at
    BY <2>2, MaxIn, Zenon
  <2>4. Get(l, "content-length") = l[Max(at)][2]
    BY <1>4, <2>1, Zenon DEF Get
  <2>. QED
    BY <2>1, <2>3, <2>4, Zenon
<1>. QED
  BY <1>5, <1>6, Zenon

\* A head that has its signature has all that comes before it.
LEMMA SignedHead ==
  ASSUME NEW c, NEW l, Headed(l, c), Has(l, "authorization")
  PROVE  /\ c.auth = "header"
         /\ \A n : n \notin {"authorization", "content-length"} =>
                Get(l, n) = Get(HeadLines(c), n) /\ (Has(l, n) <=> Has(HeadLines(c), n))
<1>1. PICK H : H = HeadLines(c)
  BY Zenon
<1>2. Lines(H) /\ ~Has(H, "authorization")
  BY <1>1, HeadLinesAre, Zenon
<1>3. PICK S, T : l \in Seq(S) /\ H \in Seq(T)
  BY <1>2, Zenon DEF Headed, Lines
<1>4. PICK k \in DOMAIN l : l[k][1] = "authorization"
  BY Zenon DEF Has
<1>5. \A i \in DOMAIN l : IF i <= Len(H) THEN l[i] = H[i] \/ (i = Len(l) /\ l[i][1] = H[i][1])
                          ELSE \/ l[i][1] = "authorization" /\ c.auth = "header"
                               \/ l[i][1] = "content-length" /\ l[i][2] \in 0..Len(Body(c))
  BY <1>1, Zenon DEF Headed
<1>6. Len(H) \in Nat /\ DOMAIN H = 1..Len(H) /\ Len(l) \in Nat /\ DOMAIN l = 1..Len(l)
  BY <1>3, SMTT(20)
<1>7. ~(k <= Len(H))
  <2>1. SUFFICES ASSUME k <= Len(H) PROVE FALSE
    BY Zenon
  <2>2. k \in DOMAIN H
    BY <1>6, <2>1, SMTT(20)
  <2>. QED
    BY <1>2, <1>4, <1>5, <2>1, <2>2, Zenon DEF Has
<1>8. \A i \in DOMAIN H : i <= Len(H) /\ i \in DOMAIN l /\ l[i] = H[i]
  <2>1. \A i \in DOMAIN H : i <= Len(H) /\ i \in DOMAIN l /\ i # Len(l)
    BY <1>6, <1>7, SMTT(20)
  <2>. QED
    BY <1>5, <2>1, Zenon
<1>9. \A i \in DOMAIN l : i \notin DOMAIN H => ~(i <= Len(H)) /\ l[i][1] \in {"authorization", "content-length"}
  <2>1. \A i \in DOMAIN l : i \notin DOMAIN H => ~(i <= Len(H))
    BY <1>6, SMTT(20)
  <2>. QED
    BY <1>5, <2>1, Zenon
<1>10. c.auth = "header"
  <2>1. "content-length" # "authorization"
    BY SMTT(20)
  <2>. QED
    BY <1>4, <1>5, <1>7, <2>1, Zenon
<1>11. ASSUME NEW n, n \notin {"authorization", "content-length"}
       PROVE  Get(l, n) = Get(H, n) /\ (Has(l, n) <=> Has(H, n))
  <2>1. \A i \in DOMAIN l : l[i][1] = n => i \in DOMAIN H
    BY <1>9, <1>11, Zenon
  <2>2. Has(l, n) <=> Has(H, n)
    BY <1>8, <2>1, Zenon DEF Has
  <2>3. {i \in DOMAIN l : l[i][1] = n} = {i \in DOMAIN H : H[i][1] = n}
    BY <1>8, <2>1, Zenon
  <2>4. CASE Has(H, n)
    <3>1. PICK at : at = {i \in DOMAIN H : H[i][1] = n}
      BY Zenon
    <3>2. at \in SUBSET (1..Len(H)) /\ at # {}
      BY <1>6, <2>4, <3>1, SMTT(20) DEF Has
    <3>3. Max(at) \in at
      BY <1>6, <3>2, MaxIn, Zenon
    <3>4. l[Max(at)] = H[Max(at)]
      BY <1>8, <3>1, <3>3, Zenon
    <3>. QED
      BY <2>2, <2>3, <2>4, <3>1, <3>4, Zenon DEF Get
  <2>5. CASE ~Has(H, n)
    BY <2>2, <2>5, Zenon DEF Get
  <2>. QED
    BY <2>2, <2>4, <2>5, Zenon
<1>. QED
  BY <1>1, <1>10, <1>11, Zenon

----------------------------------------------------------------------------
(* The reader a handler sets up.                                           *)

\* A reader of chunks at its start.
LEMMA ChunkedStarts ==
  ASSUME NEW B, NEW P, NEW w \in Seq(P), NEW chain, NEW rd, rd = Chunked(w, chain)
  PROVE  /\ Typed(rd, <<>>, B, P) /\ rd.chunked
         /\ \A s, f, sig :
               Len(s) \in Nat /\ Flattens(f, s) /\ Chains(sig, s)
               /\ (chain = Seed \/ (chain = NoChain /\ Straight(w, s, 0))) => Ordered(rd, <<>>, s, f, sig)
<1>1. /\ DOMAIN rd = ReaderFields /\ rd.chunked = TRUE /\ rd.done = FALSE /\ rd.failed = FALSE /\ rd.wire = w
      /\ rd.buf = <<>> /\ rd.pos = 0 /\ rd.remaining = 0 /\ rd.chain = chain
  BY SMTT(20) DEF Chunked, ReaderFields
<1>2. <<>> \in Seq(B) /\ Len(<<>>) = 0 /\ 0 \in Nat /\ 0 <= 0 /\ TRUE \in BOOLEAN /\ FALSE \in BOOLEAN
  BY SMTT(20)
<1>3. Typed(rd, <<>>, B, P)
  BY <1>1, <1>2, Zenon DEF Typed
<1>4. <<>> \o Rest(rd) = <<>>
  <2>1. Rest(rd) = SubSeq(<<>>, 0 + 1, Len(<<>>))
    BY <1>1, Zenon DEF Rest
  <2>. QED
    BY <1>2, <2>1, SMTT(20)
<1>5. ASSUME NEW s, NEW f, NEW sig,
             Len(s) \in Nat /\ Flattens(f, s) /\ Chains(sig, s)
             /\ (chain = Seed \/ (chain = NoChain /\ Straight(w, s, 0)))
      PROVE  Ordered(rd, <<>>, s, f, sig)
  <2>1. 0 \in 0..(Len(s) + 1) /\ 0 <= Len(s) /\ 0 # Len(s) + 1
    BY <1>5, SMTT(20)
  <2>2. f[0] = <<>> /\ sig[0] = Seed
    BY <1>5, Zenon DEF Flattens, Chains
  <2>3. (IF 0 <= Len(s) THEN 0 ELSE Len(s)) = 0
    BY <2>1, Zenon
  <2>4. rd.done = (0 = Len(s) + 1)
    BY <1>1, <2>1, Zenon
  <2>5. rd.chain = sig[0] \/ (rd.chain = NoChain /\ Straight(rd.wire, s, 0))
    BY <1>1, <1>5, <2>2, Zenon
  <2>. QED
  BY <1>4, <2>1, <2>2, <2>3, <2>4, <2>5, Zenon DEF Ordered
<1>6. rd.chunked
  BY <1>1, Zenon
<1>. QED
  BY <1>3, <1>5, <1>6, Zenon

\* And one of blocks.
LEMMA FixedStarts ==
  ASSUME NEW B, NEW P, NEW w, NEW n \in Nat, w \in Seq(B) \/ (n = 0 /\ w \in Seq(P)), NEW rd, rd = Fixed(w, n)
  PROVE  /\ Typed(rd, <<>>, B, P) /\ ~rd.chunked
         /\ \A body : (\E k \in 0..Len(body) : w = SubSeq(body, 1, k)) => Paced(rd, <<>>, body)
<1>1. /\ DOMAIN rd = ReaderFields /\ rd.chunked = FALSE /\ rd.done = FALSE /\ rd.failed = FALSE /\ rd.wire = w
      /\ rd.buf = <<>> /\ rd.pos = 0 /\ rd.remaining = n
  BY SMTT(20) DEF Fixed, ReaderFields
<1>2. <<>> \in Seq(B) /\ Len(<<>>) = 0 /\ 0 \in Nat /\ 0 <= 0 /\ TRUE \in BOOLEAN /\ FALSE \in BOOLEAN
  BY SMTT(20)
<1>3. Typed(rd, <<>>, B, P)
  BY <1>1, <1>2, Zenon DEF Typed
<1>4. <<>> \o rd.wire = w
  BY <1>1, ConcatEmptySeq, Zenon
<1>. QED
  BY <1>1, <1>3, <1>4, Zenon DEF Paced

\* What the lines of a whole request say of its body.
LEMMA BodyLines ==
  ASSUME NEW c, NEW ask, NEW when, NEW req, req = Request(c, ask, when)
  PROVE  /\ Get(req.lines, "content-encoding") = "aws-chunked" <=> c.framing \in {"streaming", "chunked"}
         /\ Streaming(req) <=> c.framing \in {"streaming", "trailer", "chunked"}
         /\ c.framing = "streaming" => Payload(req.lines) = "STREAMING"
         /\ Has(req.lines, "content-length") => c.framing = "fixed"
         /\ c.auth # "presigned" => ~IsPresigned(req)
<1>1. PICK l, H : l = req.lines /\ H = HeadLines(c)
  BY Zenon
<1>2. /\ Get(l, "content-encoding") = Get(H, "content-encoding")
      /\ Get(l, "x-amz-content-sha256") = Get(H, "x-amz-content-sha256")
  <2>1. /\ "content-encoding" \notin {"authorization", "content-length"}
        /\ "x-amz-content-sha256" \notin {"authorization", "content-length"}
    BY SMTT(20)
  <2>. QED
    BY <1>1, <2>1, RequestLines, Zenon DEF Same
<1>3. /\ Get(H, "content-encoding") = IF c.framing \in {"streaming", "chunked"} THEN "aws-chunked" ELSE None
      /\ Get(H, "x-amz-content-sha256") =
            IF c.framing = "streaming" THEN "STREAMING" ELSE IF c.framing = "trailer" THEN "TRAILER"
            ELSE IF c.framing = "fixed" THEN "DIGEST" ELSE None
  BY <1>1, HeadLinesAre, Zenon
<1>4. None # "aws-chunked" /\ None # "STREAMING" /\ None # "TRAILER"
  BY NoneAssumption, Zenon
<1>5. Get(l, "content-encoding") = "aws-chunked" <=> c.framing \in {"streaming", "chunked"}
  BY <1>2, <1>3, <1>4, Zenon
<1>6. Streaming(req) <=> c.framing \in {"streaming", "trailer", "chunked"}
  BY <1>1, <1>2, <1>3, <1>4, SMTT(20) DEF Streaming
<1>7. c.framing = "streaming" => Payload(l) = "STREAMING"
  BY <1>2, <1>3, <1>4, Zenon DEF Payload, Get
<1>8. Has(l, "content-length") => c.framing = "fixed"
  <2>1. PICK a, b : a = Line(c.auth = "header", "authorization", Signed(c, when))
                    /\ b = Line(c.framing = "fixed", "content-length", Len(Body(c)))
    BY Zenon
  <2>2. PICK ha : ha = H \o a
    BY Zenon
  <2>3. l = ha \o b
    BY <1>1, <2>1, <2>2, SMTT(20) DEF Request
  <2>4. a = <<>> \/ a = << <<"authorization", Signed(c, when)>> >>
    BY <2>1, Zenon DEF Line
  <2>5. Lines(a) /\ (Has(a, "content-length") => "content-length" = "authorization")
    BY <2>4, OneLineIs, NoLineIs, Zenon
  <2>6. b = <<>> \/ (c.framing = "fixed" /\ b = << <<"content-length", Len(Body(c))>> >>)
    BY <2>1, Zenon DEF Line
  <2>7. Lines(b) /\ (Has(b, "content-length") => c.framing = "fixed")
    BY <2>6, OneLineIs, NoLineIs, Zenon
  <2>8. Lines(H) /\ ~Has(H, "content-length") /\ "content-length" # "authorization"
    <3>1. "content-length" # "authorization"
      BY SMTT(20)
    <3>. QED
      BY <1>1, <3>1, HeadLinesAre, Zenon
  <2>9. Lines(ha) /\ ~Has(ha, "content-length")
    BY <2>2, <2>5, <2>8, Joined, Zenon
  <2>. QED
    BY <2>3, <2>7, <2>9, Joined, Zenon
<1>9. c.auth # "presigned" => ~IsPresigned(req)
  BY SMTT(20) DEF Request, IsPresigned
<1>. QED
  BY <1>1, <1>5, <1>6, <1>7, <1>8, <1>9, Zenon

\* A reader of what a client sends, and what more is known of one that puts it.
Reads(rd, got, c) == Typed(rd, got, Stuff(c), Papers(c))
\* A body sent in chunks is read as chunks, if its head came whole.
Puts(rd, got, c, cut) ==
    /\ rd.chunked => Ordered(rd, got, c.chunks, Parts(c), Sigs(c))
    /\ ~rd.chunked => Paced(rd, got, Body(c)) \/ (Unseen(c) /\ Len(got) + rd.remaining < Word)
    /\ cut = "no" /\ c.framing \notin {"none", "fixed"} => rd.chunked

\* If the head broke off, nothing comes of the body.
LEMMA ReadersOfNothing ==
  ASSUME NEW c, Sendable(c), NEW req, Headed(req.lines, c), NEW rd,
         rd = PutReader(req, <<>>) \/ rd = BodyReader(req, <<>>), NEW cut, cut # "no"
  PROVE  Reads(rd, <<>>, c) /\ Puts(rd, <<>>, c, cut)
<1>1. Framed(c)
  BY FramedIs, Zenon
<1>2. PICK B, P, s, f, sig, body :
         B = Stuff(c) /\ P = Papers(c) /\ s = c.chunks /\ f = Parts(c) /\ sig = Sigs(c) /\ body = Body(c)
  BY Zenon
<1>3. Len(s) \in Nat /\ Flattens(f, s) /\ Chains(sig, s) /\ body \in Seq(B)
  BY <1>1, <1>2, Zenon DEF Framed
<1>4. Length(req) \in Nat
  BY LengthIs, BodyLength, SMTT(20)
<1>5. <<>> \in Seq(P) /\ <<>> \in Seq(B) /\ Straight(<<>>, s, 0)
  BY SMTT(20) DEF Straight
<1>6. (\E chain : rd = Chunked(<<>>, chain) /\ chain \in {Seed, NoChain}) \/ rd = Fixed(<<>>, Length(req))
  BY Zenon DEF PutReader, BodyReader
<1>7. CASE \E chain : rd = Chunked(<<>>, chain) /\ chain \in {Seed, NoChain}
  <2>1. PICK chain \in {Seed, NoChain} : rd = Chunked(<<>>, chain)
    BY <1>7, Zenon
  <2>2. Typed(rd, <<>>, B, P) /\ rd.chunked /\ Ordered(rd, <<>>, s, f, sig)
    BY <1>3, <1>5, <2>1, ChunkedStarts, Zenon
  <2>. QED
    BY <1>2, <2>2, Zenon DEF Reads, Puts
<1>8. CASE rd = Fixed(<<>>, Length(req))
  <2>1. \E k \in 0..Len(body) : <<>> = SubSeq(body, 1, k)
    <3>1. 0 \in 0..Len(body) /\ SubSeq(body, 1, 0) = <<>>
      BY <1>3, SMTT(20)
    <3>. QED
      BY <3>1, Zenon
  <2>2. Typed(rd, <<>>, B, P) /\ ~rd.chunked /\ Paced(rd, <<>>, body)
    BY <1>4, <1>5, <1>8, <2>1, FixedStarts, Zenon
  <2>. QED
    BY <1>2, <2>2, Zenon DEF Reads, Puts
<1>. QED
  BY <1>6, <1>7, <1>8, Zenon

\* If the head came whole, the reader is one for what comes, in the order of the client
\* or under a chain of signatures.
LEMMA ReadersOfBody ==
  ASSUME NEW c, Sendable(c), Faulty(c, env.anonymous), NEW ask, NEW when, NEW req, req = Request(c, ask, when),
         NEW w \in Delivered(c)
  PROVE  /\ Reads(PutReader(req, w), <<>>, c) /\ Puts(PutReader(req, w), <<>>, c, "no")
         /\ Reads(BodyReader(req, w), <<>>, c)
<1>1. Framed(c) /\ Arrives(c, w)
  BY FramedIs, DeliveredIs, Zenon
<1>2. PICK B, P, s, f, sig, body :
         B = Stuff(c) /\ P = Papers(c) /\ s = c.chunks /\ f = Parts(c) /\ sig = Sigs(c) /\ body = Body(c)
  BY Zenon
<1>3. Len(s) \in Nat /\ Flattens(f, s) /\ Chains(sig, s) /\ body \in Seq(B) /\ Len(body) \in Nat
  BY <1>1, <1>2, LenProperties, Zenon DEF Framed
<1>4. Length(req) \in Nat /\ Length(req) < Word
  <2>1. Length(req) \in 0..Len(Body(c))
    BY HeadedWhole, LengthIs, Zenon
  <2>. QED
    BY <2>1, BodyLength, WordAssumption, SMTT(20)
<1>5. /\ Get(req.lines, "content-encoding") = "aws-chunked" <=> c.framing \in {"streaming", "chunked"}
      /\ Streaming(req) <=> c.framing \in {"streaming", "trailer", "chunked"}
      /\ c.framing = "streaming" => Payload(req.lines) = "STREAMING"
      /\ Has(req.lines, "content-length") => c.framing = "fixed"
      /\ c.auth # "presigned" => ~IsPresigned(req)
  BY BodyLines, Zenon
<1>6. PICK rp, rb : rp = PutReader(req, w) /\ rb = BodyReader(req, w)
  BY Zenon
<1>7. CASE c.framing \in {"none", "fixed"}
  <2>1. Unseen(c) \/ \E k \in 0..Len(body) : w = SubSeq(body, 1, k)
    <3>1. CASE c.framing = "none"
      <4>1. w = <<>> /\ 0 \in 0..Len(body) /\ SubSeq(body, 1, 0) = <<>>
        BY <1>1, <1>3, <3>1, SMTT(20) DEF Arrives
      <4>. QED
        BY <4>1, Zenon
    <3>2. CASE c.framing = "fixed"
      BY <1>1, <1>2, <3>2, Zenon DEF Arrives, Unseen
    <3>. QED
      BY <1>7, <3>1, <3>2, Zenon
  <2>2. w \in Seq(B)
    <3>1. c.framing = "none" => w = <<>>
      BY <1>1, Zenon DEF Arrives
    <3>2. c.framing = "fixed" => w \in Seq(B)
      BY <1>1, <1>2, Zenon DEF Arrives
    <3>. QED
      <4>1. <<>> \in Seq(B)
        BY SMTT(20)
      <4>2. c.framing = "none" \/ c.framing = "fixed"
        BY <1>7, Zenon
      <4>. QED
        BY <3>1, <3>2, <4>1, <4>2, Zenon
  <2>3. c.framing \notin {"streaming", "chunked"} /\ c.framing \notin {"streaming", "trailer", "chunked"}
    BY <1>7, SMTT(20)
  <2>4. rp = Fixed(w, Length(req)) /\ rb = Fixed(w, Length(req))
    BY <1>5, <1>6, <2>3, Zenon DEF PutReader, BodyReader
  <2>5. Typed(rp, <<>>, B, P) /\ ~rp.chunked /\ (Unseen(c) \/ Paced(rp, <<>>, body))
    BY <1>4, <2>1, <2>2, <2>4, FixedStarts, Zenon
  <2>6. Len(<<>>) + rp.remaining < Word
    <3>1. rp.remaining = Length(req)
      BY <2>4, SMTT(20) DEF Fixed
    <3>. QED
      BY <1>4, <3>1, SMTT(20)
  <2>. QED
    BY <1>2, <1>6, <1>7, <2>4, <2>5, <2>6, Zenon DEF Reads, Puts
<1>8. CASE c.framing \notin {"none", "fixed"}
  <2>1. w \in Seq(P) /\ (c.fault \notin Tampering => Straight(w, s, 0))
    BY <1>1, <1>2, <1>8, Zenon DEF Arrives
  <2>2. c.framing \in {"streaming", "trailer", "chunked"}
    BY <1>8, SMTT(20) DEF Sendable
  <2>3. PICK chain : chain = IF ~env.anonymous /\ ~IsPresigned(req) /\ Payload(req.lines) = "STREAMING"
                             THEN Seed ELSE NoChain
    BY Zenon
  <2>4. rp = Chunked(w, chain)
    BY <1>5, <1>6, <2>2, <2>3, Zenon DEF PutReader
  <2>5. chain = Seed \/ (chain = NoChain /\ Straight(w, s, 0))
    <3>1. CASE c.fault \in Tampering
      <4>1. c.framing = "streaming" /\ c.auth = "header" /\ ~env.anonymous
        BY <1>8, <3>1, Zenon DEF Faulty
      <4>2. c.auth # "presigned"
        BY <4>1, SMTT(20)
      <4>. QED
        BY <1>5, <2>3, <4>1, <4>2, Zenon
    <3>2. CASE c.fault \notin Tampering
      BY <2>1, <2>3, <3>2, Zenon
    <3>. QED
      BY <3>1, <3>2, Zenon
  <2>6. Typed(rp, <<>>, B, P) /\ rp.chunked /\ Ordered(rp, <<>>, s, f, sig)
    BY <1>3, <2>1, <2>4, <2>5, ChunkedStarts, Zenon
  <2>7. Typed(rb, <<>>, B, P)
    <3>1. CASE Get(req.lines, "content-encoding") = "aws-chunked"
      <4>1. rb = Chunked(w, NoChain)
        BY <1>6, <3>1, Zenon DEF BodyReader
      <4>. QED
        BY <2>1, <4>1, ChunkedStarts, Zenon
    <3>2. CASE Get(req.lines, "content-encoding") # "aws-chunked"
      <4>1. Length(req) = 0
        <5>1. c.framing # "fixed"
          BY <1>8, Zenon
        <5>. QED
          BY <1>5, <5>1, Zenon DEF Length
      <4>2. rb = Fixed(w, Length(req))
        BY <1>6, <3>2, Zenon DEF BodyReader
      <4>. QED
        BY <1>4, <2>1, <4>1, <4>2, FixedStarts, Zenon
    <3>. QED
      BY <3>1, <3>2, Zenon
  <2>. QED
    BY <1>2, <1>6, <2>6, <2>7, Zenon DEF Reads, Puts
<1>. QED
  BY <1>7, <1>8, Zenon

----------------------------------------------------------------------------
(* A head that broke off and is taken for a whole one.                     *)

\* What is left of a request whose head broke off among its lines, or before them.
Broken(req, c, when) ==
    \/ /\ req.path = RawPath(c) /\ req.method = Bare(c).method /\ req.params = Bare(c).params
       /\ req.presigned = IF c.auth = "presigned" THEN <<Signed(c, when)>> ELSE <<>>
    \/ req.lines = <<>> /\ req.presigned = <<>>

\* A signature among the parameters names the host and what to copy.
LEMMA PresignedNames ==
  ASSUME NEW c, Sendable(c), NEW when, NEW req, Headed(req.lines, c), NEW now,
         req.presigned = <<Signed(c, when)>>, c.auth = "presigned", CheckPresigned(req, now) = 200
  PROVE  /\ Get(req.lines, "host") = IF c.hosted THEN c.bucket ELSE None
         /\ Has(req.lines, "x-amz-copy-source") <=> c.op = "copyObject"
<1>1. PICK a : a = Signed(c, when)
  BY Zenon
<1>2. Head(req.presigned) = a
  BY <1>1, SMTT(20)
<1>3. VerifyPresigned(req, a)
  BY <1>2, SMTT(20) DEF CheckPresigned
<1>4. /\ a.by = c.by /\ a.when = when /\ a.names = SignedNames
      /\ a.signature = Signature(c.by, when, Canonical(Bare(c), SignedNames, "UNSIGNED"))
  BY <1>1, Zenon DEF Signed
<1>5. PICK x, y : x = Canonical(Bare(c), SignedNames, "UNSIGNED") /\ y = Canonical(req, SignedNames, "UNSIGNED")
  BY Zenon
<1>6. Signature(c.by, when, x) = Signature(c.by, when, y)
  BY <1>3, <1>4, <1>5, Zenon DEF VerifyPresigned, Matches
<1>7. x = y
  BY <1>6, SMTT(20) DEF Signature
<1>8. PICK hx, hy : /\ hx = [n \in SignedNames |-> Get(Bare(c).lines, n)]
                    /\ hy = [n \in SignedNames |-> Get(req.lines, n)]
  BY Zenon
<1>9. x.headers = hx /\ y.headers = hy
  BY <1>5, <1>8, Zenon DEF Canonical
<1>10. \A n \in SignedNames : Get(req.lines, n) = Get(HeadLines(c), n)
  <2>1. Bare(c).lines = HeadLines(c)
    BY Zenon DEF Bare
  <2>2. hx = hy
    BY <1>7, <1>9, Zenon
  <2>3. \A n \in SignedNames : hx[n] = Get(HeadLines(c), n) /\ hy[n] = Get(req.lines, n)
    BY <1>8, <2>1, Zenon
  <2>. QED
    BY <2>2, <2>3, Zenon
<1>11. "host" \in SignedNames /\ "x-amz-copy-source" \in SignedNames
  BY SMTT(20) DEF SignedNames
<1>12. /\ Get(HeadLines(c), "host") = IF c.hosted THEN c.bucket ELSE None
       /\ Get(HeadLines(c), "x-amz-copy-source") = IF c.op = "copyObject" THEN c.key ELSE None
       /\ Has(HeadLines(c), "x-amz-copy-source") <=> c.op = "copyObject"
  BY HeadLinesAre, Zenon
<1>13. c.op = "copyObject" => Has(req.lines, "x-amz-copy-source")
  <2>1. c.key # None
    BY NoneAssumption, Zenon DEF Sendable
  <2>. QED
    BY <1>10, <1>11, <1>12, <2>1, Zenon DEF Get
<1>14. Has(req.lines, "x-amz-copy-source") => c.op = "copyObject"
  <2>1. SUFFICES ASSUME NEW i \in DOMAIN req.lines, req.lines[i][1] = "x-amz-copy-source" PROVE c.op = "copyObject"
    BY Zenon DEF Has
  <2>2. i <= Len(HeadLines(c)) /\ req.lines[i][1] = HeadLines(c)[i][1]
    <3>1. "x-amz-copy-source" # "authorization" /\ "x-amz-copy-source" # "content-length"
      BY SMTT(20)
    <3>. QED
      BY <2>1, <3>1, Zenon DEF Headed
  <2>3. i \in DOMAIN HeadLines(c)
    <3>1. PICK S, T : req.lines \in Seq(S) /\ HeadLines(c) \in Seq(T)
      BY HeadLinesAre, Zenon DEF Headed, Lines
    <3>. QED
      BY <2>1, <2>2, <3>1, SMTT(20)
  <2>4. HeadLines(c)[i][1] = "x-amz-copy-source"
    BY <2>1, <2>2, Zenon
  <2>5. Has(HeadLines(c), "x-amz-copy-source")
    BY <2>3, <2>4, Zenon DEF Has
  <2>. QED
    BY <1>12, <2>5, Zenon
<1>. QED
  BY <1>10, <1>11, <1>12, <1>13, <1>14, Zenon

\* Authenticated, it is served as its client meant it.
LEMMA BrokenRouted ==
  ASSUME NEW c, Sendable(c), NEW when, NEW req, Headed(req.lines, c), Broken(req, c, when),
         NEW now, NEW anonymous, ~anonymous, Authenticate(req, now, anonymous) = 200
  PROVE  /\ Addressing(Get(req.lines, "host"), Decode(req.path)) = [bucket |-> c.bucket, key |-> c.key]
         /\ Route(req, [bucket |-> c.bucket, key |-> c.key]) = c.op
<1>1. IF IsPresigned(req) THEN CheckPresigned(req, now) = 200 ELSE CheckHeader(req) = 200
  BY Zenon DEF Authenticate
<1>2. CASE IsPresigned(req)
  <2>1. req.presigned # <<>>
    BY <1>2, Zenon DEF IsPresigned
  <2>2. /\ req.path = RawPath(c) /\ req.method = Bare(c).method /\ req.params = Bare(c).params
        /\ req.presigned = <<Signed(c, when)>> /\ c.auth = "presigned"
    BY <2>1, Zenon DEF Broken
  <2>3. /\ Get(req.lines, "host") = IF c.hosted THEN c.bucket ELSE None
        /\ Has(req.lines, "x-amz-copy-source") <=> c.op = "copyObject"
    <3>1. CheckPresigned(req, now) = 200
      BY <1>1, <1>2, Zenon
    <3>. QED
      BY <2>2, <3>1, PresignedNames, SMTT(20)
  <2>. QED
    BY <2>2, <2>3, RoutedBy, SMTT(20)
<1>3. CASE ~IsPresigned(req)
  <2>1. Has(req.lines, "authorization")
    BY <1>1, <1>3, SMTT(20) DEF CheckHeader, ParseAuthorization
  <2>2. req.lines # <<>>
    <3>1. ~Has(<<>>, "authorization")
      BY NoLineIs, Zenon
    <3>. QED
      BY <2>1, <3>1, Zenon
  <2>3. req.path = RawPath(c) /\ req.method = Bare(c).method /\ req.params = Bare(c).params
    BY <2>2, Zenon DEF Broken
  <2>4. /\ "host" \notin {"authorization", "content-length"}
        /\ "x-amz-copy-source" \notin {"authorization", "content-length"}
    BY SMTT(20)
  <2>5. /\ Get(req.lines, "host") = Get(HeadLines(c), "host")
        /\ Has(req.lines, "x-amz-copy-source") <=> Has(HeadLines(c), "x-amz-copy-source")
    <3>1. \A n : n \notin {"authorization", "content-length"} =>
                  Get(req.lines, n) = Get(HeadLines(c), n) /\ (Has(req.lines, n) <=> Has(HeadLines(c), n))
      <4>1. PICK l : l = req.lines
        BY SMTT(20)
      <4>2. \A n : n \notin {"authorization", "content-length"} =>
                  Get(l, n) = Get(HeadLines(c), n) /\ (Has(l, n) <=> Has(HeadLines(c), n))
        BY <2>1, <4>1, SignedHead, SMTT(20)
      <4>. QED
        BY <4>1, <4>2, Zenon
    <3>. QED
      BY <2>4, <3>1, Zenon
  <2>6. /\ Get(req.lines, "host") = IF c.hosted THEN c.bucket ELSE None
        /\ Has(req.lines, "x-amz-copy-source") <=> c.op = "copyObject"
    <3>1. /\ Get(HeadLines(c), "host") = IF c.hosted THEN c.bucket ELSE None
          /\ Has(HeadLines(c), "x-amz-copy-source") <=> c.op = "copyObject"
      BY HeadLinesAre, Zenon
    <3>. QED
      BY <2>5, <3>1, Zenon
  <2>. QED
    BY <2>3, <2>6, RoutedBy, SMTT(20)
<1>. QED
  BY <1>2, <1>3, Zenon

----------------------------------------------------------------------------
(* What is true of a connection x in a world w.                            *)

\* A request that no handler has.
Unserved(x) == x.did = {} /\ x.sent = <<>> /\ x.handler = "none"

\* What came of it: the head, whole or in part, and what of the body may.
Arrived(x) ==
    /\ Headed(x.req.lines, x.c)
    /\ x.cut = "no" => x.got \in Delivered(x.c)
    /\ x.cut # "no" => x.got = <<>> /\ Broken(x.req, x.c, x.when)

\* Accepted, it is served as its client meant it, unless its head broke off and nobody
\* has to sign.
Meant(x, w) ==
    x.accepted /\ (x.cut = "no" \/ ~w.anonymous) =>
        x.handler = x.c.op /\ x.to = [bucket |-> x.c.bucket, key |-> x.c.key]

\* What was read of a body, while it is read and when it has been.
Ended(got, c, cut) ==
    \/ IsPrefix(got, Body(c)) /\ (cut = "no" /\ c.framing # "fixed" => got = Body(c))
    \/ Unseen(c) /\ Len(got) < Word
Putting(x) == x.handler = "putObject" /\ x.status = 0
InBody(x) ==
    /\ x.pc \in {"body", "read"} => x.accepted
    /\ x.pc = "body" => Reads(x.rd, x.got, x.c) /\ (Putting(x) => Puts(x.rd, x.got, x.c, x.cut))
    /\ x.pc = "read" =>
          /\ x.got \in Seq(Stuff(x.c))
          /\ Putting(x) => Ended(x.got, x.c, x.cut)

\* What was sent of an object, and what is still to be.
Slice(x, range) ==
    LET span == Span(range, Len(x.file)) IN
    /\ x.file \in Seq(Block) /\ Len(x.file) < Word
    /\ x.status = span.status /\ x.start = span.start /\ x.size = span.length
    /\ x.status # 416 =>
          /\ x.remaining \in Nat /\ x.sent \in Seq(Block) /\ Len(x.sent) + x.remaining = x.size
          /\ \A i \in DOMAIN x.sent : x.start + i <= Len(x.file) /\ x.sent[i] = x.file[x.start + i]
          /\ x.pc = "answered" => x.remaining = 0 \/ x.start + Len(x.sent) >= Len(x.file)
Sliced(x) ==
    x.cut = "no" /\ x.handler = "getObject" /\ x.pc \in {"send", "answered"} /\ x.status \notin {404, 500} =>
        Slice(x, x.c.range)

\* What it changed is what its client asked for, and of what its client sent.
Right(d, c, cut, w) ==
    /\ \/ c.op = "putObject" /\ d[2] # None /\ d[1] = c.key
       \/ c.op = "deleteObject" /\ d[2] = None /\ d[1] \in Unlinked(c.key)
       \/ c.op = "deleteObjects" /\ d[2] = None /\ \E y \in Stuff(c) : d[1] \in Unlinked(y.key)
       \/ cut # "no" /\ w.anonymous
    /\ d[2] # None => Ended(d[2], c, cut)
Changed(x, w) == \A d \in x.did : Right(d, x.c, x.cut, w)

Serving == {"body", "read", "send", "walk", "answered"}
Embodied(x, w) ==
    /\ x.pc = "signed" => x.got = <<>>
    /\ x.pc \in {"signed", "sent"} => Unserved(x)
    /\ x.pc = "sent" => Arrived(x)
    /\ x.pc \in Serving => Meant(x, w) /\ InBody(x) /\ Sliced(x)
    /\ Changed(x, w)

\* An object is a sequence of blocks whose length fits a word.
Stored == \A k \in DOMAIN objs : objs[k] \in Seq(Block) /\ Len(objs[k]) < Word

\* The inductive invariant, besides ServerInv: what was read of a body, committed of it
\* and sent of an object agrees with what the client sent and what it asked for.
BodyInv == Stored /\ Embodied(conn, env)

----------------------------------------------------------------------------

\* A connection that carries nothing.
LEMMA IdleEmbodied ==
  ASSUME NEW w
  PROVE  Embodied(Idle, w)
<1>1. Idle.pc = "idle" /\ Idle.did = {}
  BY SMTT(20) DEF Idle
<1>2. "idle" # "signed" /\ "idle" \notin {"signed", "sent"} /\ "idle" # "sent" /\ "idle" \notin Serving
  BY SMTT(20) DEF Serving
<1>. QED
  BY <1>1, <1>2, Zenon DEF Embodied, Changed

\* What was changed stays right while the connection is about the same.
LEMMA ChangedStays ==
  ASSUME NEW x, NEW y, NEW w, Changed(x, w), y.did = x.did, y.c = x.c, y.cut = x.cut
  PROVE  Changed(y, w)
  BY Zenon DEF Changed

\* A step of a handler,
LEMMA Proceeds ==
  ASSUME NEW x, NEW y, NEW w, Embodied(x, w), Kept(x, y), x.pc \in Serving, y.pc \in Serving,
         y.handler = x.handler, y.to = x.to, InBody(y), Sliced(y), Changed(y, w)
  PROVE  Embodied(y, w)
<1>1. /\ y.c = x.c /\ y.req = x.req /\ y.cut = x.cut /\ y.when = x.when /\ y.accepted = x.accepted
  BY Zenon DEF Kept
<1>2. Meant(x, w)
  BY Zenon DEF Embodied
<1>3. Meant(y, w)
  BY <1>1, <1>2, Zenon DEF Meant
<1>4. y.pc # "signed" /\ y.pc # "sent" /\ y.pc \notin {"signed", "sent"}
  BY SMTT(20) DEF Serving
<1>. QED
  BY <1>3, <1>4, Zenon DEF Embodied

\* and one that changes no object.
LEMMA GoesOn ==
  ASSUME NEW x, NEW y, NEW w, Embodied(x, w), Kept(x, y), x.pc \in Serving, y.pc \in Serving,
         y.did = x.did, y.handler = x.handler, y.to = x.to, InBody(y), Sliced(y)
  PROVE  Embodied(y, w)
<1>1. Changed(y, w)
  BY ChangedStays, Zenon DEF Embodied, Kept
<1>. QED
  BY <1>1, Proceeds, Zenon

\* The answer to another request than for an object, or that there was none.
LEMMA AnsweredWell ==
  ASSUME NEW y, y.pc = "answered", y.handler # "getObject" \/ y.status \in {404, 500}
  PROVE  InBody(y) /\ Sliced(y)
<1>1. "answered" \notin {"body", "read"} /\ "answered" # "body" /\ "answered" # "read"
  BY SMTT(20)
<1>. QED
  BY <1>1, Zenon DEF InBody, Sliced

----------------------------------------------------------------------------
(* The steps.                                                              *)

\* It holds where every behaviour starts.
LEMMA InitHolds == Init => BodyInv
<1>. SUFFICES ASSUME Init PROVE BodyInv
  BY Zenon
<1>1. env \in Worlds /\ objs = env.store /\ conn = Idle
  BY Zenon DEF Init
<1>2. Stored
  BY <1>1, WorldAssumption, Zenon DEF Stored
<1>3. Embodied(conn, env)
  BY <1>1, IdleEmbodied, Zenon
<1>. QED
  BY <1>2, <1>3, Zenon DEF BodyInv

\* A step of the connection alone needs to be looked at there only.
LEMMA SameObjects ==
  ASSUME BodyInv, UNCHANGED <<env, objs>>, Embodied(conn', env)
  PROVE  BodyInv'
<1>1. Stored' <=> Stored
  BY Zenon DEF Stored
<1>. QED
  BY <1>1, Zenon DEF BodyInv

\* A request that is signed has nothing behind it,
LEMMA SignHolds == BodyInv /\ SignRequest => BodyInv'
<1>. SUFFICES ASSUME BodyInv, SignRequest PROVE BodyInv'
  BY Zenon
<1>1. \E c, when, age, req : conn' = [Idle EXCEPT !.pc = "signed", !.c = c, !.when = when, !.age = age, !.req = req]
  <2>. DEFINE asked(c) == IF listing.next = None THEN c.ask
                          ELSE IF c.ask.v2 THEN [c.ask EXCEPT !.token = listing.next]
                          ELSE [c.ask EXCEPT !.marker = listing.next]
              at(c) == [date |-> IF c.skew = 0 THEN date ELSE NextDay(date), sec |-> clock.sec]
  <2>1. PICK c : conn' = [Idle EXCEPT !.pc = "signed", !.c = c, !.when = at(c),
                                      !.age = IF c.skew = 0 THEN 0 ELSE -DaySeconds, !.req = Request(c, asked(c), at(c))]
    BY Zenon DEF SignRequest
  <2>2. PICK when, age, req : /\ when = at(c) /\ req = Request(c, asked(c), at(c))
                              /\ age = IF c.skew = 0 THEN 0 ELSE -DaySeconds
    BY Zenon
  <2>. QED
    BY <2>1, <2>2, Zenon
<1>2. conn'.pc = "signed" /\ conn'.did = {} /\ conn'.sent = <<>> /\ conn'.handler = "none" /\ conn'.got = <<>>
  BY <1>1, SMTT(20) DEF Idle
<1>3. "signed" # "sent" /\ "signed" \notin Serving
  BY SMTT(20) DEF Serving
<1>4. Embodied(conn', env)
  BY <1>2, <1>3, Zenon DEF Embodied, Changed, Unserved
<1>. QED
  BY <1>4, SameObjects, Zenon DEF SignRequest

\* nor one that is sent once more.
LEMMA ReceiveHolds == BodyInv /\ Receive => BodyInv'
<1>. SUFFICES ASSUME BodyInv, Receive PROVE BodyInv'
  BY Zenon
<1>1. \/ conn' = Idle
      \/ conn' = [Idle EXCEPT !.pc = "signed", !.c = conn.c, !.when = conn.when, !.req = conn.req, !.age = conn.age]
  BY Zenon DEF Receive
<1>2. CASE conn' = [Idle EXCEPT !.pc = "signed", !.c = conn.c, !.when = conn.when, !.req = conn.req, !.age = conn.age]
  <2>1. conn'.pc = "signed" /\ conn'.did = {} /\ conn'.sent = <<>> /\ conn'.handler = "none" /\ conn'.got = <<>>
    BY <1>2, SMTT(20) DEF Idle
  <2>2. "signed" # "sent" /\ "signed" \notin Serving
    BY SMTT(20) DEF Serving
  <2>3. Embodied(conn', env)
    BY <2>1, <2>2, Zenon DEF Embodied, Changed, Unserved
  <2>. QED
    BY <2>3, SameObjects, Zenon DEF Receive
<1>3. CASE conn' = Idle
  <2>1. Embodied(conn', env)
    BY <1>3, IdleEmbodied, Zenon
  <2>. QED
    BY <2>1, SameObjects, Zenon DEF Receive
<1>. QED
  BY <1>1, <1>2, <1>3, Zenon

\* Time passes without touching what is kept,
LEMMA TickHolds == ServerInv /\ BodyInv /\ Tick => BodyInv'
<1>. SUFFICES ASSUME ServerInv, BodyInv, Tick PROVE BodyInv'
  BY Zenon
<1>1. /\ UNCHANGED <<env, objs>> /\ conn.pc \in {"idle", "signed", "sent"} /\ DOMAIN conn = Fields /\ Embodied(conn, env)
      /\ conn' = conn \/ \E age : conn' = [conn EXCEPT !.age = age]
  BY Zenon DEF Tick, ServerInv, ConnInv, BodyInv
<1>2. CASE \E age : conn' = [conn EXCEPT !.age = age]
  <2>1. /\ conn'.pc = conn.pc /\ conn'.c = conn.c /\ conn'.req = conn.req /\ conn'.cut = conn.cut
        /\ conn'.when = conn.when /\ conn'.got = conn.got /\ conn'.did = conn.did /\ conn'.sent = conn.sent
        /\ conn'.handler = conn.handler
    BY <1>1, <1>2, SMTT(20) DEF Fields
  <2>2. Changed(conn', env)
    BY <1>1, <2>1, ChangedStays, Zenon DEF Embodied
  <2>3. Unserved(conn) => Unserved(conn')
    BY <2>1, Zenon DEF Unserved
  <2>4. Arrived(conn) => Arrived(conn')
    BY <2>1, Zenon DEF Arrived
  <2>5. conn.pc \notin Serving
    BY <1>1, SMTT(20) DEF Serving
  <2>6. Embodied(conn', env)
    BY <1>1, <2>1, <2>2, <2>3, <2>4, <2>5, Zenon DEF Embodied
  <2>. QED
    BY <1>1, <2>6, SameObjects, Zenon
<1>3. CASE conn' = conn
  BY <1>1, <1>3, SameObjects, Zenon
<1>. QED
  BY <1>1, <1>2, <1>3, Zenon

\* Objects stay what they are when one is put,
LEMMA StoredWith ==
  ASSUME Stored, NEW k, NEW blocks \in Seq(Block), Len(blocks) < Word, objs' = With(k, blocks)
  PROVE  Stored'
  BY SMTT(20) DEF Stored, With

\* and when some go.
LEMMA StoredWithout ==
  ASSUME Stored, NEW keys, objs' = Without(keys)
  PROVE  Stored'
<1>1. objs' = [y \in DOMAIN objs \ keys |-> objs[y]]
  BY SMTT(20) DEF Without, Restrict
<1>. QED
  BY <1>1, SMTT(20) DEF Stored

\* and so do other clients, who put what is empty.
LEMMA ChangeHolds == BodyInv /\ Change => BodyInv'
<1>. SUFFICES ASSUME BodyInv, Change PROVE BodyInv'
  BY Zenon
<1>1. PICK k \in env.others : objs' = IF k \in DOMAIN objs THEN Without({k}) ELSE With(k, <<>>)
  BY Zenon DEF Change
<1>2. conn' = conn /\ env' = env /\ Stored
  BY Zenon DEF Change, BodyInv
<1>3. <<>> \in Seq(Block) /\ Len(<<>>) < Word
  BY WordAssumption, SMTT(20)
<1>4. Stored'
  BY <1>1, <1>2, <1>3, StoredWith, StoredWithout, Zenon
<1>. QED
  BY <1>2, <1>4, Zenon DEF BodyInv

\* A walk and the page made of it are not about a body or an object,
LEMMA WalkHolds == ServerInv /\ BodyInv /\ (Walk \/ ListPage) => BodyInv'
<1>. SUFFICES ASSUME ServerInv, BodyInv, Walk \/ ListPage PROVE BodyInv'
  BY Zenon
<1>1. /\ UNCHANGED <<env, objs>> /\ conn.pc = "walk" /\ DOMAIN conn = Fields /\ Embodied(conn, env)
      /\ ConnInv
  BY Zenon DEF Walk, ListPage, ServerInv, ConnInv, BodyInv
<1>2. conn.handler = "listObjects"
  <2>1. Decided
    BY <1>1, SMTT(20) DEF Decided
  <2>. QED
    BY <1>1, <2>1, Zenon DEF ConnInv, Judged, Listed
<1>3. \/ \E todo, found : conn' = [conn EXCEPT !.todo = todo, !.found = found]
      \/ \E todo : conn' = [conn EXCEPT !.todo = todo]
      \/ \E found : conn' = [conn EXCEPT !.found = found]
      \/ conn' = [conn EXCEPT !.pc = "answered", !.status = 500]
      \/ \E page : conn' = [conn EXCEPT !.pc = "answered", !.status = 200, !.page = page]
  <2>1. CASE Walk
    BY <2>1, Zenon DEF Walk, Answer
  <2>2. CASE ListPage
    BY <2>2, Zenon DEF ListPage
  <2>. QED
    BY <2>1, <2>2, Zenon
<1>4. Kept(conn, conn') /\ conn'.pc \in {"walk", "answered"} /\ conn'.did = conn.did /\ conn'.handler = conn.handler /\ conn'.to = conn.to
  <2>1. CASE \E todo, found : conn' = [conn EXCEPT !.todo = todo, !.found = found]
    BY <1>1, <2>1, SMTT(20) DEF Kept, Fields
  <2>2. CASE \E todo : conn' = [conn EXCEPT !.todo = todo]
    BY <1>1, <2>2, SMTT(20) DEF Kept, Fields
  <2>3. CASE \E found : conn' = [conn EXCEPT !.found = found]
    BY <1>1, <2>3, SMTT(20) DEF Kept, Fields
  <2>4. CASE conn' = [conn EXCEPT !.pc = "answered", !.status = 500]
    BY <1>1, <2>4, SMTT(20) DEF Kept, Fields
  <2>5. CASE \E page : conn' = [conn EXCEPT !.pc = "answered", !.status = 200, !.page = page]
    BY <1>1, <2>5, SMTT(20) DEF Kept, Fields
  <2>. QED
    BY <1>3, <2>1, <2>2, <2>3, <2>4, <2>5, Zenon
<1>5. InBody(conn') /\ Sliced(conn')
  <2>1. conn'.pc \notin {"body", "read"} /\ conn'.pc # "body" /\ conn'.pc # "read" /\ conn'.handler # "getObject"
    BY <1>2, <1>4, SMTT(20)
  <2>. QED
    BY <2>1, Zenon DEF InBody, Sliced
<1>6. conn.pc \in Serving /\ conn'.pc \in Serving
  BY <1>1, <1>4, SMTT(20) DEF Serving
<1>7. Embodied(conn', env)
  BY <1>1, <1>4, <1>5, <1>6, GoesOn, Zenon
<1>. QED
  BY <1>1, <1>7, SameObjects, Zenon

\* and a client that goes away leaves what it sent.
LEMMA HangupHolds == ServerInv /\ BodyInv /\ Hangup => BodyInv'
<1>. SUFFICES ASSUME ServerInv, BodyInv, Hangup PROVE BodyInv'
  BY Zenon
<1>1. /\ UNCHANGED <<env, objs>> /\ DOMAIN conn = Fields /\ Embodied(conn, env) /\ conn' = [conn EXCEPT !.gone = TRUE]
  BY Zenon DEF Hangup, ServerInv, ConnInv, BodyInv
<1>2. /\ conn'.pc = conn.pc /\ conn'.c = conn.c /\ conn'.req = conn.req /\ conn'.cut = conn.cut
      /\ conn'.when = conn.when /\ conn'.got = conn.got /\ conn'.did = conn.did /\ conn'.sent = conn.sent
      /\ conn'.handler = conn.handler /\ conn'.to = conn.to /\ conn'.accepted = conn.accepted /\ conn'.rd = conn.rd
      /\ conn'.status = conn.status /\ conn'.file = conn.file /\ conn'.start = conn.start /\ conn'.size = conn.size
      /\ conn'.remaining = conn.remaining
  BY <1>1, SMTT(20) DEF Fields
<1>3. Changed(conn', env)
  BY <1>1, <1>2, ChangedStays, Zenon DEF Embodied
<1>4. (Unserved(conn) => Unserved(conn')) /\ (Arrived(conn) => Arrived(conn')) /\ (Meant(conn, env) => Meant(conn', env))
  BY <1>2, Zenon DEF Unserved, Arrived, Meant
<1>5. InBody(conn) => InBody(conn')
  BY <1>2, Zenon DEF InBody, Putting
<1>6. Sliced(conn) => Sliced(conn')
  <2>1. PICK x, y, range : x = conn /\ y = conn' /\ range = conn.c.range
    BY Zenon
  <2>2. Slice(x, range) => Slice(y, range)
    BY <1>2, <2>1, SMTT(20) DEF Slice
  <2>. QED
    <3>1. SUFFICES ASSUME Sliced(conn), conn'.cut = "no", conn'.handler = "getObject", conn'.pc \in {"send", "answered"},
                          conn'.status \notin {404, 500}
                   PROVE  Slice(conn', conn'.c.range)
      BY Zenon DEF Sliced
    <3>2. Slice(x, range)
      <4>1. conn.cut = "no" /\ conn.handler = "getObject" /\ conn.pc \in {"send", "answered"}
        BY <1>2, <3>1, SMTT(20)
      <4>2. conn.status \notin {404, 500}
        BY <1>2, <3>1, SMTT(20)
      <4>3. Slice(conn, conn.c.range)
        BY <3>1, <4>1, <4>2, Zenon DEF Sliced
      <4>. QED
        BY <2>1, <4>3, Zenon
    <3>. QED
      BY <1>2, <2>1, <2>2, <3>2, Zenon
<1>7. Embodied(conn', env)
  BY <1>1, <1>2, <1>3, <1>4, <1>5, <1>6, Zenon DEF Embodied
<1>. QED
  BY <1>1, <1>7, SameObjects, Zenon

\* What is left of a request whose connection broke in the middle of its head.
LEMMA BrokenIs ==
  ASSUME NEW c, Sendable(c), NEW ask, NEW when, NEW req, req = Request(c, ask, when),
         NEW r \in BrokenHeads(req) \cup BrokenLines(req)
  PROVE  Headed(r.lines, c) /\ Broken(r, c, when)
<1>1. PICK l, p, u, q, m : /\ l = req.lines /\ p = req.path /\ u = req.presigned /\ q = req.params /\ m = req.method
  BY Zenon
<1>2. /\ p = RawPath(c) /\ m = Bare(c).method /\ q = Bare(c).params
      /\ u = IF c.auth = "presigned" THEN <<Signed(c, when)>> ELSE <<>>
  BY <1>1, SMTT(20) DEF Request
<1>3. DOMAIN req = {"method", "path", "params", "ask", "lines", "presigned"}
  BY SMTT(20) DEF Request
<1>4. Headed(l, c) /\ Complete(l, c)
  BY <1>1, HeadedWhole, Zenon
<1>5. ASSUME NEW k, Headed(k, c), r = [req EXCEPT !.lines = k]
      PROVE  Headed(r.lines, c) /\ Broken(r, c, when)
  <2>1. r.lines = k /\ r.path = p /\ r.presigned = u /\ r.params = q /\ r.method = m
    BY <1>1, <1>3, <1>5, SMTT(20)
  <2>. QED
    BY <1>2, <1>5, <2>1, Zenon DEF Broken
<1>6. ASSUME r.lines = <<>>, r.presigned = <<>>
      PROVE  Headed(r.lines, c) /\ Broken(r, c, when)
  <2>1. PICK S : l \in Seq(S)
    BY <1>4, Zenon DEF Headed, Lines
  <2>2. 0 \in 0..Len(l) /\ SubSeq(l, 1, 0) = <<>>
    BY <2>1, SMTT(20)
  <2>3. Headed(<<>>, c)
    BY <1>4, <2>2, HeadedCut, Zenon
  <2>. QED
    BY <1>6, <2>3, Zenon DEF Broken
<1>7. CASE r \in BrokenHeads(req)
  <2>1. \/ \E n \in 0..Len(l) : r = [req EXCEPT !.lines = SubSeq(l, 1, n)]
        \/ \E n \in DOMAIN l : \E v \in Partial(l[n]) :
              r = [req EXCEPT !.lines = Append(SubSeq(l, 1, n - 1), <<l[n][1], v>>)]
    <3>1. \/ r \in {[req EXCEPT !.lines = SubSeq(@, 1, n)] : n \in 0..Len(req.lines)}
          \/ r \in UNION {{[req EXCEPT !.lines = Append(SubSeq(@, 1, n - 1), <<@[n][1], v>>)] :
                              v \in Partial(req.lines[n])} : n \in DOMAIN req.lines}
      BY <1>7, Zenon DEF BrokenHeads
    <3>2. CASE r \in UNION {{[req EXCEPT !.lines = Append(SubSeq(@, 1, n - 1), <<@[n][1], v>>)] :
                               v \in Partial(req.lines[n])} : n \in DOMAIN req.lines}
      <4>1. PICK n \in DOMAIN l : r \in {[req EXCEPT !.lines = Append(SubSeq(@, 1, n - 1), <<@[n][1], v>>)] :
                                           v \in Partial(l[n])}
        BY <1>1, <3>2, Zenon
      <4>2. PICK v \in Partial(l[n]) : r = [req EXCEPT !.lines = Append(SubSeq(@, 1, n - 1), <<@[n][1], v>>)]
        BY <4>1, Zenon
      <4>3. r = [req EXCEPT !.lines = Append(SubSeq(l, 1, n - 1), <<l[n][1], v>>)]
        BY <1>1, <4>2, Zenon
      <4>. QED
        BY <4>3, Zenon
    <3>. QED
      BY <1>1, <3>1, <3>2, Zenon
  <2>2. CASE \E n \in 0..Len(l) : r = [req EXCEPT !.lines = SubSeq(l, 1, n)]
    BY <1>4, <1>5, <2>2, HeadedCut, Zenon
  <2>3. CASE \E n \in DOMAIN l : \E v \in Partial(l[n]) :
               r = [req EXCEPT !.lines = Append(SubSeq(l, 1, n - 1), <<l[n][1], v>>)]
    <3>1. PICK n \in DOMAIN l : \E v \in Partial(l[n]) :
                 r = [req EXCEPT !.lines = Append(SubSeq(l, 1, n - 1), <<l[n][1], v>>)]
      BY <2>3, Zenon
    <3>2. PICK v \in Partial(l[n]) : r = [req EXCEPT !.lines = Append(SubSeq(l, 1, n - 1), <<l[n][1], v>>)]
      BY <3>1, Zenon
    <3>3. Headed(Append(SubSeq(l, 1, n - 1), <<l[n][1], v>>), c)
      BY <1>4, HeadedTorn, Zenon
    <3>. QED
      BY <1>5, <3>2, <3>3, Zenon
  <2>. QED
    BY <2>1, <2>2, <2>3, Zenon
<1>8. CASE r \in BrokenLines(req)
  <2>1. \/ \E x : r = [req EXCEPT !.path = x, !.params = {}, !.presigned = <<>>, !.lines = <<>>]
        \/ \E x : r = [req EXCEPT !.params = x, !.presigned = <<>>, !.lines = <<>>]
    BY <1>8, Zenon DEF BrokenLines
  <2>2. r.lines = <<>> /\ r.presigned = <<>>
    <3>1. CASE \E x : r = [req EXCEPT !.path = x, !.params = {}, !.presigned = <<>>, !.lines = <<>>]
      BY <1>3, <3>1, SMTT(20)
    <3>2. CASE \E x : r = [req EXCEPT !.params = x, !.presigned = <<>>, !.lines = <<>>]
      BY <1>3, <3>2, SMTT(20)
    <3>. QED
      BY <2>1, <3>1, <3>2, Zenon
  <2>. QED
    BY <1>6, <2>2, Zenon
<1>. QED
  BY <1>7, <1>8, Zenon

\* Clients of a world send what they may.
LEMMA ClientIs ==
  ASSUME ServerInv, conn.pc # "idle"
  PROVE  Sendable(conn.c) /\ Faulty(conn.c, env.anonymous)
<1>1. env \in Worlds /\ conn.c \in env.sends
  BY Zenon DEF ServerInv, ClockInv, ConnInv, Carried
<1>. QED
  BY <1>1, WorldAssumption, Zenon

\* What is sent arrives, the head or a part of it,
LEMMA SendHolds == ServerInv /\ BodyInv /\ Send => BodyInv'
<1>. SUFFICES ASSUME ServerInv, BodyInv, Send PROVE BodyInv'
  BY Zenon
<1>1. UNCHANGED <<env, objs>> /\ conn.pc = "signed" /\ DOMAIN conn = Fields /\ Embodied(conn, env) /\ ConnInv
  BY Zenon DEF Send, ServerInv, ConnInv, BodyInv
<1>2. conn.cut = "no" /\ Unserved(conn) /\ conn.got = <<>> /\ Changed(conn, env)
  <2>1. "signed" \in {"signed", "sent"}
    BY SMTT(20)
  <2>. QED
    BY <1>1, <2>1, Zenon DEF ConnInv, Embodied
<1>3. conn.req = Request(conn.c, conn.req.ask, conn.when)
  <2>1. conn.pc # "idle"
    BY <1>1, SMTT(20)
  <2>. QED
    BY <1>1, <1>2, <2>1, Zenon DEF ConnInv, Carried
<1>4. \/ \E w \in Delivered(conn.c) :
            conn' = [conn EXCEPT !.pc = "sent", !.got = w, !.gone = (conn.c.fault \in {"cut", "torn"})]
      \/ \E r \in BrokenHeads(conn.req) :
            conn' = [conn EXCEPT !.pc = "sent", !.req = r, !.cut = "head", !.gone = TRUE]
      \/ \E r \in BrokenLines(conn.req) :
            conn' = [conn EXCEPT !.pc = "sent", !.req = r, !.cut = "line", !.gone = TRUE]
  BY Zenon DEF Send
<1>5. /\ conn'.pc = "sent" /\ conn'.c = conn.c /\ conn'.when = conn.when /\ conn'.did = conn.did
      /\ conn'.sent = conn.sent /\ conn'.handler = conn.handler
      /\ \/ conn'.req = conn.req /\ conn'.cut = "no" /\ conn'.got \in Delivered(conn.c)
         \/ /\ conn'.req \in BrokenHeads(conn.req) \cup BrokenLines(conn.req)
            /\ conn'.cut # "no" /\ conn'.got = <<>>
  <2>. DEFINE D == Delivered(conn.c)
              BH == BrokenHeads(conn.req)
              BL == BrokenLines(conn.req)
  <2>1. PICK gone : gone = (conn.c.fault \in {"cut", "torn"})
    BY Zenon
  <2>2. \/ \E w \in D : conn' = [conn EXCEPT !.pc = "sent", !.got = w, !.gone = gone]
        \/ \E r \in BH : conn' = [conn EXCEPT !.pc = "sent", !.req = r, !.cut = "head", !.gone = TRUE]
        \/ \E r \in BL : conn' = [conn EXCEPT !.pc = "sent", !.req = r, !.cut = "line", !.gone = TRUE]
    BY <1>4, <2>1, Zenon
  <2>. HIDE DEF D, BH, BL
  <2>3. /\ conn'.pc = "sent" /\ conn'.c = conn.c /\ conn'.when = conn.when /\ conn'.did = conn.did
        /\ conn'.sent = conn.sent /\ conn'.handler = conn.handler
        /\ \/ conn'.req = conn.req /\ conn'.cut = "no" /\ conn'.got \in D
           \/ conn'.req \in BH \cup BL /\ conn'.cut # "no" /\ conn'.got = <<>>
    <3>1. CASE \E w \in D : conn' = [conn EXCEPT !.pc = "sent", !.got = w, !.gone = gone]
      BY <1>1, <1>2, <3>1, SMTT(20) DEF Fields
    <3>2. CASE \E r \in BH : conn' = [conn EXCEPT !.pc = "sent", !.req = r, !.cut = "head", !.gone = TRUE]
      BY <1>1, <1>2, <3>2, SMTT(20) DEF Fields
    <3>3. CASE \E r \in BL : conn' = [conn EXCEPT !.pc = "sent", !.req = r, !.cut = "line", !.gone = TRUE]
      BY <1>1, <1>2, <3>3, SMTT(20) DEF Fields
    <3>. QED
      BY <2>2, <3>1, <3>2, <3>3, Zenon
  <2>. QED
    BY <2>3, Zenon DEF D, BH, BL
<1>6. Arrived(conn')
  <2>1. PICK ask, when, req : ask = conn.req.ask /\ when = conn.when /\ req = conn.req
    BY Zenon
  <2>2. req = Request(conn.c, ask, when)
    BY <1>3, <2>1, Zenon
  <2>5. Sendable(conn.c)
    <3>1. conn.pc # "idle"
      BY <1>1, SMTT(20)
    <3>. QED
      BY <3>1, ClientIs, Zenon
  <2>3. CASE conn'.req = conn.req /\ conn'.cut = "no" /\ conn'.got \in Delivered(conn.c)
    <3>1. Headed(req.lines, conn.c)
      BY <2>2, <2>5, HeadedWhole, Zenon
    <3>. QED
      BY <1>5, <2>1, <2>3, <3>1, Zenon DEF Arrived
  <2>4. CASE /\ conn'.req \in BrokenHeads(conn.req) \cup BrokenLines(conn.req)
             /\ conn'.cut # "no" /\ conn'.got = <<>>
    <3>1. PICK r : r = conn'.req
      BY Zenon
    <3>2. Headed(r.lines, conn.c) /\ Broken(r, conn.c, when)
      BY <2>1, <2>2, <2>4, <2>5, <3>1, BrokenIs, Zenon
    <3>. QED
      BY <1>5, <2>1, <2>4, <3>1, <3>2, Zenon DEF Arrived
  <2>. QED
    BY <1>5, <2>3, <2>4, Zenon
<1>7. Changed(conn', env)
  BY <1>2, <1>5, Zenon DEF Changed, Unserved
<1>8. Unserved(conn')
  BY <1>2, <1>5, Zenon DEF Unserved
<1>9. Embodied(conn', env)
  <2>1. "sent" # "signed" /\ "sent" \notin Serving
    BY SMTT(20) DEF Serving
  <2>. QED
    BY <1>5, <1>6, <1>7, <1>8, <2>1, Zenon DEF Embodied
<1>. QED
  BY <1>1, <1>9, SameObjects, Zenon

\* A body without chunks is empty.
LEMMA NoBody ==
  ASSUME NEW c, Sendable(c), c.framing = "none"
  PROVE  Body(c) = <<>>
<1>1. c.chunks = <<>>
  BY Zenon DEF Sendable
<1>2. Len(c.chunks) = 0
  BY <1>1, SMTT(20)
<1>3. Parts(c)[0] = Body(c) /\ Parts(c)[0] = <<>>
  BY <1>2, FramedIs, Zenon DEF Framed, Flattens
<1>. QED
  BY <1>3, Zenon

\* A read keeps what is known of a reader, and when it returns nothing, what was read
\* is the body, or the beginning of it if it was not sent in chunks.
LEMMA ReadGoes ==
  ASSUME NEW c, Sendable(c), NEW rd, NEW got, Reads(rd, got, c), NEW r, r = Read(rd), ~r.rd.failed, NEW cut
  PROVE  /\ Reads(r.rd, got \o r.got, c)
         /\ Puts(rd, got, c, cut) => /\ Puts(r.rd, got \o r.got, c, cut)
                                     /\ r.got = <<>> => Ended(got \o r.got, c, cut)
<1>1. Framed(c)
  BY FramedIs, Zenon
<1>2. PICK B, P, s, f, sig, sigs, body :
         /\ B = Stuff(c) /\ P = Papers(c) /\ s = c.chunks /\ f = Parts(c) /\ sig = Sigs(c) /\ body = Body(c)
         /\ sigs = {sig[i] : i \in 1..(Len(s) + 1)}
  BY Zenon
<1>3. /\ Len(s) \in Nat /\ s \in Seq(Seq(B) \ {<<>>}) /\ Flattens(f, s) /\ f[Len(s)] = body /\ Chains(sig, s)
      /\ \A i \in 0..(Len(s) + 1) : sig[i] # NoChain
      /\ \A i \in 1..(Len(s) + 1) : sig[i] # Seed
      /\ body \in Seq(B)
  BY <1>1, <1>2, Zenon DEF Framed
<1>4. P = Packets(B, sigs)
  BY <1>2, Zenon DEF Papers
<1>5. Typed(rd, got, B, P)
  BY <1>2, Zenon DEF Reads
<1>6. PICK q, new : q = r.rd /\ new = got \o r.got
  BY Zenon
<1>7. got \in Seq(B)
  BY <1>5, Zenon DEF Typed
<1>8. r.got = <<>> => new = got
  BY <1>6, <1>7, ConcatEmptySeq, Zenon
<1>9. CASE rd.chunked
  <2>1. /\ Typed(q, new, B, P) /\ q.chunked
        /\ Ordered(rd, got, s, f, sig) => Ordered(q, new, s, f, sig) /\ (r.got = <<>> => got = f[Len(s)])
    <3>1. Typed(rd, got, B, Packets(B, sigs)) /\ Sends(B, s, f, sig, sigs)
      BY <1>2, <1>3, <1>4, <1>5, Zenon DEF Sends
    <3>2. /\ Typed(r.rd, got \o r.got, B, Packets(B, sigs)) /\ r.rd.chunked
          /\ Ordered(rd, got, s, f, sig) =>
                /\ Ordered(r.rd, got \o r.got, s, f, sig)
                /\ r.got = <<>> => got = f[Len(s)]
      BY <1>9, <3>1, ReadChunkedSteps, SMTT(20)
    <3>. QED
      BY <1>4, <1>6, <3>2, Zenon
  <2>2. IsPrefix(body, body)
    BY <1>3, SMTT(20) DEF IsPrefix
  <2>3. r.got = <<>> /\ Puts(rd, got, c, cut) => Ended(new, c, cut)
    BY <1>2, <1>3, <1>8, <1>9, <2>1, <2>2, Zenon DEF Puts, Ended
  <2>. QED
    BY <1>2, <1>6, <1>9, <2>1, <2>3, Zenon DEF Reads, Puts
<1>10. CASE ~rd.chunked
  <2>1. /\ Typed(q, new, B, P) /\ ~q.chunked
        /\ Paced(rd, got, body) => Paced(q, new, body)
        /\ Len(new) + q.remaining = Len(got) + rd.remaining
    <3>1. /\ Typed(r.rd, got \o r.got, B, P) /\ ~r.rd.chunked
          /\ Paced(rd, got, body) => Paced(r.rd, got \o r.got, body)
          /\ Len(got \o r.got) + r.rd.remaining = Len(got) + rd.remaining
      BY <1>5, <1>10, ReadFixedSteps, SMTT(30)
    <3>2. r.rd = q /\ got \o r.got = new
      BY <1>6, Zenon
    <3>. QED
      BY <3>1, <3>2, SMTT(20)
  <2>2. new \in Seq(B) /\ q.wire \in Seq(B \cup P)
    <3>1. new \in Seq(B) /\ (q.wire \in Seq(B) \/ q.wire \in Seq(P))
      BY <2>1, Zenon DEF Typed
    <3>2. Seq(B) \subseteq Seq(B \cup P) /\ Seq(P) \subseteq Seq(B \cup P)
      BY SMTT(20)
    <3>. QED
      BY <3>1, <3>2, Zenon
  <2>3. Paced(q, new, body) => IsPrefix(new, body)
    <3>1. CASE new = <<>>
      <4>1. IsPrefix(<<>>, body)
        BY <1>3, SMTT(20) DEF IsPrefix
      <4>. QED
        BY <3>1, <4>1, Zenon
    <3>2. CASE \E n \in 0..Len(body) : new \o q.wire = SubSeq(body, 1, n)
      <4>1. new \in Seq(B \cup P) /\ body \in Seq(B \cup P)
        BY <1>3, <2>2, SMTT(20)
      <4>. QED
        BY <2>2, <3>2, <4>1, BeginsWith, Zenon
    <3>. QED
      BY <3>1, <3>2, Zenon DEF Paced
  <2>4. Puts(rd, got, c, cut) => Ended(new, c, cut)
    <3>7. CASE Unseen(c) /\ Len(got) + rd.remaining < Word
      <4>1. Len(new) \in Nat /\ Len(got) \in Nat /\ rd.remaining \in Nat /\ q.remaining \in Nat
        BY <1>5, <1>7, <2>1, <2>2, LenProperties, Zenon DEF Typed
      <4>2. Len(new) < Word
        BY <2>1, <3>7, <4>1, WordAssumption, SMTT(20)
      <4>. QED
        BY <3>7, <4>2, Zenon DEF Ended
    <3>1. SUFFICES ASSUME Puts(rd, got, c, cut), Paced(rd, got, body), cut = "no", c.framing # "fixed"
                   PROVE  new = body
      BY <1>2, <1>10, <2>1, <2>3, <3>7, Zenon DEF Ended, Puts
    <3>2. c.framing \in {"none", "fixed"}
      BY <1>10, <3>1, Zenon DEF Puts
    <3>3. c.framing = "none"
      BY <3>1, <3>2, SMTT(20)
    <3>4. body = <<>>
      BY <1>2, <3>3, NoBody, Zenon
    <3>5. IsPrefix(new, <<>>)
      BY <2>1, <2>3, <3>1, <3>4, Zenon
    <3>6. new = <<>>
      BY <2>2, <3>5, SMTT(20) DEF IsPrefix
    <3>. QED
      BY <3>4, <3>6, Zenon
  <2>. QED
    BY <1>2, <1>6, <1>10, <2>1, <2>4, Zenon DEF Reads, Puts
<1>11. rd.chunked \in BOOLEAN
  BY <1>5, Zenon DEF Typed
<1>. QED
  BY <1>9, <1>10, <1>11, Zenon

\* A read keeps it, and so does one that fails.
LEMMA ReadHolds == ServerInv /\ BodyInv /\ ReadBody => BodyInv'
<1>. SUFFICES ASSUME ServerInv, BodyInv, ReadBody PROVE BodyInv'
  BY Zenon
<1>1. UNCHANGED <<env, objs>> /\ conn.pc = "body" /\ DOMAIN conn = Fields /\ Embodied(conn, env)
  BY Zenon DEF ReadBody, ServerInv, ConnInv, BodyInv
<1>2. conn.pc \in Serving /\ conn.pc # "idle" /\ conn.pc \in {"body", "read"}
  BY <1>1, SMTT(20) DEF Serving
<1>3. Sendable(conn.c)
  BY <1>2, ClientIs, Zenon
<1>4. PICK r : r = Read(conn.rd)
  BY Zenon
<1>5. PICK got, pc : got = conn.got \o r.got /\ pc = IF r.got = <<>> THEN "read" ELSE "body"
  BY Zenon
<1>6. \/ ~r.rd.failed /\ conn' = [conn EXCEPT !.rd = r.rd, !.got = got, !.pc = pc]
      \/ conn' = [conn EXCEPT !.pc = "answered", !.status = 500]
  BY <1>4, <1>5, Zenon DEF ReadBody, Answer
<1>7. CASE conn' = [conn EXCEPT !.pc = "answered", !.status = 500]
  <2>1. /\ Kept(conn, conn') /\ conn'.pc = "answered" /\ conn'.status = 500 /\ conn'.did = conn.did
        /\ conn'.handler = conn.handler /\ conn'.to = conn.to
    BY <1>1, <1>7, SMTT(20) DEF Kept, Fields
  <2>2. conn'.status \in {404, 500} /\ conn'.pc \in Serving
    BY <2>1, SMTT(20) DEF Serving
  <2>3. InBody(conn') /\ Sliced(conn')
    BY <2>1, <2>2, AnsweredWell, Zenon
  <2>4. Embodied(conn', env)
    BY <1>1, <1>2, <2>1, <2>2, <2>3, GoesOn, Zenon
  <2>. QED
    BY <1>1, <2>4, SameObjects, Zenon
<1>8. CASE ~r.rd.failed /\ conn' = [conn EXCEPT !.rd = r.rd, !.got = got, !.pc = pc]
  <2>1. pc \in {"body", "read"}
    BY <1>5, SMTT(20)
  <2>2. /\ Kept(conn, conn') /\ conn'.pc = pc /\ conn'.did = conn.did /\ conn'.rd = r.rd /\ conn'.got = got
        /\ conn'.handler = conn.handler /\ conn'.to = conn.to /\ conn'.status = conn.status
        /\ conn'.c = conn.c /\ conn'.cut = conn.cut /\ conn'.accepted = conn.accepted
    BY <1>1, <1>8, SMTT(20) DEF Kept, Fields
  <2>3. /\ conn.accepted /\ Reads(conn.rd, conn.got, conn.c)
        /\ Putting(conn) => Puts(conn.rd, conn.got, conn.c, conn.cut)
    BY <1>1, <1>2, Zenon DEF Embodied, InBody
  <2>4. PICK c, cut : c = conn.c /\ cut = conn.cut
    BY Zenon
  <2>5. /\ Reads(r.rd, got, c)
        /\ Puts(conn.rd, conn.got, c, cut) => Puts(r.rd, got, c, cut) /\ (r.got = <<>> => Ended(got, c, cut))
    BY <1>3, <1>4, <1>5, <1>8, <2>3, <2>4, ReadGoes, Zenon
  <2>6. Putting(conn') <=> Putting(conn)
    BY <2>2, Zenon DEF Putting
  <2>7. got \in Seq(Stuff(c))
    BY <2>5, Zenon DEF Reads, Typed
  <2>8. pc = "read" => r.got = <<>>
    BY <1>5, SMTT(20)
  <2>9. InBody(conn')
    BY <2>2, <2>3, <2>4, <2>5, <2>6, <2>7, <2>8, Zenon DEF InBody
  <2>10. Sliced(conn')
    <3>1. conn'.pc \notin {"send", "answered"}
      BY <2>1, <2>2, SMTT(20)
    <3>. QED
      BY <3>1, Zenon DEF Sliced
  <2>11. conn'.pc \in Serving
    BY <2>1, <2>2, SMTT(20) DEF Serving
  <2>12. Embodied(conn', env)
    BY <1>1, <1>2, <2>2, <2>9, <2>10, <2>11, GoesOn, Zenon
  <2>. QED
    BY <1>1, <2>12, SameObjects, Zenon
<1>. QED
  BY <1>6, <1>7, <1>8, Zenon

\* The beginning of a body fits where the body does, and is not the mark of a deletion.
LEMMA EndedFits ==
  ASSUME NEW c, Sendable(c), NEW got \in Seq(Stuff(c)), NEW cut, Ended(got, c, cut)
  PROVE  got \in Seq(Block) /\ Len(got) < Word /\ got # None
<1>1. PICK B, body : B = Stuff(c) /\ body = Body(c)
  BY Zenon
<1>2. B \subseteq Block /\ body \in Seq(B) /\ Len(body) < Word /\ (IsPrefix(got, body) \/ Len(got) < Word)
  BY <1>1, FramedIs, Zenon DEF Framed, Sendable, Ended
<1>3. got \in Seq(Block)
  BY <1>1, <1>2, SMTT(20)
<1>4. Len(got) < Word
  BY <1>1, <1>2, WordAssumption, SMTT(20) DEF IsPrefix
<1>5. got # None
  BY <1>3, NoneAssumption, Zenon
<1>. QED
  BY <1>3, <1>4, <1>5, Zenon

\* The end of a put commits what was read, or nothing,
LEMMA CommitHolds == ServerInv /\ BodyInv /\ Commit => BodyInv'
<1>. SUFFICES ASSUME ServerInv, BodyInv, Commit PROVE BodyInv'
  BY Zenon
<1>1. /\ env' = env /\ conn.pc = "read" /\ DOMAIN conn = Fields /\ Embodied(conn, env) /\ Stored
      /\ conn.handler = "putObject"
  BY Zenon DEF Commit, ServerInv, ConnInv, BodyInv
<1>2. conn.pc \in Serving /\ conn.pc # "idle" /\ conn.pc \in {"body", "read"}
  BY <1>1, SMTT(20) DEF Serving
<1>3. Sendable(conn.c)
  BY <1>2, ClientIs, Zenon
<1>4. PICK key, got, c, cut : key = conn.to.key /\ got = conn.got /\ c = conn.c /\ cut = conn.cut
  BY Zenon
<1>5. \/ /\ conn.status = 0 /\ objs' = With(key, got)
         /\ conn' = [conn EXCEPT !.pc = "answered", !.status = 200, !.did = {<<key, got>>}]
      \/ /\ objs' = objs
         /\ \E status : conn' = [conn EXCEPT !.pc = "answered", !.status = status]
  BY <1>4, Zenon DEF Commit, Answer
<1>6. CASE /\ objs' = objs
           /\ \E status : conn' = [conn EXCEPT !.pc = "answered", !.status = status]
  <2>1. /\ Kept(conn, conn') /\ conn'.pc = "answered" /\ conn'.did = conn.did
        /\ conn'.handler = conn.handler /\ conn'.to = conn.to
    BY <1>1, <1>6, SMTT(20) DEF Kept, Fields
  <2>2. conn'.handler # "getObject" /\ conn'.pc \in Serving
    BY <1>1, <2>1, SMTT(20) DEF Serving
  <2>3. InBody(conn') /\ Sliced(conn')
    BY <2>1, <2>2, AnsweredWell, Zenon
  <2>4. Embodied(conn', env)
    BY <1>1, <1>2, <2>1, <2>2, <2>3, GoesOn, Zenon
  <2>. QED
    BY <1>1, <1>6, <2>4, SameObjects, Zenon
<1>7. CASE /\ conn.status = 0 /\ objs' = With(key, got)
           /\ conn' = [conn EXCEPT !.pc = "answered", !.status = 200, !.did = {<<key, got>>}]
  <2>1. /\ Kept(conn, conn') /\ conn'.pc = "answered" /\ conn'.did = {<<key, got>>}
        /\ conn'.handler = conn.handler /\ conn'.to = conn.to /\ conn'.c = conn.c /\ conn'.cut = conn.cut
    BY <1>1, <1>7, SMTT(20) DEF Kept, Fields
  <2>2. conn'.handler # "getObject" /\ conn'.pc \in Serving
    BY <1>1, <2>1, SMTT(20) DEF Serving
  <2>3. InBody(conn') /\ Sliced(conn')
    BY <2>1, <2>2, AnsweredWell, Zenon
  <2>4. Putting(conn) /\ conn.accepted
    BY <1>1, <1>2, <1>7, Zenon DEF Putting, Embodied, InBody
  <2>5. got \in Seq(Stuff(c)) /\ Ended(got, c, cut)
    BY <1>1, <1>2, <1>4, <2>4, Zenon DEF Embodied, InBody
  <2>6. got \in Seq(Block) /\ Len(got) < Word /\ got # None
    BY <1>3, <1>4, <2>5, EndedFits, Zenon
  <2>7. (c.op = "putObject" /\ key = c.key) \/ (cut # "no" /\ env.anonymous)
    <3>1. SUFFICES ASSUME cut = "no" \/ ~env.anonymous PROVE key = c.key /\ c.op = "putObject"
      BY Zenon
    <3>2. Meant(conn, env)
      BY <1>1, <1>2, Zenon DEF Embodied
    <3>3. conn.handler = c.op /\ conn.to = [bucket |-> c.bucket, key |-> c.key]
      BY <1>4, <2>4, <3>1, <3>2, Zenon DEF Meant
    <3>4. conn.to.key = c.key
      BY <3>3, SMTT(20)
    <3>. QED
      BY <1>1, <1>4, <3>3, <3>4, Zenon
  <2>8. PICK d : d = <<key, got>>
    BY Zenon
  <2>9. d[1] = key /\ d[2] = got
    BY <2>8, SMTT(20)
  <2>10. Right(d, c, cut, env)
    BY <2>5, <2>6, <2>7, <2>9, Zenon DEF Right
  <2>11. Changed(conn', env)
    BY <1>4, <2>1, <2>8, <2>10, Zenon DEF Changed
  <2>12. Embodied(conn', env)
    BY <1>1, <1>2, <2>1, <2>2, <2>3, <2>11, Proceeds, Zenon
  <2>13. Stored'
    BY <1>1, <1>7, <2>6, StoredWith, Zenon
  <2>. QED
    BY <1>1, <2>12, <2>13, Zenon DEF BodyInv
<1>. QED
  BY <1>5, <1>6, <1>7, Zenon

\* and a list of objects to delete deletes those it names.
LEMMA DeleteHolds == ServerInv /\ BodyInv /\ DeleteNext => BodyInv'
<1>. SUFFICES ASSUME ServerInv, BodyInv, DeleteNext PROVE BodyInv'
  BY Zenon
<1>1. /\ env' = env /\ conn.pc = "read" /\ DOMAIN conn = Fields /\ Embodied(conn, env) /\ Stored
      /\ conn.handler = "deleteObjects"
  BY Zenon DEF DeleteNext, ServerInv, ConnInv, BodyInv
<1>2. conn.pc \in Serving /\ conn.pc # "idle" /\ conn.pc \in {"body", "read"}
  BY <1>1, SMTT(20) DEF Serving
<1>3. PICK read, c, cut, B : read = conn.got /\ c = conn.c /\ cut = conn.cut /\ B = Stuff(c)
  BY Zenon
<1>4. conn.accepted /\ read \in Seq(B) /\ Changed(conn, env) /\ Meant(conn, env)
  BY <1>1, <1>2, <1>3, Zenon DEF Embodied, InBody
<1>5. PICK items, i : items = Items(read) /\ i = Min(items)
  BY Zenon
<1>6. \/ items = {} /\ objs' = objs /\ conn' = [conn EXCEPT !.pc = "answered", !.status = 200]
      \/ /\ items # {}
         /\ \E gone, got, did :
               /\ gone \subseteq Unlinked(read[i].key) /\ objs' = Without(gone)
               /\ got = IF items = {i} THEN <<>> ELSE SubSeq(read, i + 1, Len(read))
               /\ did = conn.did \cup {<<g, None>> : g \in gone}
               /\ conn' = [conn EXCEPT !.got = got, !.did = did]
  <2>1. PICK gone, got, did :
           /\ gone = IF There([bucket |-> conn.to.bucket, key |-> read[i].key])
                     THEN Unlinked(read[i].key) \cap DOMAIN objs ELSE {}
           /\ got = IF items = {i} THEN <<>> ELSE SubSeq(read, i + 1, Len(read))
           /\ did = conn.did \cup {<<g, None>> : g \in gone}
    BY Zenon
  <2>2. \/ items = {} /\ objs' = objs /\ conn' = [conn EXCEPT !.pc = "answered", !.status = 200]
        \/ items # {} /\ objs' = Without(gone) /\ conn' = [conn EXCEPT !.got = got, !.did = did]
    BY <1>3, <1>5, <2>1, Zenon DEF DeleteNext, Answer
  <2>3. gone \subseteq Unlinked(read[i].key)
    BY <2>1, Zenon
  <2>4. CASE items = {} /\ objs' = objs /\ conn' = [conn EXCEPT !.pc = "answered", !.status = 200]
    BY <2>4, Zenon
  <2>5. CASE items # {} /\ objs' = Without(gone) /\ conn' = [conn EXCEPT !.got = got, !.did = did]
    BY <2>1, <2>3, <2>5, Zenon
  <2>. QED
    BY <2>2, <2>4, <2>5, Zenon
<1>7. CASE items = {} /\ objs' = objs /\ conn' = [conn EXCEPT !.pc = "answered", !.status = 200]
  <2>1. /\ Kept(conn, conn') /\ conn'.pc = "answered" /\ conn'.did = conn.did
        /\ conn'.handler = conn.handler /\ conn'.to = conn.to
    BY <1>1, <1>7, SMTT(20) DEF Kept, Fields
  <2>2. conn'.handler # "getObject" /\ conn'.pc \in Serving
    BY <1>1, <2>1, SMTT(20) DEF Serving
  <2>3. InBody(conn') /\ Sliced(conn')
    BY <2>1, <2>2, AnsweredWell, Zenon
  <2>4. Embodied(conn', env)
    BY <1>1, <1>2, <2>1, <2>2, <2>3, GoesOn, Zenon
  <2>. QED
    BY <1>1, <1>7, <2>4, SameObjects, Zenon
<1>8. ASSUME items # {}, NEW gone, gone \subseteq Unlinked(read[i].key), objs' = Without(gone), NEW got, NEW did,
             got = IF items = {i} THEN <<>> ELSE SubSeq(read, i + 1, Len(read)),
             did = conn.did \cup {<<g, None>> : g \in gone},
             conn' = [conn EXCEPT !.got = got, !.did = did]
      PROVE  BodyInv'
  <2>1. /\ Kept(conn, conn') /\ conn'.pc = "read" /\ conn'.did = did /\ conn'.got = got
        /\ conn'.handler = conn.handler /\ conn'.to = conn.to /\ conn'.c = conn.c /\ conn'.cut = conn.cut
        /\ conn'.accepted = conn.accepted
    BY <1>1, <1>8, SMTT(20) DEF Kept, Fields
  <2>2. conn'.handler # "putObject" /\ conn'.handler # "getObject" /\ conn'.pc # "body" /\ conn'.pc \in Serving
    BY <1>1, <2>1, SMTT(20) DEF Serving
  <2>3. i \in DOMAIN read
    <3>1. items \subseteq DOMAIN read
      BY <1>5, SMTT(20) DEF Items
    <3>2. items \subseteq Nat
      BY <1>4, <3>1, SMTT(20)
    <3>3. i \in items
      <4>1. PICK n \in items : \A m \in items : n <= m
        BY <1>8, <3>2, Least, Zenon
      <4>2. items \in SUBSET Int
        BY <3>2, SMTT(20)
      <4>3. Min(items) = n
        BY <4>1, <4>2, MinIs, Zenon
      <4>. QED
        BY <1>5, <4>1, <4>3, Zenon
    <3>. QED
      BY <3>1, <3>3, Zenon
  <2>4. got \in Seq(B)
    BY <1>4, <1>8, <2>3, SMTT(20)
  <2>5. InBody(conn') /\ Sliced(conn')
    BY <1>3, <1>4, <2>1, <2>2, <2>4, Zenon DEF InBody, Sliced, Putting
  <2>6. read[i] \in B
    BY <1>4, <2>3, SMTT(20)
  <2>7. c.op = "deleteObjects" \/ (cut # "no" /\ env.anonymous)
    BY <1>1, <1>3, <1>4, Zenon DEF Meant
  <2>8. ASSUME NEW g \in gone PROVE Right(<<g, None>>, c, cut, env)
    <3>1. PICK d : d = <<g, None>>
      BY Zenon
    <3>2. d[1] = g /\ d[2] = None
      BY <3>1, SMTT(20)
    <3>3. d[1] \in Unlinked(read[i].key)
      BY <1>8, <3>2, Zenon
    <3>. QED
      BY <1>3, <2>6, <2>7, <3>1, <3>2, <3>3, Zenon DEF Right
  <2>9. \A e \in conn.did : Right(e, c, cut, env)
    BY <1>3, <1>4, Zenon DEF Changed
  <2>10. Changed(conn', env)
    BY <1>3, <1>8, <2>1, <2>8, <2>9, Zenon DEF Changed
  <2>11. Embodied(conn', env)
    BY <1>1, <1>2, <2>1, <2>2, <2>5, <2>10, Proceeds, Zenon
  <2>12. Stored'
    BY <1>1, <1>8, StoredWithout, Zenon
  <2>. QED
    BY <1>1, <2>11, <2>12, Zenon DEF BodyInv
<1>. QED
  BY <1>6, <1>7, <1>8, Zenon

\* What is less than a word stays what it is.
LEMMA Remainder ==
  ASSUME NEW n \in Nat, NEW word \in Nat, n < word
  PROVE  n % word = n
<1>1. word > 0 /\ n >= 0
  BY SMTT(20)
<1>2. n \div word = 0 /\ n = word * (n \div word) + (n % word)
  BY <1>1, SMTT(20)
<1>3. PICK a, b \in Int : a = n \div word /\ b = n % word
  BY <1>1, SMTT(20)
<1>. QED
  BY <1>2, <1>3, SMTT(20)

\* A range a client may ask for, and what get_object makes of it for an object of so
\* many blocks.
Ranged(range) == range = None \/ (range.from \in Nat /\ (range.to = None \/ range.to \in Nat))

\* The last block a range may name, and the answer for one that starts before it or not.
LastBlock(range, n) == IF range.to = None THEN n - 1 ELSE Min2(range.to, n - 1)
Within(span, range, end) ==
    /\ span.start = range.from
    /\ span.status = IF range.from > end THEN 416 ELSE 206
    /\ range.from <= end => span.length = end - range.from + 1

\* Clients ask for such ranges.
LEMMA ClientsRange ==
  ASSUME NEW c, Sendable(c), NEW range, range = c.range
  PROVE  Ranged(range)
<1>1. \A n : n \in 0..(Word - 1) => n \in Nat
  BY WordAssumption, SMTT(20)
<1>2. \/ range = None
      \/ range.from \in 0..(Word - 1) /\ (range.to = None \/ range.to \in 0..(Word - 1))
  BY Zenon DEF Sendable
<1>. QED
  BY <1>1, <1>2, Zenon DEF Ranged

\* The start and length of what is answered are natural numbers; unless there is
\* nothing, the end is within the object.
LEMMA SpanIs ==
  ASSUME NEW range, Ranged(range), NEW n \in Nat, n < Word, NEW span, span = Span(range, n)
  PROVE  /\ span.start \in Nat /\ span.length \in Nat
         /\ range = None => span.status = 200 /\ span.start = 0 /\ span.length = n
         /\ range # None /\ n # 0 => Within(span, range, LastBlock(range, n))
<1>1. ASSUME NEW m \in Int PROVE m % Word \in Nat /\ m % Word < Word
  BY WordAssumption, SMTT(20)
<1>2. ASSUME NEW m \in Nat, m < Word PROVE m % Word = m
  BY <1>2, WordAssumption, Remainder, SMTT(20)
<1>3. CASE range = None
  BY <1>3, SMTT(20) DEF Span
<1>4. CASE range # None
  <2>1. PICK from, to, last, end : /\ from = range.from /\ to = range.to /\ last = (n - 1) % Word
                                   /\ end = IF to = None THEN last ELSE Min2(to, last)
    BY Zenon
  <2>2. from \in Nat /\ (to = None \/ to \in Nat)
    BY <1>4, <2>1, Zenon DEF Ranged
  <2>3. last \in Nat /\ end \in Nat
    <3>1. last \in Nat
      BY <1>1, <2>1, SMTT(20)
    <3>. QED
      BY <2>1, <2>2, <3>1, SMTT(20) DEF Min2
  <2>4. PICK length : length = (end - from + 1) % Word
    BY Zenon
  <2>5. length \in Nat
    <3>1. end - from + 1 \in Int
      BY <2>2, <2>3, SMTT(20)
    <3>. QED
      BY <1>1, <2>4, <3>1, Zenon
  <2>6. span = [status |-> IF from > end THEN 416 ELSE 206, start |-> from, length |-> length]
    BY <1>4, <2>1, <2>4, Zenon DEF Span, Wrap
  <2>7. span.start = from /\ span.length = length /\ span.status = IF from > end THEN 416 ELSE 206
    BY <2>6, SMTT(20)
  <2>8. n # 0 => last = n - 1
    <3>1. n # 0 => n - 1 \in Nat /\ n - 1 < Word
      BY WordAssumption, SMTT(20)
    <3>. QED
      BY <1>2, <2>1, <3>1, Zenon
  <2>9. n # 0 /\ from <= end => length = end - from + 1
    <3>1. SUFFICES ASSUME n # 0, from <= end PROVE length = end - from + 1
      BY Zenon
    <3>2. end <= last
      BY <2>1, <2>2, <2>3, SMTT(20) DEF Min2
    <3>3. end - from + 1 \in Nat /\ end - from + 1 < Word
      BY <2>2, <2>3, <2>8, <3>1, <3>2, WordAssumption, SMTT(20)
    <3>. QED
      BY <1>2, <2>4, <3>3, Zenon
  <2>10. n # 0 => end = LastBlock(range, n)
    BY <2>1, <2>8, Zenon DEF LastBlock
  <2>11. n # 0 => Within(span, range, end)
    BY <2>1, <2>7, <2>9, SMTT(20) DEF Within
  <2>. QED
    BY <1>4, <2>2, <2>5, <2>7, <2>10, <2>11, Zenon
<1>. QED
  BY <1>3, <1>4, Zenon

\* Each block that is sent is the next one of the object.
LEMMA SliceGoes ==
  ASSUME NEW x, NEW y, NEW range, Ranged(range), Slice(x, range), x.pc = "send",
         y.file = x.file, y.status = x.status, y.start = x.start, y.size = x.size,
         \/ /\ x.remaining = 0 \/ x.start + Len(x.sent) >= Len(x.file)
            /\ y.pc = "answered" /\ y.sent = x.sent /\ y.remaining = x.remaining
         \/ /\ ~(x.remaining = 0 \/ x.start + Len(x.sent) >= Len(x.file))
            /\ y.pc = "send" /\ y.sent = Append(x.sent, x.file[x.start + Len(x.sent) + 1])
            /\ y.remaining = x.remaining - 1
  PROVE  Slice(y, range)
<1>1. PICK file, start, size, sent, left, now, rest :
         /\ file = x.file /\ start = x.start /\ size = x.size /\ sent = x.sent /\ left = x.remaining
         /\ now = y.sent /\ rest = y.remaining
  BY Zenon
<1>2. PICK span : span = Span(range, Len(file))
  BY Zenon
<1>3. file \in Seq(Block) /\ Len(file) < Word /\ x.status = span.status /\ start = span.start /\ size = span.length
  BY <1>1, <1>2, Zenon DEF Slice
<1>4. Len(file) \in Nat
  BY <1>3, SMTT(20)
<1>5. start \in Nat
  BY <1>2, <1>3, <1>4, SpanIs, SMTT(20)
<1>6. SUFFICES ASSUME x.status # 416
               PROVE  /\ rest \in Nat /\ now \in Seq(Block) /\ Len(now) + rest = size
                      /\ \A i \in DOMAIN now : start + i <= Len(file) /\ now[i] = file[start + i]
                      /\ y.pc = "answered" => rest = 0 \/ start + Len(now) >= Len(file)
  BY <1>1, <1>2, <1>3, SMTT(20) DEF Slice
<1>7. /\ left \in Nat /\ sent \in Seq(Block) /\ Len(sent) + left = size
      /\ \A i \in DOMAIN sent : start + i <= Len(file) /\ sent[i] = file[start + i]
  BY <1>1, <1>6, Zenon DEF Slice
<1>8. CASE /\ left = 0 \/ start + Len(sent) >= Len(file)
           /\ y.pc = "answered" /\ now = sent /\ rest = left
  BY <1>7, <1>8, Zenon
<1>9. CASE /\ ~(left = 0 \/ start + Len(sent) >= Len(file))
           /\ y.pc = "send" /\ now = Append(sent, file[start + Len(sent) + 1]) /\ rest = left - 1
  <2>1. start + Len(sent) + 1 \in 1..Len(file) /\ Len(sent) \in Nat
    BY <1>4, <1>5, <1>7, <1>9, SMTT(20)
  <2>2. file[start + Len(sent) + 1] \in Block
    BY <1>3, <2>1, SMTT(20)
  <2>3. /\ now \in Seq(Block) /\ Len(now) = Len(sent) + 1
        /\ \A i \in DOMAIN now : now[i] = IF i = Len(sent) + 1 THEN file[start + Len(sent) + 1] ELSE sent[i]
        /\ \A i \in DOMAIN now : i = Len(sent) + 1 \/ i \in DOMAIN sent
    BY <1>7, <1>9, <2>1, <2>2, SMTT(20)
  <2>4. rest \in Nat /\ Len(now) + rest = size
    BY <1>7, <1>9, <2>1, <2>3, SMTT(20)
  <2>5. start + (Len(sent) + 1) = start + Len(sent) + 1 /\ start + (Len(sent) + 1) <= Len(file)
    BY <1>4, <1>5, <2>1, SMTT(20)
  <2>6. \A i \in DOMAIN now : start + i <= Len(file) /\ now[i] = file[start + i]
    BY <1>7, <2>3, <2>5, Zenon
  <2>7. y.pc # "answered"
    BY <1>9, SMTT(20)
  <2>. QED
    BY <2>3, <2>4, <2>6, <2>7, Zenon
<1>. QED
  BY <1>1, <1>8, <1>9, Zenon

\* Each block of an answer, the end of it, and a client that has left.
LEMMA SendBlockHolds == ServerInv /\ BodyInv /\ SendBlock => BodyInv'
<1>. SUFFICES ASSUME ServerInv, BodyInv, SendBlock PROVE BodyInv'
  BY Zenon
<1>1. UNCHANGED <<env, objs>> /\ conn.pc = "send" /\ DOMAIN conn = Fields /\ Embodied(conn, env)
  BY Zenon DEF SendBlock, ServerInv, ConnInv, BodyInv
<1>2. conn.pc \in Serving /\ conn.pc # "idle" /\ conn.pc \in {"send", "answered"}
  BY <1>1, SMTT(20) DEF Serving
<1>3. PICK range : range = conn.c.range
  BY Zenon
<1>4. Ranged(range)
  BY <1>2, <1>3, ClientIs, ClientsRange, Zenon
<1>5. PICK next, left, over : /\ next = Append(conn.sent, conn.file[conn.start + Len(conn.sent) + 1])
                              /\ left = conn.remaining - 1
                              /\ over = (conn.remaining = 0 \/ conn.start + Len(conn.sent) >= Len(conn.file))
  BY Zenon
<1>6. \/ over /\ conn' = [conn EXCEPT !.pc = "answered"]
      \/ ~over /\ conn' = [conn EXCEPT !.sent = next, !.remaining = left]
      \/ conn' = Idle
  BY <1>5, Zenon DEF SendBlock, Goto
<1>7. CASE conn' = Idle
  <2>1. Embodied(conn', env)
    BY <1>7, IdleEmbodied, Zenon
  <2>. QED
    BY <1>1, <2>1, SameObjects, Zenon
<1>8. ASSUME \/ over /\ conn' = [conn EXCEPT !.pc = "answered"]
             \/ ~over /\ conn' = [conn EXCEPT !.sent = next, !.remaining = left]
      PROVE  BodyInv'
  <2>1. /\ Kept(conn, conn') /\ conn'.did = conn.did /\ conn'.handler = conn.handler /\ conn'.to = conn.to
        /\ conn'.file = conn.file /\ conn'.status = conn.status /\ conn'.start = conn.start
        /\ conn'.size = conn.size /\ conn'.cut = conn.cut /\ conn'.c = conn.c
        /\ \/ over /\ conn'.pc = "answered" /\ conn'.sent = conn.sent /\ conn'.remaining = conn.remaining
           \/ ~over /\ conn'.pc = "send" /\ conn'.sent = next /\ conn'.remaining = left
    <3>1. CASE over /\ conn' = [conn EXCEPT !.pc = "answered"]
      <4>1. /\ Kept(conn, conn') /\ conn'.did = conn.did /\ conn'.handler = conn.handler /\ conn'.to = conn.to
            /\ conn'.file = conn.file /\ conn'.status = conn.status /\ conn'.start = conn.start
            /\ conn'.size = conn.size /\ conn'.cut = conn.cut /\ conn'.c = conn.c
            /\ conn'.pc = "answered" /\ conn'.sent = conn.sent /\ conn'.remaining = conn.remaining
        BY <1>1, <3>1, SMTT(20) DEF Kept, Fields
      <4>. QED
        BY <3>1, <4>1, Zenon
    <3>2. CASE ~over /\ conn' = [conn EXCEPT !.sent = next, !.remaining = left]
      <4>1. /\ Kept(conn, conn') /\ conn'.did = conn.did /\ conn'.handler = conn.handler /\ conn'.to = conn.to
            /\ conn'.file = conn.file /\ conn'.status = conn.status /\ conn'.start = conn.start
            /\ conn'.size = conn.size /\ conn'.cut = conn.cut /\ conn'.c = conn.c
            /\ conn'.pc = "send" /\ conn'.sent = next /\ conn'.remaining = left
        BY <1>1, <3>2, SMTT(20) DEF Kept, Fields
      <4>. QED
        BY <3>2, <4>1, Zenon
    <3>. QED
      BY <1>8, <3>1, <3>2, Zenon
  <2>2. conn'.pc \in {"send", "answered"} /\ conn'.pc \in Serving /\ conn'.pc \notin {"body", "read"}
        /\ conn'.pc # "body" /\ conn'.pc # "read"
    BY <2>1, SMTT(20) DEF Serving
  <2>3. InBody(conn')
    BY <2>2, Zenon DEF InBody
  <2>4. Sliced(conn')
    <3>1. SUFFICES ASSUME conn.cut = "no", conn.handler = "getObject", conn.status \notin {404, 500}
                   PROVE  Slice(conn', range)
      BY <1>3, <2>1, SMTT(20) DEF Sliced
    <3>2. Slice(conn, range)
      BY <1>1, <1>2, <1>3, <3>1, Zenon DEF Embodied, Sliced
    <3>3. PICK x, y : x = conn /\ y = conn'
      BY Zenon
    <3>4. \/ /\ x.remaining = 0 \/ x.start + Len(x.sent) >= Len(x.file)
             /\ y.pc = "answered" /\ y.sent = x.sent /\ y.remaining = x.remaining
          \/ /\ ~(x.remaining = 0 \/ x.start + Len(x.sent) >= Len(x.file))
             /\ y.pc = "send" /\ y.sent = Append(x.sent, x.file[x.start + Len(x.sent) + 1])
             /\ y.remaining = x.remaining - 1
      BY <1>5, <2>1, <3>3, Zenon
    <3>5. y.file = x.file /\ y.status = x.status /\ y.start = x.start /\ y.size = x.size /\ x.pc = "send"
      BY <1>1, <2>1, <3>3, Zenon
    <3>6. Slice(y, range)
      BY <1>4, <3>2, <3>3, <3>4, <3>5, SliceGoes, Zenon
    <3>. QED
      BY <3>3, <3>6, Zenon
  <2>5. Embodied(conn', env)
    BY <1>1, <1>2, <2>1, <2>2, <2>3, <2>4, GoesOn, Zenon
  <2>. QED
    BY <1>1, <2>5, SameObjects, Zenon
<1>. QED
  BY <1>6, <1>7, <1>8, Zenon

\* The start of an answer with a part of an object.
Opened(h, file, range) ==
    LET span == Span(range, Len(file)) IN
    /\ h.file = file /\ h.status = span.status /\ h.start = span.start /\ h.size = span.length
    /\ h.remaining = span.length /\ h.sent = <<>>
    /\ h.pc = "answered" => h.status = 416

\* Where a handler leaves a request at first.
Begun(name, to, req, got, h) ==
    /\ h.did = {} \/ (name = "deleteObject" /\ \A d \in h.did : d[1] \in Unlinked(to.key) /\ d[2] = None)
    /\ h.pc = "body" =>
          /\ h.got = <<>> /\ h.rd \in {PutReader(req, got), BodyReader(req, got)}
          /\ name = "putObject" /\ h.status = 0 => h.rd = PutReader(req, got)
    /\ name = "getObject" /\ h.status \notin {404, 500} =>
          \E k \in DOMAIN objs : Opened(h, objs[k], Get(req.lines, "range"))

\* An answer of a handler that changes nothing and sends no object is such a start.
LEMMA AnswerBegins ==
  ASSUME NEW name, NEW to, NEW req, NEW got, NEW h, h.pc # "body",
         h.did = {} \/ (name = "deleteObject" /\ \A d \in h.did : d[1] \in Unlinked(to.key) /\ d[2] = None),
         name # "getObject" \/ h.status \in {404, 500}
  PROVE  Begun(name, to, req, got, h)
  BY Zenon DEF Begun

\* What each handler does before it first waits.
LEMMA HandlerBegins ==
  ASSUME NEW name, NEW to, NEW req, NEW in, DOMAIN in = Fields, in.did = {}, in.sent = <<>>
  PROVE  Begun(name, to, req, in.got, Handler(name, to, req, in))
<1>1. PICK at, got : at = [in EXCEPT !.handler = name, !.to = to] /\ got = in.got
  BY Zenon
<1>2. DOMAIN at = Fields /\ at.did = {} /\ at.sent = <<>> /\ at.got = got
  BY <1>1, SMTT(20) DEF Fields
<1>3. ASSUME NEW status, name # "getObject" \/ status \in {404, 500}
      PROVE  Begun(name, to, req, got, Answered(at, status))
  <2>1. PICK h : h = Answered(at, status)
    BY Zenon
  <2>2. h.pc # "body" /\ h.did = {} /\ h.status = status
    BY <1>2, <2>1, SMTT(20) DEF Answered, Fields
  <2>3. name # "getObject" \/ h.status \in {404, 500}
    BY <1>3, <2>2, Zenon
  <2>4. Begun(name, to, req, got, h)
    BY <2>2, <2>3, SMTT(20) DEF Begun
  <2>. QED
    BY <2>1, <2>4, Zenon
<1>4. ASSUME NEW rd, NEW r, r = Reading(at, rd)
      PROVE  DOMAIN r = Fields /\ r.did = {} /\ r.got = <<>> /\ r.rd = rd
  BY <1>2, <1>4, SMTT(20) DEF Reading, Fields
<1>5. ASSUME name # "getObject"
      PROVE  /\ Begun(name, to, req, got, Reading(at, PutReader(req, got)))
             /\ name # "putObject" => Begun(name, to, req, got, Reading(at, BodyReader(req, got)))
  <2>1. PICK r, p : r = Reading(at, PutReader(req, got)) /\ p = PutReader(req, got)
    BY Zenon
  <2>2. r.did = {} /\ r.got = <<>> /\ r.rd = p
    BY <1>4, <2>1, Zenon
  <2>3. Begun(name, to, req, got, r)
    BY <1>5, <2>1, <2>2, Zenon DEF Begun
  <2>4. PICK q, b : q = Reading(at, BodyReader(req, got)) /\ b = BodyReader(req, got)
    BY Zenon
  <2>5. q.did = {} /\ q.got = <<>> /\ q.rd = b
    BY <1>4, <2>4, Zenon
  <2>6. name # "putObject" => Begun(name, to, req, got, q)
    BY <1>5, <2>4, <2>5, Zenon DEF Begun
  <2>. QED
    BY <2>1, <2>3, <2>4, <2>6, Zenon
<1>6. ASSUME NEW status, status # 0, name # "getObject"
      PROVE  Begun(name, to, req, got, [Reading(at, BodyReader(req, got)) EXCEPT !.status = status])
  <2>1. PICK q, b : q = Reading(at, BodyReader(req, got)) /\ b = BodyReader(req, got)
    BY Zenon
  <2>2. DOMAIN q = Fields /\ q.did = {} /\ q.got = <<>> /\ q.rd = b
    BY <1>4, <2>1, Zenon
  <2>3. PICK h : h = [q EXCEPT !.status = status]
    BY Zenon
  <2>4. h.did = {} /\ h.got = <<>> /\ h.rd = b /\ h.status = status
    BY <2>2, <2>3, SMTT(20) DEF Fields
  <2>5. Begun(name, to, req, got, h)
    BY <1>6, <2>1, <2>4, Zenon DEF Begun
  <2>. QED
    BY <2>1, <2>3, <2>5, Zenon
<1>7. name = "putObject" => Begun(name, to, req, got, PutObject(to, req, at))
  <2>1. SUFFICES ASSUME name = "putObject" PROVE Begun(name, to, req, got, PutObject(to, req, at))
    BY Zenon
  <2>2. name # "getObject" /\ 400 # 0 /\ 404 # 0
    BY <2>1, SMTT(20)
  <2>3. CASE Here(to) /\ ValidKey(to.key)
    BY <1>2, <1>5, <2>2, <2>3, Zenon DEF PutObject
  <2>4. CASE ~(Here(to) /\ ValidKey(to.key))
    <3>1. PICK status : status = IF Here(to) THEN 400 ELSE 404
      BY Zenon
    <3>2. status # 0
      BY <2>2, <3>1, Zenon
    <3>3. PICK q : q = [Reading(at, BodyReader(req, got)) EXCEPT !.status = status]
      BY Zenon
    <3>4. PutObject(to, req, at) = q
      BY <1>2, <2>4, <3>1, <3>3, Zenon DEF PutObject
    <3>5. Begun(name, to, req, got, q)
      BY <1>6, <2>2, <3>2, <3>3, Zenon
    <3>. QED
      BY <3>4, <3>5, Zenon
  <2>. QED
    BY <2>3, <2>4, Zenon
<1>8. name = "deleteObjects" => Begun(name, to, req, got, DeleteObjects(req, at))
  <2>1. name = "deleteObjects" => name # "getObject" /\ name # "putObject"
    BY SMTT(20)
  <2>. QED
    BY <1>2, <1>5, <2>1, Zenon DEF DeleteObjects
<1>9. ASSUME NEW headOnly, name = "getObject" => headOnly = FALSE
      PROVE  Begun(name, to, req, got, GetObject(to, req, at, headOnly))
  <2>2. CASE There(to)
    <3>1. PICK file, range : file = objs[Target(to.key)] /\ range = Get(req.lines, "range")
      BY Zenon
    <3>2. PICK span : span = Span(range, Len(file))
      BY Zenon
    <3>3. PICK pc : pc = IF span.status = 416 \/ headOnly THEN "answered" ELSE "send"
      BY Zenon
    <3>9. PICK h : h = [at EXCEPT !.pc = pc, !.got = <<>>, !.file = file, !.status = span.status,
                                  !.start = span.start, !.size = span.length, !.remaining = span.length]
      BY Zenon
    <3>4. h = GetObject(to, req, at, headOnly)
      BY <2>2, <3>1, <3>2, <3>3, <3>9, SMTT(20) DEF GetObject
    <3>5. /\ h.pc = pc /\ h.did = {} /\ h.file = file /\ h.status = span.status /\ h.start = span.start
          /\ h.size = span.length /\ h.remaining = span.length /\ h.sent = <<>>
      BY <1>2, <3>9, SMTT(20) DEF Fields
    <3>6. h.pc # "body"
      BY <3>3, <3>5, SMTT(20)
    <3>7. name = "getObject" => Opened(h, file, range)
      <4>1. name = "getObject" /\ pc = "answered" => span.status = 416
        BY <1>9, <3>3, SMTT(20)
      <4>. QED
        BY <3>2, <3>5, <4>1, Zenon DEF Opened
    <3>8. Target(to.key) \in DOMAIN objs
      BY <2>2, Zenon DEF There
    <3>10. Begun(name, to, req, got, h)
      <4>1. name = "getObject" => \E k \in DOMAIN objs : Opened(h, objs[k], Get(req.lines, "range"))
        BY <3>1, <3>7, <3>8, Zenon
      <4>2. h.did = {}
        BY <3>5, Zenon
      <4>. QED
        BY <3>6, <4>1, <4>2, Zenon DEF Begun
    <3>. QED
      BY <3>4, <3>10, Zenon
  <2>3. CASE ~There(to)
    <3>1. PICK failure : failure = IF headOnly THEN 200 ELSE 500
      BY Zenon
    <3>2. name # "getObject" \/ failure \in {404, 500}
      BY <1>9, <3>1, SMTT(20)
    <3>4. Begun(name, to, req, got, Answered(at, failure))
      BY <1>3, <3>2, Zenon
    <3>5. PICK none : none = 404
      BY Zenon
    <3>6. none \in {404, 500}
      BY <3>5, SMTT(20)
    <3>7. Begun(name, to, req, got, Answered(at, none))
      BY <1>3, <3>6, Zenon
    <3>3. Begun(name, to, req, got, Answered(at, failure)) /\ Begun(name, to, req, got, Answered(at, 404))
      BY <3>4, <3>5, <3>7, Zenon
    <3>. QED
      BY <2>3, <3>1, <3>3, Zenon DEF GetObject
  <2>. QED
    BY <2>2, <2>3, Zenon
<1>10. name = "deleteObject" => Begun(name, to, req, got, DeleteObject(to, at))
  <2>1. SUFFICES ASSUME name = "deleteObject" PROVE Begun(name, to, req, got, DeleteObject(to, at))
    BY Zenon
  <2>2. name # "getObject"
    BY <2>1, SMTT(20)
  <2>3. PICK r, did, h : /\ r = Answered(at, 204) /\ did = {<<k, None>> : k \in Unlinked(to.key) \cap DOMAIN objs}
                         /\ h = [r EXCEPT !.did = did]
    BY Zenon
  <2>4. DOMAIN r = Fields /\ r.pc = "answered"
    BY <1>2, <2>3, SMTT(20) DEF Answered, Fields
  <2>5. h.pc # "body" /\ h.did = did
    BY <2>3, <2>4, SMTT(20) DEF Fields
  <2>9. ASSUME NEW d \in did PROVE d[1] \in Unlinked(to.key) /\ d[2] = None
    <3>1. PICK k \in Unlinked(to.key) : d = <<k, None>>
      BY <2>3, Zenon
    <3>2. d[1] = k /\ d[2] = None
      BY <3>1, SMTT(20)
    <3>. QED
      BY <3>2, Zenon
  <2>6. Begun(name, to, req, got, h)
    BY <2>1, <2>2, <2>5, <2>9, AnswerBegins, Zenon
  <2>7. CASE There(to)
    BY <2>3, <2>6, <2>7, Zenon DEF DeleteObject
  <2>8. CASE ~There(to)
    <3>1. PICK status : status = IF Here(to) THEN (IF Opens(to) THEN 500 ELSE 204) ELSE 404
      OBVIOUS
    <3>2. DeleteObject(to, at) = Answered(at, status)
      BY <2>8, <3>1, Zenon DEF DeleteObject
    <3>. QED
      BY <1>3, <2>2, <3>2, Zenon
  <2>. QED
    BY <2>7, <2>8, Zenon
<1>11. name = "listObjects" => Begun(name, to, req, got, ListObjects(to, at))
  <2>1. SUFFICES ASSUME name = "listObjects" PROVE Begun(name, to, req, got, ListObjects(to, at))
    BY Zenon
  <2>2. name # "getObject"
    BY <2>1, SMTT(20)
  <2>3. PICK h : h = [at EXCEPT !.pc = "walk", !.todo = Listable(DOMAIN objs), !.got = <<>>]
    BY Zenon
  <2>4. h.pc # "body" /\ h.did = {}
    BY <1>2, <2>3, SMTT(20) DEF Fields
  <2>5. Begun(name, to, req, got, h)
    BY <2>2, <2>4, AnswerBegins, Zenon
  <2>6. PICK none : none = 404
    BY Zenon
  <2>7. Begun(name, to, req, got, Answered(at, none))
    BY <1>3, <2>2, Zenon
  <2>. QED
    BY <2>3, <2>5, <2>6, <2>7, Zenon DEF ListObjects
<1>12. PICK headOnly : headOnly = (name = "headObject")
  BY Zenon
<1>13. name = "getObject" => headOnly = FALSE
  <2>1. "getObject" # "headObject"
    BY SMTT(20)
  <2>2. name = "getObject" => ~(name = "headObject")
    BY <2>1, Zenon
  <2>3. ~(name = "headObject") => (name = "headObject") = FALSE
    OBVIOUS
  <2>. QED
    BY <1>12, <2>2, <2>3, Zenon
<1>14. Begun(name, to, req, got, GetObject(to, req, at, headOnly))
  BY <1>9, <1>13, Zenon
<1>15. Begun(name, to, req, got, Handler(name, to, req, in))
  <2>1. name \in {"getObject", "headObject"} <=> name = "getObject" \/ name = "headObject"
    BY SMTT(20)
  <2>2. PICK others, h :
           /\ others = (IF name \in DOMAIN Refusals THEN Answered(at, Refusals[name]) ELSE Answered(at, 200))
           /\ h = Handler(name, to, req, in)
    BY Zenon
  <2>3. h = CASE name = "putObject" -> PutObject(to, req, at)
              [] name = "deleteObjects" -> DeleteObjects(req, at)
              [] name \in {"getObject", "headObject"} -> GetObject(to, req, at, headOnly)
              [] name = "deleteObject" -> DeleteObject(to, at)
              [] name = "listObjects" -> ListObjects(to, at)
              [] name \in DOMAIN Refusals -> Answered(at, Refusals[name])
              [] OTHER -> Answered(at, 200)
    BY <1>1, <1>12, <2>2, Zenon DEF Handler
  <2>4. PICK p, d, g, e, l, r : /\ p = PutObject(to, req, at) /\ d = DeleteObjects(req, at)
                                /\ g = GetObject(to, req, at, headOnly) /\ e = DeleteObject(to, at)
                                /\ l = ListObjects(to, at) /\ r = Refusals
    BY Zenon
  <2>5. /\ name = "putObject" => h = p
        /\ name = "deleteObjects" => h = d
        /\ name \in {"getObject", "headObject"} => h = g
        /\ name = "deleteObject" => h = e
        /\ name = "listObjects" => h = l
        /\ name \notin {"putObject", "deleteObjects", "getObject", "headObject", "deleteObject", "listObjects"} =>
              h = others
    <3>2. DOMAIN r = {"400", "405", "501"}
      BY <2>4, Zenon DEF Refusals
    <3>. QED
      BY <2>2, <2>3, <2>4, <3>2, SMTT(20)
  <2>6. name \notin {"getObject"} => Begun(name, to, req, got, others)
    <3>1. PICK two : two = 200
      BY Zenon
    <3>2. name # "getObject" => /\ Begun(name, to, req, got, Answered(at, Refusals[name]))
                               /\ Begun(name, to, req, got, Answered(at, two))
      BY <1>3, Zenon
    <3>. QED
      BY <2>2, <3>1, <3>2, Zenon
  <2>7. CASE name \notin {"putObject", "deleteObjects", "getObject", "headObject", "deleteObject", "listObjects"}
    <3>1. name \notin {"getObject"}
      BY <2>7, Zenon
    <3>. QED
      BY <2>2, <2>5, <2>6, <2>7, <3>1, Zenon
  <2>8. CASE name \in {"putObject", "deleteObjects", "getObject", "headObject", "deleteObject", "listObjects"}
    BY <1>7, <1>8, <1>10, <1>11, <1>14, <2>1, <2>2, <2>4, <2>5, <2>8, Zenon
  <2>. QED
    BY <2>7, <2>8, Zenon
<1>. QED
  BY <1>1, <1>15, Zenon

\* An object of the bucket, opened at a range, is sent from its start.
LEMMA OpenedSlice ==
  ASSUME NEW x, NEW file \in Seq(Block), Len(file) < Word, NEW range, Ranged(range), Opened(x, file, range)
  PROVE  Slice(x, range)
<1>1. PICK span, n : span = Span(range, Len(file)) /\ n = Len(file)
  BY Zenon
<1>2. n \in Nat /\ n < Word
  BY <1>1, LenProperties, Zenon
<1>3. span.length \in Nat
  BY <1>1, <1>2, SpanIs, SMTT(20)
<1>4. /\ x.file = file /\ x.status = span.status /\ x.start = span.start /\ x.size = span.length
      /\ x.remaining = span.length /\ x.sent = <<>> /\ (x.pc = "answered" => x.status = 416)
  BY <1>1, Zenon DEF Opened
<1>5. x.remaining \in Nat /\ x.sent \in Seq(Block) /\ Len(x.sent) = 0 /\ DOMAIN x.sent = {}
  BY <1>3, <1>4, SMTT(20)
<1>6. Len(x.sent) + x.remaining = x.size
  BY <1>3, <1>4, <1>5, SMTT(20)
<1>7. \A i \in DOMAIN x.sent : x.start + i <= Len(x.file) /\ x.sent[i] = x.file[x.start + i]
  BY <1>5, Zenon
<1>. QED
  BY <1>1, <1>4, <1>5, <1>6, <1>7, Zenon DEF Slice

\* A request the server refuses has changed nothing.
LEMMA RefusedHolds ==
  ASSUME ServerInv, BodyInv, conn.pc = "sent", UNCHANGED env, NEW verdict, conn' = Answered(conn, verdict)
  PROVE  Embodied(conn', env)
<1>1. DOMAIN conn = Fields /\ Undecided(conn) /\ Unserved(conn) /\ Changed(conn, env)
  <2>1. "sent" \in {"signed", "sent"}
    BY SMTT(20)
  <2>. QED
    BY <2>1, Zenon DEF ServerInv, ConnInv, BodyInv, Embodied
<1>2. Served(conn, conn') /\ conn'.pc = "answered"
  BY <1>1, AnsweredIs, Zenon
<1>3. conn'.did = conn.did
  BY <1>1, SMTT(20) DEF Answered, Fields
<1>4. conn'.handler = "none" /\ conn'.accepted = FALSE /\ conn'.c = conn.c /\ conn'.cut = conn.cut
  BY <1>1, <1>2, Zenon DEF Served, Kept, Unserved, Undecided
<1>5. conn'.handler # "getObject" /\ conn'.pc \in Serving /\ conn'.pc \notin {"signed", "sent"}
      /\ conn'.pc # "signed" /\ conn'.pc # "sent"
  BY <1>2, <1>4, SMTT(20) DEF Serving
<1>6. InBody(conn') /\ Sliced(conn')
  BY <1>2, <1>5, AnsweredWell, Zenon
<1>7. Meant(conn', env)
  BY <1>4, Zenon DEF Meant
<1>8. Changed(conn', env)
  BY <1>1, <1>3, <1>4, ChangedStays, Zenon
<1>. QED
  BY <1>5, <1>6, <1>7, <1>8, Zenon DEF Embodied

\* Where a request is served that came whole or has its signature.
LEMMA ServedAsMeant ==
  ASSUME ServerInv, BodyInv, conn.pc = "sent", conn.cut = "no" \/ ~env.anonymous, NEW now,
         Authenticate(conn.req, now, env.anonymous) = 200
  PROVE  /\ Addressing(Get(conn.req.lines, "host"), Decode(conn.req.path))
               = [bucket |-> conn.c.bucket, key |-> conn.c.key]
         /\ Route(conn.req, [bucket |-> conn.c.bucket, key |-> conn.c.key]) = conn.c.op
<1>1. conn.pc # "idle"
  BY SMTT(20)
<1>2. Sendable(conn.c) /\ Carried(conn, env, Now(clock)) /\ Arrived(conn)
  BY <1>1, ClientIs, Zenon DEF ServerInv, ConnInv, BodyInv, Embodied
<1>3. PICK c, req, when, ask : c = conn.c /\ req = conn.req /\ when = conn.when /\ ask = conn.req.ask
  OBVIOUS
<1>4. CASE conn.cut = "no"
  <2>1. req = Request(c, ask, when)
    BY <1>2, <1>3, <1>4, Zenon DEF Carried
  <2>2. /\ Addressing(Get(req.lines, "host"), Decode(req.path)) = [bucket |-> c.bucket, key |-> c.key]
        /\ Route(req, [bucket |-> c.bucket, key |-> c.key]) = c.op
    BY <1>2, <1>3, <2>1, Routed, SMTT(20)
  <2>. QED
    BY <1>3, <2>2, Zenon
<1>5. CASE conn.cut # "no"
  <2>1. Headed(req.lines, c) /\ Broken(req, c, when)
    BY <1>2, <1>3, <1>5, Zenon DEF Arrived
  <2>2. ~env.anonymous /\ Authenticate(req, now, env.anonymous) = 200
    BY <1>3, <1>5, Zenon
  <2>3. /\ Addressing(Get(req.lines, "host"), Decode(req.path)) = [bucket |-> c.bucket, key |-> c.key]
        /\ Route(req, [bucket |-> c.bucket, key |-> c.key]) = c.op
    BY <1>2, <1>3, <2>1, <2>2, BrokenRouted, SMTT(20)
  <2>. QED
    BY <1>3, <2>3, Zenon
<1>. QED
  BY <1>4, <1>5, Zenon

\* A reader that is set up is one for what arrived.
LEMMA BeginsBody ==
  ASSUME NEW x, Sendable(x.c), Faulty(x.c, env.anonymous), Arrived(x),
         NEW ask, x.cut = "no" => x.req = Request(x.c, ask, x.when),
         NEW y, y.pc \in {"answered", "body", "send", "walk"}, y.accepted, y.c = x.c, y.cut = x.cut,
         NEW name, y.handler = name, NEW to, Begun(name, to, x.req, x.got, y)
  PROVE  InBody(y)
<1>1. y.pc # "read"
  BY SMTT(20)
<1>2. SUFFICES ASSUME y.pc = "body"
               PROVE  Reads(y.rd, y.got, y.c) /\ (Putting(y) => Puts(y.rd, y.got, y.c, y.cut))
  BY <1>1, Zenon DEF InBody
<1>3. PICK c, req, got, when, cut : c = x.c /\ req = x.req /\ got = x.got /\ when = x.when /\ cut = x.cut
  BY Zenon
<1>4. PICK p, b : p = PutReader(req, got) /\ b = BodyReader(req, got)
  BY Zenon
<1>5. y.got = <<>> /\ (y.rd = p \/ y.rd = b) /\ (Putting(y) => y.rd = p)
  BY <1>2, <1>3, <1>4, Zenon DEF Begun, Putting
<1>6. Headed(req.lines, c)
  BY <1>3, Zenon DEF Arrived
<1>7. Reads(p, <<>>, c) /\ Puts(p, <<>>, c, cut) /\ Reads(b, <<>>, c)
  <2>1. CASE cut = "no"
    <3>1. req = Request(c, ask, when) /\ got \in Delivered(c)
      BY <1>3, <2>1, Zenon DEF Arrived
    <3>2. Sendable(c) /\ Faulty(c, env.anonymous)
      BY <1>3, Zenon
    <3>3. /\ Reads(PutReader(req, got), <<>>, c) /\ Puts(PutReader(req, got), <<>>, c, "no")
          /\ Reads(BodyReader(req, got), <<>>, c)
      BY <3>1, <3>2, ReadersOfBody, Zenon
    <3>. QED
      BY <1>4, <2>1, <3>3, Zenon
  <2>2. CASE cut # "no"
    <3>1. got = <<>>
      BY <1>3, <2>2, Zenon DEF Arrived
    <3>2. p = PutReader(req, <<>>) /\ b = BodyReader(req, <<>>)
      BY <1>4, <3>1, Zenon
    <3>3. Reads(p, <<>>, c) /\ Puts(p, <<>>, c, cut)
      BY <1>3, <1>6, <2>2, <3>2, ReadersOfNothing, Zenon
    <3>4. Reads(b, <<>>, c)
      BY <1>3, <1>6, <2>2, <3>2, ReadersOfNothing, Zenon
    <3>. QED
      BY <3>3, <3>4, Zenon
  <2>. QED
    BY <2>1, <2>2, Zenon
<1>. QED
  BY <1>3, <1>5, <1>7, Zenon

\* A request the server accepts is begun as its client meant it, if it came whole or
\* has its signature, and on the body that arrived.
LEMMA AcceptHolds == ServerInv /\ BodyInv /\ Accept => BodyInv'
<1>. SUFFICES ASSUME ServerInv, BodyInv, Accept PROVE BodyInv'
  BY Zenon
<1>1. /\ env' = env /\ conn.pc = "sent" /\ DOMAIN conn = Fields /\ Stored /\ Embodied(conn, env)
      /\ conn.pc # "idle"
  <2>1. "sent" # "idle"
    BY SMTT(20)
  <2>. QED
    BY <2>1, Zenon DEF Accept, ServerInv, ConnInv, BodyInv
<1>2. /\ Carried(conn, env, Now(clock)) /\ Arrived(conn) /\ Unserved(conn)
      /\ Sendable(conn.c) /\ Faulty(conn.c, env.anonymous)
  <2>1. "sent" \in {"signed", "sent"}
    BY SMTT(20)
  <2>. QED
    BY <1>1, <2>1, ClientIs, Zenon DEF ServerInv, ConnInv, Embodied
<1>3. PICK verdict, to, name, in :
         /\ verdict = Authenticate(conn.req, Now(clock), env.anonymous)
         /\ to = Addressing(Get(conn.req.lines, "host"), Decode(conn.req.path))
         /\ name = Route(conn.req, to)
         /\ in = [conn EXCEPT !.accepted = TRUE]
  BY Zenon
<1>4. \/ verdict = 200 /\ conn' = Handler(name, to, conn.req, in) /\ objs' = Without({d[1] : d \in conn'.did})
      \/ verdict # 200 /\ conn' = Answered(conn, verdict) /\ objs' = objs
  BY <1>3, Zenon DEF Accept, Now
<1>5. CASE verdict # 200 /\ conn' = Answered(conn, verdict) /\ objs' = objs
  <2>1. Embodied(conn', env)
    BY <1>1, <1>5, RefusedHolds, Zenon
  <2>. QED
    BY <1>1, <1>5, <2>1, SameObjects, Zenon
<1>6. CASE verdict = 200 /\ conn' = Handler(name, to, conn.req, in) /\ objs' = Without({d[1] : d \in conn'.did})
  <2>1. /\ DOMAIN in = Fields /\ in.accepted = TRUE /\ in.did = {} /\ in.sent = <<>> /\ in.got = conn.got
        /\ in.c = conn.c /\ in.cut = conn.cut /\ in.req = conn.req /\ in.when = conn.when
    BY <1>1, <1>2, <1>3, SMTT(20) DEF Fields, Unserved
  <2>2. /\ Kept(in, conn') /\ conn'.handler = name /\ conn'.to = to
        /\ conn'.pc \in {"answered", "body", "send"} \/ (conn'.pc = "walk" /\ name = "listObjects")
    BY <1>6, <2>1, HandlerServes, SMTT(20)
  <2>3. /\ conn'.c = conn.c /\ conn'.cut = conn.cut /\ conn'.req = conn.req /\ conn'.when = conn.when
        /\ conn'.accepted = TRUE
    BY <2>1, <2>2, Zenon DEF Kept
  <2>4. Begun(name, to, conn.req, conn.got, conn')
    <3>1. PICK req : req = conn.req
      BY Zenon
    <3>2. Begun(name, to, req, in.got, Handler(name, to, req, in))
      BY <2>1, HandlerBegins, Zenon
    <3>. QED
      BY <1>6, <2>1, <3>1, <3>2, Zenon
  <2>5. conn'.pc \in {"answered", "body", "send", "walk"} /\ conn'.pc \in Serving
        /\ conn'.pc # "signed" /\ conn'.pc # "sent" /\ conn'.pc \notin {"signed", "sent"}
    BY <2>2, SMTT(20) DEF Serving
  <2>6. conn.cut = "no" \/ ~env.anonymous => to = [bucket |-> conn.c.bucket, key |-> conn.c.key] /\ name = conn.c.op
    <3>1. SUFFICES ASSUME conn.cut = "no" \/ ~env.anonymous
                   PROVE  to = [bucket |-> conn.c.bucket, key |-> conn.c.key] /\ name = conn.c.op
      BY Zenon
    <3>2. Authenticate(conn.req, Now(clock), env.anonymous) = 200
      BY <1>3, <1>6, Zenon
    <3>3. /\ Addressing(Get(conn.req.lines, "host"), Decode(conn.req.path))
                = [bucket |-> conn.c.bucket, key |-> conn.c.key]
          /\ Route(conn.req, [bucket |-> conn.c.bucket, key |-> conn.c.key]) = conn.c.op
      BY <1>1, <3>1, <3>2, ServedAsMeant, Zenon
    <3>. QED
      BY <1>3, <3>3, Zenon
  <2>7. Meant(conn', env)
    BY <2>2, <2>3, <2>6, Zenon DEF Meant
  <2>8. InBody(conn')
    <3>1. PICK x, y, ask : x = conn /\ y = conn' /\ ask = conn.req.ask
      BY Zenon
    <3>2. x.cut = "no" => x.req = Request(x.c, ask, x.when)
      BY <1>2, <3>1, Zenon DEF Carried
    <3>3. Sendable(x.c) /\ Faulty(x.c, env.anonymous) /\ Arrived(x)
      BY <1>2, <3>1, Zenon
    <3>4. /\ y.pc \in {"answered", "body", "send", "walk"} /\ y.accepted /\ y.c = x.c /\ y.cut = x.cut
          /\ y.handler = name /\ Begun(name, to, x.req, x.got, y)
      BY <2>2, <2>3, <2>4, <2>5, <3>1, Zenon
    <3>5. InBody(y)
      BY <3>2, <3>3, <3>4, BeginsBody, SMTT(20)
    <3>. QED
      BY <3>1, <3>5, Zenon
  <2>9. Sliced(conn')
    <3>1. SUFFICES ASSUME conn.cut = "no", name = "getObject", conn'.status \notin {404, 500}
                   PROVE  Slice(conn', conn.c.range)
      BY <2>2, <2>3, SMTT(20) DEF Sliced
    <3>2. PICK k \in DOMAIN objs : Opened(conn', objs[k], Get(conn.req.lines, "range"))
      BY <2>4, <3>1, Zenon DEF Begun
    <3>3. PICK c, ask, when, range, file, x, req :
             /\ c = conn.c /\ ask = conn.req.ask /\ when = conn.when /\ range = conn.c.range /\ file = objs[k]
             /\ x = conn' /\ req = conn.req
      BY Zenon
    <3>4. Get(req.lines, "range") = range
      <4>1. req = Request(c, ask, when)
        BY <1>2, <3>1, <3>3, Zenon DEF Carried
      <4>2. PICK n : n = "range"
        BY Zenon
      <4>3. n \notin {"authorization", "content-length"}
        BY <4>2, SMTT(20)
      <4>4. Same(req.lines, HeadLines(c), n)
        BY <4>1, <4>3, RequestLines, Zenon
      <4>5. Get(HeadLines(c), n) = c.range
        BY <4>2, HeadLinesAre, Zenon
      <4>. QED
        BY <3>3, <4>2, <4>4, <4>5, Zenon DEF Same
    <3>5. Ranged(range)
      BY <1>2, <3>3, ClientsRange, Zenon
    <3>6. file \in Seq(Block) /\ Len(file) < Word
      BY <1>1, <3>3, Zenon DEF Stored
    <3>7. Opened(x, file, range)
      BY <3>2, <3>3, <3>4, Zenon
    <3>8. Slice(x, range)
      BY <3>5, <3>6, <3>7, OpenedSlice, Zenon
    <3>. QED
      BY <3>3, <3>8, Zenon
  <2>10. Changed(conn', env)
    <3>1. SUFFICES ASSUME NEW d \in conn'.did PROVE Right(d, conn.c, conn.cut, env)
      BY <2>3, Zenon DEF Changed
    <3>3. name = "deleteObject" /\ d[1] \in Unlinked(to.key) /\ d[2] = None
      BY <2>4, Zenon DEF Begun
    <3>4. \/ conn.c.op = "deleteObject" /\ d[1] \in Unlinked(conn.c.key)
          \/ conn.cut # "no" /\ env.anonymous
      <4>1. SUFFICES ASSUME conn.cut = "no" \/ ~env.anonymous PROVE to.key = conn.c.key /\ name = conn.c.op
        BY <3>3, Zenon
      <4>2. to = [bucket |-> conn.c.bucket, key |-> conn.c.key] /\ name = conn.c.op
        BY <2>6, <4>1, Zenon
      <4>. QED
        BY <4>2, SMTT(20)
    <3>. QED
      BY <3>3, <3>4, Zenon DEF Right
  <2>11. Embodied(conn', env)
    BY <2>5, <2>7, <2>8, <2>9, <2>10, Zenon DEF Embodied
  <2>12. Stored'
    <3>1. PICK keys : keys = {d[1] : d \in conn'.did}
      BY Zenon
    <3>. QED
      BY <1>1, <1>6, <3>1, StoredWithout, Zenon
  <2>. QED
    BY <1>1, <2>11, <2>12, Zenon DEF BodyInv
<1>. QED
  BY <1>4, <1>5, <1>6, Zenon

\* It is inductive, together with what ServerProofs shows.
THEOREM BodyInvariant == Spec => []BodyInv
<1>1. Init => BodyInv
  BY InitHolds
<1>2. ServerInv /\ BodyInv /\ [Next]_vars => BodyInv'
  <2>. SUFFICES ASSUME ServerInv, BodyInv, [Next]_vars PROVE BodyInv'
    BY Zenon
  <2>1. CASE Serve
    BY <2>1, AcceptHolds, ReadHolds, CommitHolds, DeleteHolds, SendBlockHolds, WalkHolds, Zenon DEF Serve
  <2>2. CASE SignRequest \/ Send \/ Receive \/ Hangup \/ Change \/ Tick
    BY <2>2, SignHolds, SendHolds, ReceiveHolds, HangupHolds, ChangeHolds, TickHolds, Zenon
  <2>3. CASE UNCHANGED vars
    <3>1. UNCHANGED <<env, objs>> /\ conn' = conn
      BY <2>3, Zenon DEF vars
    <3>2. Embodied(conn', env)
      BY <3>1, Zenon DEF BodyInv
    <3>. QED
      BY <3>1, <3>2, SameObjects, Zenon
  <2>. QED
    BY <2>1, <2>2, <2>3, Zenon DEF Next
<1>. QED
  BY <1>1, <1>2, ServerInvariant, PTL DEF Spec

----------------------------------------------------------------------------
(* What follows from it.                                                   *)

\* Objects change only as clients ask, on a server that authenticates.
THEOREM OnlyWhatIsAsked == Spec => []ChangesAreAsked
<1>1. BodyInv => ChangesAreAsked
  <2>1. SUFFICES ASSUME BodyInv, NEW d \in conn.did
                 PROVE  \/ conn.c.op = "putObject" /\ d[2] # None /\ d[1] = conn.c.key
                        \/ conn.c.op = "deleteObject" /\ d[2] = None /\ d[1] \in Unlinked(conn.c.key)
                        \/ /\ conn.c.op = "deleteObjects" /\ d[2] = None
                           /\ \E x \in ToSet(Body(conn.c)) : d[1] \in Unlinked(x.key)
                        \/ ~Whole /\ env.anonymous
    BY Zenon DEF ChangesAreAsked
  <2>2. Right(d, conn.c, conn.cut, env)
    BY <2>1, Zenon DEF BodyInv, Embodied, Changed
  <2>. QED
    BY <2>2, Zenon DEF Right, Stuff, Whole
<1>. QED
  BY <1>1, BodyInvariant, PTL

\* What is committed is what was sent, or the beginning of it.
THEOREM OnlyWhatIsSent == Spec => []CommittedIsSent
<1>1. BodyInv => CommittedIsSent
  BY Zenon DEF BodyInv, Embodied, Changed, Right, Ended, CommittedIsSent
<1>. QED
  BY <1>1, BodyInvariant, PTL

\* A body sent in chunks is committed whole or not at all.
THEOREM ChunksComeWhole == Spec => []ChunkedIsWhole
<1>1. BodyInv => ChunkedIsWhole
  BY Zenon DEF BodyInv, Embodied, Changed, Right, Ended, ChunkedIsWhole, Whole, Unseen
<1>. QED
  BY <1>1, BodyInvariant, PTL

\* The part of an object a range asks for.
From(range) == IF range = None THEN 1 ELSE range.from + 1
To(range, n) == IF range = None \/ range.to = None THEN n - 1 ELSE Min2(range.to, n - 1)
Part(file, range) == SubSeq(file, From(range), To(range, Len(file)) + 1)

\* It is what an answer has sent when it ends.
LEMMA SliceIsPart ==
  ASSUME NEW x, NEW range, Ranged(range), Slice(x, range), x.pc = "answered", range # None => x.file # <<>>
  PROVE  /\ x.status = IF range = None THEN 200 ELSE IF Part(x.file, range) = <<>> THEN 416 ELSE 206
         /\ x.status # 416 => x.sent = Part(x.file, range) /\ x.size = Len(Part(x.file, range))
<1>0. PICK from, to, part : /\ from = From(range) /\ to = To(range, Len(x.file))
                            /\ part = SubSeq(x.file, from, to + 1)
  BY Zenon
<1>1. PICK n, span, file, sent, start, size : /\ n = Len(x.file) /\ span = Span(range, n) /\ file = x.file
                                /\ sent = x.sent /\ start = x.start /\ size = x.size
  BY Zenon
<1>2. /\ file \in Seq(Block) /\ n = Len(file) /\ n < Word
      /\ x.status = span.status /\ start = span.start /\ size = span.length
  BY <1>1, Zenon DEF Slice
<1>3. n \in Nat /\ DOMAIN file = 1..n /\ (\A i \in 1..n : file[i] \in Block) /\ (file # <<>> => n # 0)
  BY <1>2, LenProperties, EmptySeq, SMTT(20)
<1>4. /\ span.start \in Nat /\ span.length \in Nat
      /\ range = None => span.status = 200 /\ span.start = 0 /\ span.length = n
      /\ range # None /\ n # 0 => Within(span, range, LastBlock(range, n))
  BY <1>1, <1>2, <1>3, SpanIs, SMTT(20)
<1>5. to \in Int /\ to < n /\ (range # None => to = LastBlock(range, n) /\ n # 0) /\ (range = None => to = n - 1)
  <2>1. CASE range = None
    BY <1>0, <1>1, <1>3, <2>1, SMTT(20) DEF To
  <2>2. CASE range # None
    <3>1. range.to = None \/ range.to \in Nat
      BY <2>2, Zenon DEF Ranged
    <3>2. to = LastBlock(range, n)
      BY <1>0, <1>1, <2>2, Zenon DEF LastBlock, To
    <3>. QED
      BY <1>1, <1>3, <2>2, <3>1, <3>2, SMTT(20) DEF LastBlock, Min2
  <2>. QED
    BY <2>1, <2>2, Zenon
<1>6. from \in Nat /\ from >= 1 /\ from = span.start + 1
  <2>1. range # None => range.from \in Nat /\ range.from = span.start
    BY <1>4, <1>5, Zenon DEF Ranged, Within
  <2>. QED
    BY <1>0, <1>4, <2>1, SMTT(20) DEF From
<1>7. /\ part \in Seq(Block) /\ Len(part) = IF from <= to + 1 THEN to - from + 2 ELSE 0
      /\ \A i \in 1..(to - from + 2) : part[i] = file[start + i]
  <2>1. PICK stop, count : stop = to + 1 /\ count = to - from + 2
    BY Zenon
  <2>2. /\ from \in Int /\ stop \in Int /\ (\A i \in from..stop : file[i] \in Block)
        /\ stop - from + 1 = count /\ (from <= stop <=> from <= to + 1)
    BY <1>3, <1>5, <1>6, <2>1, SMTT(20)
  <2>3. PICK p : p = SubSeq(file, from, stop)
    BY Zenon
  <2>4. /\ p \in Seq(Block) /\ Len(p) = IF from <= stop THEN stop - from + 1 ELSE 0
        /\ \A i \in 1..(stop - from + 1) : p[i] = file[from + i - 1]
    <3>1. /\ SubSeq(file, from, stop) \in Seq(Block)
          /\ Len(SubSeq(file, from, stop)) = IF from <= stop THEN stop - from + 1 ELSE 0
          /\ \A i \in 1..(stop - from + 1) : SubSeq(file, from, stop)[i] = file[from + i - 1]
      BY <2>2, SubSeqProperties, SMTT(20)
    <3>. QED
      BY <2>3, <3>1, Zenon
  <2>5. from = start + 1 /\ start \in Nat
    BY <1>2, <1>4, <1>6, Zenon
  <2>6. \A i \in 1..(stop - from + 1) : from + i - 1 = start + i
    BY <2>2, <2>5, SMTT(20)
  <2>7. \A i \in 1..count : p[i] = file[start + i]
    BY <2>2, <2>4, <2>6, Zenon
  <2>8. Len(p) = IF from <= to + 1 THEN count ELSE 0
    BY <2>2, <2>4, Zenon
  <2>. QED
    BY <1>0, <1>1, <2>1, <2>3, <2>4, <2>7, <2>8, Zenon
<1>8. /\ from <= to + 1 => x.status = IF range = None THEN 200 ELSE 206
      /\ from <= to + 1 => size = to - from + 2
      /\ ~(from <= to + 1) => IF range = None THEN x.status = 200 /\ size = 0 ELSE x.status = 416
  <2>1. CASE range = None
    BY <1>2, <1>3, <1>4, <1>5, <1>6, <2>1, SMTT(20)
  <2>2. CASE range # None
    <3>1. PICK end, first : end = LastBlock(range, n) /\ first = range.from
      BY Zenon
    <3>2. /\ span.start = first /\ span.status = IF first > end THEN 416 ELSE 206
          /\ first <= end => span.length = end - first + 1
      BY <1>4, <1>5, <2>2, <3>1, Zenon DEF Within
    <3>3. end = to
      BY <1>5, <2>2, <3>1, Zenon
    <3>. QED
      BY <1>2, <1>4, <1>5, <1>6, <2>2, <3>2, <3>3, SMTT(20)
  <2>. QED
    BY <2>1, <2>2, Zenon
<1>9. part = <<>> <=> ~(from <= to + 1)
  <2>1. part = <<>> <=> Len(part) = 0
    BY <1>7, EmptySeq, Zenon
  <2>2. PICK l : l = Len(part)
    BY Zenon
  <2>3. l = IF from <= to + 1 THEN to - from + 2 ELSE 0
    BY <1>7, <2>2, Zenon
  <2>4. l = 0 <=> ~(from <= to + 1)
    BY <1>5, <1>6, <2>3, SMTT(20)
  <2>. QED
    BY <2>1, <2>2, <2>4, Zenon
<1>10. x.status = IF range = None THEN 200 ELSE IF part = <<>> THEN 416 ELSE 206
  BY <1>8, <1>9, SMTT(20)
<1>11. x.status # 416 => size = Len(part)
  BY <1>5, <1>6, <1>7, <1>8, SMTT(20)
<1>12. x.status # 416 => sent = part
  <2>1. SUFFICES ASSUME x.status # 416 PROVE sent = part
    BY Zenon
  <2>2. PICK remaining : remaining = x.remaining
    BY Zenon
  <2>3. /\ remaining \in Nat /\ sent \in Seq(Block) /\ Len(sent) + remaining = size
        /\ \A i \in DOMAIN sent : start + i <= n /\ sent[i] = file[start + i]
        /\ remaining = 0 \/ start + Len(sent) >= n
    BY <1>1, <2>1, <2>2, Zenon DEF Slice
  <2>4. Len(sent) \in Nat /\ DOMAIN sent = 1..Len(sent)
    BY <2>3, LenProperties, Zenon
  <2>5. size \in Nat /\ start \in Nat /\ start + size <= n
    <3>1. PICK b : b = span.start
      BY Zenon
    <3>2. b \in Nat /\ start = b /\ from = b + 1
      BY <1>2, <1>4, <1>6, <3>1, Zenon
    <3>3. range = None => start = 0
      BY <1>2, <1>4, Zenon
    <3>4. (from <= to + 1 => size = to - from + 2) /\ (~(from <= to + 1) => range = None /\ size = 0)
      BY <1>8, <2>1, Zenon
    <3>. QED
      BY <1>3, <1>5, <3>2, <3>3, <3>4, SMTT(20)
  <2>6. Len(sent) = size
    <3>1. PICK l : l = Len(sent)
      BY Zenon
    <3>2. l \in Nat /\ l + remaining = size /\ (remaining = 0 \/ start + l >= n) /\ remaining \in Nat
      BY <2>3, <2>4, <3>1, Zenon
    <3>3. l = size
      BY <1>3, <2>5, <3>2, SMTT(20)
    <3>. QED
      BY <3>1, <3>3, Zenon
  <2>7. Len(sent) = Len(part)
    BY <1>11, <2>1, <2>6, Zenon
  <2>8. \A i \in 1..Len(sent) : sent[i] = part[i]
    <3>1. \A i \in 1..Len(sent) : sent[i] = file[start + i]
      BY <2>3, <2>4, Zenon
    <3>2. \A i \in 1..Len(sent) : i \in 1..(to - from + 2)
      BY <1>5, <1>6, <1>7, <2>4, <2>7, SMTT(20)
    <3>. QED
      BY <1>7, <3>1, <3>2, Zenon
  <2>. QED
    BY <1>7, <2>3, <2>7, <2>8, SeqEqual, Zenon
<1>. QED
  BY <1>0, <1>1, <1>10, <1>11, <1>12, Zenon DEF Part

\* An answer carries the part of the object that was asked for, and announces as much.
THEOREM AnswersAreSlices == Spec => []RangeIsSlice
<1>1. ServerInv /\ BodyInv => RangeIsSlice
  <2>. SUFFICES ASSUME ServerInv, BodyInv PROVE RangeIsSlice
    BY Zenon
  <2>1. ASSUME /\ conn.pc = "answered" /\ Whole /\ conn.handler = "getObject"
               /\ conn.status \notin {404, 500} /\ ~(conn.c.range # None /\ conn.file = <<>>)
        PROVE  LET range == conn.c.range  part == Part(conn.file, range) IN
               /\ conn.status = IF range = None THEN 200 ELSE IF part = <<>> THEN 416 ELSE 206
               /\ conn.status # 416 => conn.sent = part /\ conn.size = Len(part)
    <3>1. conn.pc # "idle" /\ conn.pc \in Serving /\ conn.pc \in {"send", "answered"}
      BY <2>1, SMTT(20) DEF Serving
    <3>2. PICK x, range : x = conn /\ range = conn.c.range
      BY Zenon
    <3>3. Ranged(range)
      BY <3>1, <3>2, ClientIs, ClientsRange, Zenon
    <3>4. Slice(x, range) /\ x.pc = "answered" /\ (range # None => x.file # <<>>)
      BY <2>1, <3>1, <3>2, Zenon DEF BodyInv, Embodied, Sliced, Whole
    <3>5. /\ x.status = IF range = None THEN 200 ELSE IF Part(x.file, range) = <<>> THEN 416 ELSE 206
          /\ x.status # 416 => x.sent = Part(x.file, range) /\ x.size = Len(Part(x.file, range))
      BY <3>3, <3>4, SliceIsPart, SMTT(20)
    <3>. QED
      BY <3>2, <3>5, Zenon
  <2>. QED
    BY <2>1, Zenon DEF RangeIsSlice, Part, From, To
<1>. QED
  BY <1>1, BodyInvariant, ServerInvariant, PTL

----------------------------------------------------------------------------
(* Listings.  The order of keys.                                           *)

\* Where two keys part: they agree before position i, at which the first has
\* ended or has the smaller character.
Divided(s, t, i) ==
    /\ i \in 1..Len(t) /\ i <= Len(s) + 1
    /\ \A j \in 1..(i - 1) : s[j] = t[j]
    /\ i = Len(s) + 1 \/ (i <= Len(s) /\ s[i] < t[i])

\* One key is a beginning of another if it agrees with it as far as it goes.
LEMMA PrefixIs ==
  ASSUME NEW s \in Seq(Nat), NEW t \in Seq(Nat)
  PROVE  IsPrefix(s, t) <=> Len(s) <= Len(t) /\ \A j \in 1..Len(s) : s[j] = t[j]
<1>1. Len(s) \in Nat /\ Len(t) \in Nat /\ SubSeq(s, 1, Len(s)) = s
  BY SMTT(20)
<1>2. ASSUME Len(s) <= Len(t)
      PROVE  s = SubSeq(t, 1, Len(s)) <=> \A j \in 1..Len(s) : s[j] = t[j]
  <2>1. PICK u : u = SubSeq(t, 1, Len(s))
    BY Zenon
  <2>2. u \in Seq(Nat) /\ Len(u) = Len(s) /\ \A j \in 1..Len(s) : u[j] = t[j]
    BY <1>1, <1>2, <2>1, SMTT(20)
  <2>3. (\A j \in 1..Len(s) : s[j] = u[j]) => s = u
    BY <2>2, SeqEqual, Zenon
  <2>4. s = u <=> \A j \in 1..Len(s) : s[j] = t[j]
    BY <2>2, <2>3, Zenon
  <2>. QED
    BY <2>1, <2>4, Zenon
<1>. QED
  BY <1>1, <1>2, SMTT(20) DEF IsPrefix

\* The order of keys, by where they part.
LEMMA BeforeIs ==
  ASSUME NEW s \in Seq(Nat), NEW t \in Seq(Nat)
  PROVE  Before(s, t) <=> \E i \in Nat : Divided(s, t, i)
<1>1. Len(s) \in Nat /\ Len(t) \in Nat
  BY SMTT(20)
<1>2. ASSUME NEW i \in 1..Len(s), i <= Len(t)
      PROVE  SubSeq(s, 1, i - 1) = SubSeq(t, 1, i - 1) <=> \A j \in 1..(i - 1) : s[j] = t[j]
  <2>1. PICK u, v : u = SubSeq(s, 1, i - 1) /\ v = SubSeq(t, 1, i - 1)
    BY Zenon
  <2>2. /\ u \in Seq(Nat) /\ Len(u) = i - 1 /\ \A j \in 1..(i - 1) : u[j] = s[j]
        /\ v \in Seq(Nat) /\ Len(v) = i - 1 /\ \A j \in 1..(i - 1) : v[j] = t[j]
    <3>1. i - 1 \in Nat /\ i - 1 <= Len(s) /\ i - 1 <= Len(t)
      BY <1>1, <1>2, SMTT(20)
    <3>2. u \in Seq(Nat) /\ Len(u) = i - 1 /\ \A j \in 1..(i - 1) : u[j] = s[j]
      BY <2>1, <3>1, SMTT(20)
    <3>3. v \in Seq(Nat) /\ Len(v) = i - 1 /\ \A j \in 1..(i - 1) : v[j] = t[j]
      BY <2>1, <3>1, SMTT(20)
    <3>. QED
      BY <3>2, <3>3, Zenon
  <2>3. (\A j \in 1..(i - 1) : u[j] = v[j]) => u = v
    BY <2>2, SeqEqual, Zenon
  <2>4. u = v <=> \A j \in 1..(i - 1) : s[j] = t[j]
    BY <2>2, <2>3, Zenon
  <2>. QED
    BY <2>1, <2>4, Zenon
<1>3. IsStrictPrefix(s, t) <=> Divided(s, t, Len(s) + 1)
  <2>1. IsStrictPrefix(s, t) <=> /\ Len(s) <= Len(t) /\ \A j \in 1..Len(s) : s[j] = t[j]
                                 /\ s # t
    BY PrefixIs, SMTT(20) DEF IsStrictPrefix
  <2>2. ASSUME Len(s) = Len(t), \A j \in 1..Len(s) : s[j] = t[j]
        PROVE  s = t
    BY <2>2, SMTT(20)
  <2>. QED
    BY <1>1, <2>1, <2>2, SMTT(20) DEF Divided
<1>4. ASSUME Before(s, t) PROVE \E i \in Nat : Divided(s, t, i)
  <2>1. CASE IsStrictPrefix(s, t)
    BY <1>1, <1>3, <2>1, SMTT(20)
  <2>2. CASE ~IsStrictPrefix(s, t)
    <3>1. PICK i \in 1..Len(s) : i <= Len(t) /\ s[i] < t[i] /\ SubSeq(s, 1, i - 1) = SubSeq(t, 1, i - 1)
      BY <1>4, <2>2, Zenon DEF Before
    <3>2. \A j \in 1..(i - 1) : s[j] = t[j]
      BY <1>2, <3>1, Zenon
    <3>3. Divided(s, t, i) /\ i \in Nat
      BY <1>1, <3>1, <3>2, SMTT(20) DEF Divided
    <3>. QED
      BY <3>3, Zenon
  <2>. QED
    BY <2>1, <2>2
<1>5. ASSUME NEW i \in Nat, Divided(s, t, i) PROVE Before(s, t)
  <2>1. CASE i = Len(s) + 1
    BY <1>3, <1>5, <2>1, Zenon DEF Before
  <2>2. CASE i # Len(s) + 1
    <3>1. i \in 1..Len(s) /\ i <= Len(t) /\ s[i] < t[i] /\ \A j \in 1..(i - 1) : s[j] = t[j]
      BY <1>1, <1>5, <2>2, SMTT(20) DEF Divided
    <3>2. SubSeq(s, 1, i - 1) = SubSeq(t, 1, i - 1)
      BY <1>2, <3>1, Zenon
    <3>. QED
      BY <3>1, <3>2, Zenon DEF Before
  <2>. QED
    BY <2>1, <2>2
<1>. QED
  BY <1>4, <1>5, Zenon

\* No key comes before itself.
LEMMA BeforeIrreflexive == ASSUME NEW s \in Seq(Nat) PROVE ~Before(s, s)
<1>1. \A i \in Nat : ~Divided(s, s, i)
  BY SMTT(20) DEF Divided
<1>. QED
  BY <1>1, BeforeIs, Zenon

\* What comes before what comes before, does.
LEMMA BeforeTransitive ==
  ASSUME NEW s \in Seq(Nat), NEW t \in Seq(Nat), NEW u \in Seq(Nat), Before(s, t), Before(t, u)
  PROVE  Before(s, u)
<1>1. PICK i \in Nat, n \in Nat : Divided(s, t, i) /\ Divided(t, u, n)
  BY BeforeIs, Zenon
<1>2. PICK a, b, c, m : a = Len(s) /\ b = Len(t) /\ c = Len(u) /\ m = IF i < n THEN i ELSE n
  BY Zenon
<1>3. a \in Nat /\ b \in Nat /\ c \in Nat /\ m \in Nat /\ m <= i /\ m <= n
      /\ (\A j \in 1..a : s[j] \in Nat) /\ (\A j \in 1..b : t[j] \in Nat)
             /\ (\A j \in 1..c : u[j] \in Nat)
  BY <1>2, SMTT(20)
<1>4. /\ i \in 1..b /\ i <= a + 1 /\ (\A j \in 1..(i - 1) : s[j] = t[j])
             /\ (i = a + 1 \/ (i <= a /\ s[i] < t[i]))
      /\ n \in 1..c /\ n <= b + 1 /\ (\A j \in 1..(n - 1) : t[j] = u[j])
             /\ (n = b + 1 \/ (n <= b /\ t[n] < u[n]))
  BY <1>1, <1>2, Zenon DEF Divided
<1>5. \A j \in 1..(m - 1) : s[j] = u[j]
  <2>1. SUFFICES ASSUME NEW j \in 1..(m - 1) PROVE s[j] = u[j]
    BY Zenon
  <2>2. j \in 1..(i - 1) /\ j \in 1..(n - 1)
    BY <1>3, SMTT(20)
  <2>. QED
    BY <1>4, <2>2, Zenon
<1>6. m \in 1..c /\ m <= a + 1
  <2>1. 1 <= i /\ 1 <= n /\ n <= c /\ i <= a + 1
    BY <1>3, <1>4, SMTT(20)
  <2>. QED
    BY <1>2, <1>3, <2>1, SMTT(20)
<1>7. m = a + 1 \/ (m <= a /\ s[m] < u[m])
  <2>1. CASE i < n
    BY <1>2, <1>3, <1>4, <2>1, SMTT(20)
  <2>2. CASE i = n
    BY <1>2, <1>3, <1>4, <2>2, SMTT(20)
  <2>3. CASE n < i
    BY <1>2, <1>3, <1>4, <2>3, SMTT(20)
  <2>. QED
    BY <2>1, <2>2, <2>3, SMTT(20)
<1>8. Divided(s, u, m)
  BY <1>2, <1>5, <1>6, <1>7, Zenon DEF Divided
<1>. QED
  BY <1>3, <1>8, BeforeIs, Zenon

\* Of two keys one comes before the other.
LEMMA BeforeTotal ==
  ASSUME NEW s \in Seq(Nat), NEW t \in Seq(Nat), s # t
  PROVE  Before(s, t) \/ Before(t, s)
<1>1. PICK a, b : a = Len(s) /\ b = Len(t)
  BY Zenon
<1>2. a \in Nat /\ b \in Nat /\ (\A j \in 1..a : s[j] \in Nat) /\ (\A j \in 1..b : t[j] \in Nat)
  BY <1>1, SMTT(20)
<1>3. PICK D \in SUBSET Nat : D = {j \in Nat : 1 <= j /\ j <= a /\ j <= b /\ s[j] # t[j]}
  BY Zenon
<1>4. CASE D = {}
  <2>1. \A j \in Nat : 1 <= j /\ j <= a /\ j <= b => s[j] = t[j]
    BY <1>3, <1>4, Zenon
  <2>2. a # b
    <3>1. SUFFICES ASSUME a = b PROVE FALSE
      OBVIOUS
    <3>2. \A j \in 1..Len(s) : s[j] = t[j]
      BY <1>1, <1>2, <2>1, <3>1, SMTT(20)
    <3>3. Len(s) = Len(t)
      BY <1>1, <3>1
    <3>. QED
      BY <3>2, <3>3, SMTT(20)
  <2>3. CASE a < b
    <3>1. Divided(s, t, a + 1) /\ a + 1 \in Nat
      BY <1>1, <1>2, <2>1, <2>3, SMTT(20) DEF Divided
    <3>. QED
      BY <3>1, BeforeIs, Zenon
  <2>4. CASE b < a
    <3>1. Divided(t, s, b + 1) /\ b + 1 \in Nat
      BY <1>1, <1>2, <2>1, <2>4, SMTT(20) DEF Divided
    <3>. QED
      BY <3>1, BeforeIs, Zenon
  <2>. QED
    BY <1>2, <2>2, <2>3, <2>4, SMTT(20)
<1>5. CASE D # {}
  <2>1. PICK i \in D : \A k \in D : i <= k
    BY <1>3, <1>5, Least, Zenon
  <2>2. /\ i \in Nat /\ 1 <= i /\ i <= a /\ i <= b /\ s[i] # t[i]
        /\ \A j \in 1..(i - 1) : s[j] = t[j]
    BY <1>2, <1>3, <2>1, SMTT(20)
  <2>3. s[i] \in Nat /\ t[i] \in Nat
    BY <1>2, <2>2, SMTT(20)
  <2>4. Divided(s, t, i) \/ Divided(t, s, i)
    BY <1>1, <1>2, <2>2, <2>3, SMTT(20) DEF Divided
  <2>. QED
    BY <2>2, <2>4, BeforeIs, Zenon
<1>. QED
  BY <1>4, <1>5

\* What lies between two keys with a beginning in common has it too.
LEMMA BetweenShares ==
  ASSUME NEW s \in Seq(Nat), NEW t \in Seq(Nat), NEW u \in Seq(Nat), NEW p \in Seq(Nat),
         Before(s, t), Before(t, u), IsPrefix(p, s), IsPrefix(p, u)
  PROVE  IsPrefix(p, t)
<1>1. PICK i \in Nat, n \in Nat : Divided(s, t, i) /\ Divided(t, u, n)
  BY BeforeIs, Zenon
<1>2. PICK a, b, c, l : a = Len(s) /\ b = Len(t) /\ c = Len(u) /\ l = Len(p)
  BY Zenon
<1>3. a \in Nat /\ b \in Nat /\ c \in Nat /\ l \in Nat
      /\ (\A j \in 1..a : s[j] \in Nat) /\ (\A j \in 1..b : t[j] \in Nat)
             /\ (\A j \in 1..c : u[j] \in Nat)
  <2>1. a \in Nat /\ b \in Nat /\ c \in Nat /\ l \in Nat
    BY <1>2, SMTT(20)
  <2>2. \A j \in 1..a : s[j] \in Nat
    BY <1>2, SMTT(20)
  <2>3. \A j \in 1..b : t[j] \in Nat
    BY <1>2, SMTT(20)
  <2>4. \A j \in 1..c : u[j] \in Nat
    BY <1>2, SMTT(20)
  <2>. QED
    BY <2>1, <2>2, <2>3, <2>4, Zenon
<1>4. /\ i \in 1..b /\ i <= a + 1 /\ (\A j \in 1..(i - 1) : s[j] = t[j])
             /\ (i = a + 1 \/ (i <= a /\ s[i] < t[i]))
      /\ n \in 1..c /\ n <= b + 1 /\ (\A j \in 1..(n - 1) : t[j] = u[j])
             /\ (n = b + 1 \/ (n <= b /\ t[n] < u[n]))
  BY <1>1, <1>2, Zenon DEF Divided
<1>5. /\ l <= a /\ l <= c /\ (\A j \in 1..l : p[j] = s[j]) /\ (\A j \in 1..l : p[j] = u[j])
  BY <1>2, PrefixIs, Zenon
<1>6. l < i
  <2>1. SUFFICES ASSUME i <= l PROVE FALSE
    BY <1>3, SMTT(20)
  <2>2. i <= a /\ s[i] < t[i] /\ s[i] = u[i]
    BY <1>3, <1>4, <1>5, <2>1, SMTT(20)
  <2>3. CASE i < n
    BY <1>3, <1>4, <2>2, <2>3, SMTT(20)
  <2>4. CASE i = n
    BY <1>3, <1>4, <1>5, <2>1, <2>2, <2>4, SMTT(20)
  <2>5. CASE n < i
    <3>1. n <= b /\ t[n] < u[n] /\ s[n] = t[n] /\ s[n] = u[n]
      BY <1>3, <1>4, <1>5, <2>1, <2>5, SMTT(20)
    <3>. QED
      BY <1>3, <1>4, <3>1, SMTT(20)
  <2>. QED
    BY <2>3, <2>4, <2>5, SMTT(20)
<1>7. l <= b /\ \A j \in 1..l : p[j] = t[j]
  BY <1>3, <1>4, <1>5, <1>6, SMTT(20)
<1>. QED
  BY <1>2, <1>7, PrefixIs, Zenon

----------------------------------------------------------------------------
(* What a key is listed as, and its place on a page.                       *)

\* The beginning of a key.
LEMMA BeginningIs ==
  ASSUME NEW s \in Seq(Nat), NEW n \in Nat, n <= Len(s)
  PROVE  /\ SubSeq(s, 1, n) \in Seq(Nat) /\ Len(SubSeq(s, 1, n)) = n
         /\ \A j \in 1..n : SubSeq(s, 1, n)[j] = s[j]
  BY SMTT(20)

\* Where a key has the delimiter behind the prefix.
Stops(k, ask) == {i \in Len(ask.prefix) + 1..Len(k) : k[i] = ask.delimiter}

\* A key is listed as itself, or as what it has up to the first of these.
LEMMA EntryIs ==
  ASSUME NEW k \in Seq(Nat), NEW ask, ask.prefix \in Seq(Nat)
  PROVE  \/ (ask.delimiter = None \/ Stops(k, ask) = {}) /\ Entry(k, ask) = [key |-> k]
         \/ /\ ask.delimiter # None
            /\ \E n \in Stops(k, ask) : (\A j \in Stops(k, ask) : n <= j)
                   /\ Entry(k, ask) = [prefix |-> SubSeq(k, 1, n)]
<1>1. Entry(k, ask) = IF ask.delimiter = None \/ Stops(k, ask) = {} THEN [key |-> k]
                      ELSE [prefix |-> SubSeq(k, 1, Min(Stops(k, ask)))]
  BY Zenon DEF Entry, Stops
<1>2. Stops(k, ask) \in SUBSET Nat
  BY SMTT(20) DEF Stops
<1>3. CASE ask.delimiter # None /\ Stops(k, ask) # {}
  <2>1. PICK n \in Stops(k, ask) : \A j \in Stops(k, ask) : n <= j
    BY <1>2, <1>3, Least, Zenon
  <2>2. Stops(k, ask) \in SUBSET Int
    BY <1>2, SMTT(20)
  <2>3. Min(Stops(k, ask)) = n
    BY <2>1, <2>2, MinIs, Zenon
  <2>. QED
    BY <1>1, <1>3, <2>1, <2>3, Zenon
<1>. QED
  BY <1>1, <1>3, Zenon

\* Of two keys with the same entry, all that come between them have it.
LEMMA EntryBetween ==
  ASSUME NEW s \in Seq(Nat), NEW t \in Seq(Nat), NEW u \in Seq(Nat), NEW ask, ask.prefix \in Seq(Nat),
         Before(s, t), Before(t, u), Entry(s, ask) = Entry(u, ask)
  PROVE  Entry(t, ask) = Entry(s, ask)
<1>1. s # u
  BY BeforeTransitive, BeforeIrreflexive, Zenon
<1>2. \A x, y : [key |-> x] = [key |-> y] => x = y
  BY SMTT(20)
<1>3. \A x, y : [key |-> x] # [prefix |-> y]
  BY SMTT(20)
<1>4. \A x, y : [prefix |-> x] = [prefix |-> y] => x = y
  BY SMTT(20)
<1>5. Entry(s, ask) # [key |-> s] /\ Entry(u, ask) # [key |-> u]
  <2>1. Entry(u, ask) = [key |-> u] \/ \E n : Entry(u, ask) = [prefix |-> SubSeq(u, 1, n)]
    BY EntryIs, Zenon
  <2>2. Entry(s, ask) = [key |-> s] \/ \E n : Entry(s, ask) = [prefix |-> SubSeq(s, 1, n)]
    BY EntryIs, Zenon
  <2>3. Entry(s, ask) # [key |-> s]
    BY <1>1, <1>2, <1>3, <2>1, Zenon
  <2>4. Entry(u, ask) # [key |-> u]
    BY <1>1, <1>2, <1>3, <2>2, Zenon
  <2>. QED
    BY <2>3, <2>4
<1>6. /\ \E n \in Stops(s, ask) : (\A j \in Stops(s, ask) : n <= j)
             /\ Entry(s, ask) = [prefix |-> SubSeq(s, 1, n)]
      /\ \E m \in Stops(u, ask) : (\A j \in Stops(u, ask) : m <= j)
             /\ Entry(u, ask) = [prefix |-> SubSeq(u, 1, m)]
      /\ ask.delimiter # None
  BY <1>5, EntryIs, Zenon
<1>21. PICK n \in Stops(s, ask) : (\A j \in Stops(s, ask) : n <= j)
           /\ Entry(s, ask) = [prefix |-> SubSeq(s, 1, n)]
  BY <1>6, Zenon
<1>22. PICK m \in Stops(u, ask) : (\A j \in Stops(u, ask) : m <= j)
           /\ Entry(u, ask) = [prefix |-> SubSeq(u, 1, m)]
  BY <1>6, Zenon
<1>7. PICK p : p = SubSeq(s, 1, n) /\ p = SubSeq(u, 1, m)
  BY <1>4, <1>21, <1>22, Zenon
<1>8. PICK l : l = Len(ask.prefix)
  BY Zenon
<1>9. l \in Nat
  BY <1>8, SMTT(20)
<1>10. n \in l + 1..Len(s) /\ m \in l + 1..Len(u)
  BY <1>8, Zenon DEF Stops
<1>11. n \in Nat /\ 1 <= n /\ n <= Len(s) /\ m \in Nat /\ m <= Len(u) /\ l + 1 <= n
  BY <1>9, <1>10, SMTT(20)
<1>12. p \in Seq(Nat) /\ Len(p) = n /\ \A j \in 1..n : p[j] = s[j]
  <2>1. n \in Nat /\ n <= Len(s)
    BY <1>11, Zenon
  <2>2. p = SubSeq(s, 1, n)
    BY <1>7, Zenon
  <2>. QED
    BY <2>1, <2>2, BeginningIs, Zenon
<1>13. Len(p) = m /\ \A j \in 1..m : p[j] = u[j]
  <2>1. m \in Nat /\ m <= Len(u)
    BY <1>11, Zenon
  <2>2. p = SubSeq(u, 1, m)
    BY <1>7, Zenon
  <2>. QED
    BY <2>1, <2>2, BeginningIs, Zenon
<1>14. IsPrefix(p, s) /\ IsPrefix(p, u)
  <2>1. Len(p) <= Len(s) /\ \A j \in 1..Len(p) : p[j] = s[j]
    BY <1>11, <1>12, Zenon
  <2>2. Len(p) <= Len(u) /\ \A j \in 1..Len(p) : p[j] = u[j]
    BY <1>11, <1>13, Zenon
  <2>. QED
    BY <1>12, <2>1, <2>2, PrefixIs, Zenon
<1>15. Len(p) <= Len(t) /\ \A j \in 1..Len(p) : p[j] = t[j]
  BY <1>12, <1>14, BetweenShares, PrefixIs, Zenon
<1>16. n \in Stops(t, ask)
  <2>1. s[n] = ask.delimiter
    BY <1>21, Zenon DEF Stops
  <2>2. n \in 1..n
    BY <1>11, SMTT(20)
  <2>3. t[n] = ask.delimiter
    BY <1>12, <1>15, <2>1, <2>2, Zenon
  <2>4. n \in l + 1..Len(t)
    BY <1>9, <1>11, <1>12, <1>15, SMTT(20)
  <2>. QED
    BY <1>8, <2>3, <2>4, Zenon DEF Stops
<1>17. ASSUME NEW j \in Stops(t, ask) PROVE n <= j
  <2>1. SUFFICES ASSUME j < n PROVE FALSE
    <3>1. j \in l + 1..Len(t)
      BY <1>8, Zenon DEF Stops
    <3>. QED
      BY <1>9, <1>11, <3>1, <2>1, SMTT(20)
  <2>2. j \in l + 1..Len(t) /\ t[j] = ask.delimiter
    BY <1>8, Zenon DEF Stops
  <2>3. j \in 1..n /\ j \in l + 1..Len(s)
    BY <1>9, <1>11, <2>1, <2>2, SMTT(20)
  <2>4. s[j] = ask.delimiter
    BY <1>12, <1>15, <2>2, <2>3, Zenon
  <2>5. n <= j
    BY <1>21, <1>8, <2>3, <2>4, Zenon DEF Stops
  <2>. QED
    BY <1>9, <1>11, <2>1, <2>3, <2>5, SMTT(20)
<1>18. ask.delimiter # None
  BY <1>6, Zenon
<1>19. Entry(t, ask) = [prefix |-> SubSeq(t, 1, n)]
  <2>1. PICK i \in Stops(t, ask) : (\A j \in Stops(t, ask) : i <= j)
            /\ Entry(t, ask) = [prefix |-> SubSeq(t, 1, i)]
    BY <1>16, <1>18, EntryIs, Zenon
  <2>2. i <= n /\ n <= i
    BY <1>16, <1>17, <2>1, Zenon
  <2>3. i \in l + 1..Len(t)
    BY <1>8, Zenon DEF Stops
  <2>4. i = n
    BY <1>9, <1>11, <2>2, <2>3, SMTT(20)
  <2>. QED
    BY <2>1, <2>4, Zenon
<1>20. SubSeq(t, 1, n) = p
  <2>1. PICK v : v = SubSeq(t, 1, n)
    BY Zenon
  <2>2. n <= Len(t)
    BY <1>12, <1>15, SMTT(20)
  <2>3. v \in Seq(Nat) /\ Len(v) = n /\ \A j \in 1..n : v[j] = t[j]
    BY <1>11, <2>1, <2>2, BeginningIs, Zenon
  <2>4. \A j \in 1..Len(v) : v[j] = p[j]
    BY <1>12, <1>15, <2>3, Zenon
  <2>5. Len(v) = Len(p)
    BY <1>12, <2>3, Zenon
  <2>. QED
    BY <1>12, <2>1, <2>3, <2>4, <2>5, SeqEqual, Zenon
<1>. QED
  BY <1>21, <1>7, <1>19, <1>20, Zenon

\* A finite set of keys has as many ranks as keys, and a key behind another the
\* higher one.
LEMMA RankGrows ==
  ASSUME NEW S \in SUBSET Seq(Nat), IsFiniteSet(S), NEW k \in S
  PROVE  /\ Rank(k, S) \in Nat /\ Rank(k, S) < Cardinality(S)
         /\ \A l \in S : Before(k, l) => Rank(k, S) < Rank(l, S)
<1>1. \A l \in S : l \in Seq(Nat)
  BY Zenon
<1>2. PICK A \in SUBSET S : A = {f \in S : Before(f, k)}
  BY Zenon
<1>3. IsFiniteSet(A) /\ Cardinality(A) \in Nat /\ Cardinality(S) \in Nat /\ Rank(k, S) = Cardinality(A)
  BY <1>2, FS_Subset, FS_CardinalityType, Zenon DEF Rank
<1>4. k \notin A
  BY <1>1, <1>2, BeforeIrreflexive, Zenon
<1>5. \A B \in SUBSET S : A \subseteq B /\ k \in B => Cardinality(B) \in Nat
          /\ Cardinality(A) < Cardinality(B)
  <2>1. SUFFICES ASSUME NEW B \in SUBSET S, A \subseteq B, k \in B
                 PROVE  Cardinality(B) \in Nat /\ Cardinality(A) < Cardinality(B)
    BY Zenon
  <2>2. IsFiniteSet(B)
    BY FS_Subset, Zenon
  <2>3. Cardinality(B) \in Nat /\ Cardinality(A) <= Cardinality(B) /\ Cardinality(A) # Cardinality(B)
    BY <1>4, <2>1, <2>2, FS_Subset, FS_CardinalityType, Zenon
  <2>. QED
    BY <1>3, <2>3, SMTT(20)
<1>6. ASSUME NEW l \in S, Before(k, l) PROVE Rank(k, S) < Rank(l, S)
  <2>1. PICK B \in SUBSET S : B = {f \in S : Before(f, l)}
    BY Zenon
  <2>2. A \subseteq B /\ k \in B
    BY <1>1, <1>2, <1>6, <2>1, BeforeTransitive, Zenon
  <2>3. Rank(l, S) = Cardinality(B)
    BY <2>1, Zenon DEF Rank
  <2>. QED
    BY <1>3, <1>5, <2>2, <2>3, Zenon
<1>7. Cardinality(A) < Cardinality(S)
  BY <1>5, Zenon
<1>. QED
  BY <1>3, <1>6, <1>7, Zenon

\* Every rank is some key's.
LEMMA RankIsTaken ==
  ASSUME NEW S \in SUBSET Seq(Nat), IsFiniteSet(S), NEW n \in Nat, n < Cardinality(S)
  PROVE  \E k \in S : Rank(k, S) = n
<1>1. PICK c : c = Cardinality(S)
  BY Zenon
<1>2. c \in Nat
  BY <1>1, FS_CardinalityType, Zenon
<1>3. PICK T : T = 0..(c - 1)
  BY Zenon
<1>4. IsFiniteSet(T) /\ Cardinality(T) = c
  <2>1. 0 \in Int /\ c - 1 \in Int
    BY <1>2, SMTT(20)
  <2>2. IsFiniteSet(0..(c - 1)) /\ Cardinality(0..(c - 1)) = IF 0 > c - 1 THEN 0 ELSE c - 1 - 0 + 1
    BY <2>1, FS_Interval, Zenon
  <2>3. (IF 0 > c - 1 THEN 0 ELSE c - 1 - 0 + 1) = c
    BY <1>2, SMTT(20)
  <2>. QED
    BY <1>3, <2>2, <2>3, Zenon
<1>5. PICK f : f = [k \in S |-> Rank(k, S)]
  BY Zenon
<1>6. f \in [S -> T]
  <2>1. SUFFICES ASSUME NEW k \in S PROVE Rank(k, S) \in T
    BY <1>5, Zenon
  <2>2. Rank(k, S) \in Nat /\ Rank(k, S) < c
    BY <1>1, RankGrows, Zenon
  <2>. QED
    BY <1>2, <1>3, <2>2, SMTT(20)
<1>7. ASSUME NEW k \in S, NEW l \in S, f[k] = f[l] PROVE k = l
  <2>1. Rank(k, S) = Rank(l, S) /\ Rank(k, S) \in Nat
    BY <1>5, <1>7, RankGrows, Zenon
  <2>2. ~(Rank(k, S) < Rank(l, S)) /\ ~(Rank(l, S) < Rank(k, S))
    BY <2>1, SMTT(20)
  <2>3. k \in Seq(Nat) /\ l \in Seq(Nat)
    BY Zenon
  <2>. QED
    BY <2>2, <2>3, RankGrows, BeforeTotal, Zenon
<1>8. f \in Injection(S, T)
  BY <1>6, <1>7, Zenon DEF Injection, IsInjective
<1>9. f \in Surjection(S, T)
  BY <1>1, <1>4, <1>8, FS_Injection, Zenon
<1>10. n \in T
  BY <1>1, <1>2, <1>3, SMTT(20)
<1>11. PICK k \in S : f[k] = n
  BY <1>9, <1>10, Zenon DEF Surjection
<1>. QED
  BY <1>5, <1>11, Zenon

\* The first key of those with the same entry adds it to the page.
LEMMA FirstIsFresh ==
  ASSUME NEW F \in SUBSET Seq(Nat), IsFiniteSet(F), NEW ask, NEW k \in Matching(F, ask)
  PROVE  \E f \in Fresh(F, ask) : Entry(f, ask) = Entry(k, ask) /\ (f = k \/ Before(f, k))
<1>1. PICK S \in SUBSET F : S = {x \in Matching(F, ask) : Entry(x, ask) = Entry(k, ask)}
  BY Zenon DEF Matching
<1>2. IsFiniteSet(S) /\ k \in S /\ S \in SUBSET Seq(Nat)
  BY <1>1, FS_Subset, Zenon
<1>3. 0 \in Nat /\ 0 < Cardinality(S)
  <2>1. Cardinality(S) \in Nat /\ Cardinality(S) # 0
    BY <1>2, FS_CardinalityType, FS_EmptySet, Zenon
  <2>. QED
    BY <2>1, SMTT(20)
<1>4. PICK f \in S : Rank(f, S) = 0
  BY <1>2, <1>3, RankIsTaken, Zenon
<1>5. \A x \in S : ~Before(x, f)
  <2>1. SUFFICES ASSUME NEW x \in S, Before(x, f) PROVE FALSE
    BY Zenon
  <2>2. Rank(x, S) \in Nat /\ Rank(x, S) < Rank(f, S)
    BY <1>2, <2>1, RankGrows, Zenon
  <2>. QED
    BY <1>4, <2>2, SMTT(20)
<1>6. f \in Fresh(F, ask)
  <2>1. f \in Matching(F, ask) /\ Entry(f, ask) = Entry(k, ask)
    BY <1>1, Zenon
  <2>2. \A other \in Matching(F, ask) : Before(other, f) => Entry(other, ask) # Entry(f, ask)
    BY <1>1, <1>5, <2>1, Zenon
  <2>. QED
    BY <2>1, <2>2, Zenon DEF Fresh
<1>7. f = k \/ Before(f, k)
  <2>1. f \in Seq(Nat) /\ k \in Seq(Nat) /\ ~Before(k, f)
    BY <1>2, <1>5, Zenon
  <2>. QED
    BY <2>1, BeforeTotal, Zenon
<1>. QED
  BY <1>1, <1>6, <1>7, Zenon

\* A page lists what comes before the key it continues with, and nothing twice.
LEMMA PageIs ==
  ASSUME NEW F \in SUBSET Seq(Nat), IsFiniteSet(F), NEW ask, ask.max \in Nat,
         NEW p, p = Page(F, ask)
  PROVE  /\ p.next = None => \A k \in Matching(F, ask) : Entry(k, ask) \in p.entries
         /\ p.next # None =>
               /\ p.next \in Matching(F, ask)
               /\ \A k \in Matching(F, ask) : Before(k, p.next) => Entry(k, ask) \in p.entries
         /\ \A e \in p.entries : \E k \in Matching(F, ask) :
               Entry(k, ask) = e /\ (p.next # None => Before(k, p.next) /\ Entry(p.next, ask) # e)
<1>. DEFINE fresh == Fresh(F, ask)
            listed == {k \in fresh : Rank(k, fresh) < ask.max}
            entries == {Entry(k, ask) : k \in listed}
            next == IF listed = fresh THEN None ELSE CHOOSE k \in fresh : Rank(k, fresh) = ask.max
<1>0. p = [entries |-> entries, next |-> next]
  BY DEF Page
<1>1. fresh = Fresh(F, ask)
  OBVIOUS
<1>2. listed = {k \in fresh : Rank(k, fresh) < ask.max}
  OBVIOUS
<1>. HIDE DEF fresh, listed
<1>3. /\ p.entries = {Entry(k, ask) : k \in listed}
      /\ p.next = IF listed = fresh THEN None ELSE CHOOSE k \in fresh : Rank(k, fresh) = ask.max
  <2>1. entries = {Entry(k, ask) : k \in listed}
    OBVIOUS
  <2>2. next = IF listed = fresh THEN None ELSE CHOOSE k \in fresh : Rank(k, fresh) = ask.max
    OBVIOUS
  <2>3. p.entries = entries /\ p.next = next
    <3>. HIDE DEF entries, next
    <3>. QED
      BY <1>0, SMTT(20)
  <2>. QED
    BY <2>1, <2>2, <2>3, Zenon
<1>. HIDE DEF entries, next
<1>4. /\ fresh \subseteq Matching(F, ask) /\ fresh \in SUBSET Seq(Nat) /\ IsFiniteSet(fresh)
      /\ Matching(F, ask) \in SUBSET Seq(Nat)
  <2>1. Matching(F, ask) \in SUBSET F /\ fresh \in SUBSET Matching(F, ask)
    BY <1>1, Zenon DEF Fresh, Matching
  <2>2. fresh \in SUBSET F
    BY <2>1, Zenon
  <2>. QED
    BY <2>1, <2>2, FS_Subset, Zenon
<1>5. \A k \in fresh : Rank(k, fresh) \in Nat /\ Rank(k, fresh) < Cardinality(fresh)
  BY <1>4, RankGrows, Zenon
<1>6. \A k \in Matching(F, ask) : \E f \in fresh : Entry(f, ask) = Entry(k, ask)
          /\ (f = k \/ Before(f, k))
  BY <1>1, FirstIsFresh, Zenon
<1>7. CASE listed = fresh
  <2>1. p.next = None
    BY <1>3, <1>7, Zenon
  <2>2. \A k \in Matching(F, ask) : Entry(k, ask) \in p.entries
    BY <1>3, <1>6, <1>7, Zenon
  <2>3. \A e \in p.entries : \E k \in Matching(F, ask) : Entry(k, ask) = e
    BY <1>2, <1>3, <1>4, Zenon
  <2>. QED
    BY <2>1, <2>2, <2>3, Zenon
<1>8. CASE listed # fresh
  <2>1. PICK k0 \in fresh : ~(Rank(k0, fresh) < ask.max)
    BY <1>2, <1>8, Zenon
  <2>2. ask.max < Cardinality(fresh)
    <3>1. Cardinality(fresh) \in Nat /\ Rank(k0, fresh) \in Nat /\ Rank(k0, fresh) < Cardinality(fresh)
      BY <1>4, <1>5, FS_CardinalityType, Zenon
    <3>. QED
      BY <2>1, <3>1, SMTT(20)
  <2>3. \E k \in fresh : Rank(k, fresh) = ask.max
    BY <1>4, <2>2, RankIsTaken, Zenon
  <2>4. p.next \in fresh /\ Rank(p.next, fresh) = ask.max
    BY <1>3, <1>8, <2>3, Zenon
  <2>5. p.next \in Matching(F, ask) /\ p.next \in Seq(Nat)
    BY <1>4, <2>4, Zenon
  <2>6. ASSUME NEW k \in Matching(F, ask), Before(k, p.next) PROVE Entry(k, ask) \in p.entries
    <3>1. PICK f \in fresh : Entry(f, ask) = Entry(k, ask) /\ (f = k \/ Before(f, k))
      BY <1>6, Zenon
    <3>2. f \in Seq(Nat) /\ k \in Seq(Nat)
      BY <1>4, Zenon
    <3>3. Before(f, p.next)
      BY <2>5, <2>6, <3>1, <3>2, BeforeTransitive, Zenon
    <3>4. Rank(f, fresh) < ask.max
      BY <1>4, <2>4, <3>3, RankGrows, Zenon
    <3>. QED
      BY <1>2, <1>3, <3>1, <3>4, Zenon
  <2>7. ASSUME NEW e \in p.entries
        PROVE  \E k \in Matching(F, ask) : Entry(k, ask) = e /\ Before(k, p.next)
            /\ Entry(p.next, ask) # e
    <3>1. PICK k \in fresh : Entry(k, ask) = e /\ Rank(k, fresh) < ask.max
      BY <1>2, <1>3, Zenon
    <3>2. k \in Seq(Nat) /\ k \in Matching(F, ask)
      BY <1>4, Zenon
    <3>3. Before(k, p.next)
      <4>1. ~(Rank(p.next, fresh) < Rank(k, fresh)) /\ k # p.next
        <5>1. Rank(k, fresh) \in Nat
          BY <1>5, Zenon
        <5>. QED
          BY <2>4, <3>1, <5>1, SMTT(20)
      <4>2. ~Before(p.next, k)
        BY <1>4, <2>4, <4>1, RankGrows, Zenon
      <4>. QED
        BY <2>5, <3>2, <4>1, <4>2, BeforeTotal, Zenon
    <3>4. Entry(p.next, ask) # e
      BY <1>1, <2>4, <3>1, <3>2, <3>3, Zenon DEF Fresh
    <3>. QED
      BY <3>1, <3>2, <3>3, <3>4, Zenon
  <2>8. p.next # None
    BY <2>5, NoneAssumption, Zenon
  <2>. QED
    BY <2>5, <2>6, <2>7, <2>8, Zenon
<1>. QED
  BY <1>7, <1>8, Zenon

----------------------------------------------------------------------------
(* The invariant of listings, besides ServerInv and BodyInv: the request on*)
(* its way is for the page that comes next, its walk finds every key that is*)
(* kept, and what is listed so far lies before where that page begins.     *)

\* A finite set of keys.
KeySet(S) == S \in SUBSET Seq(Nat) /\ IsFiniteSet(S)

\* What is asked of the keys behind m; what a request for a page asks; where the
\* next page of a listing begins.
Behind(ask, m) == [prefix |-> ask.prefix, delimiter |-> ask.delimiter, max |-> ask.max, marker |-> m]
PageAsk(ask) == Behind(ask, Marker(ask))
NextFrom(l) == IF l.next # None THEN l.next ELSE Marker(l.c.ask)

\* A request for a page, or for another listing's first one.
Asking(x) == x.pc # "idle" /\ x.c.op = "listObjects"
Following(l, x) == Asking(x) \/ l.next # None

\* Keys are keys wherever they are.
Keyed(x) ==
    /\ KeySet(x.todo) /\ KeySet(x.found)
    /\ x.pc = "sent" => Decode(x.req.path) \in Seq(Nat)
    /\ x.pc \in {"body", "read"} => x.to.key \in Seq(Nat)

\* The handlers that change objects.
Changers == {"putObject", "deleteObject", "deleteObjects"}

\* The request that is on its way is for the page that comes next.
Asks(l, x, w) ==
    /\ Following(l, x) \/ l.pages # <<>> => l.c \in w.sends /\ l.c.op = "listObjects"
    /\ l.next # None =>
          /\ l.next \in Seq(Nat) /\ l.next \in l.markers /\ l.pages # <<>>
          /\ x.pc # "idle" => Asking(x)
    /\ Asking(x) =>
          /\ x.c = l.c /\ x.req.method = "GET" /\ x.handler \notin Changers
          /\ x.cut = "no" => PageAsk(x.req.ask) = Behind(l.c.ask, NextFrom(l))
          /\ l.next = None => l.pages = <<>>

\* A listing finds the keys that are kept, of those it lists: its walk, and the page
\* made of it.
Walked(kept, x) == x.pc = "walk" => kept \subseteq x.todo \cup x.found
Paged(kept, x) ==
    x.page # None => \E F : KeySet(F) /\ kept \subseteq F /\ x.page = Page(F, PageAsk(x.req.ask))
Finds(l, keys, x) ==
    /\ l.kept \subseteq Seq(Nat)
    /\ Following(l, x) => l.kept \subseteq keys
    /\ Asking(x) => Walked(Listable(l.kept), x) /\ Paged(Listable(l.kept), x)

\* What the pages of a listing list: every key that is kept up to where the next page
\* begins, but for the markers; and what differs from all that is listed from there on.
Entries(ask) == {Entry(k, ask) : k \in Seq(Nat)}
Covered(l) ==
    \A k \in Matching(Listable(l.kept), PageAsk(l.c.ask)) \ l.markers :
        l.next = None \/ Before(k, l.next) => Entry(k, l.c.ask) \in UNION ToSet(l.pages)
Past(l) ==
    l.next # None =>
        /\ IsPrefix(l.c.ask.prefix, l.next)
        /\ \A i \in DOMAIN l.pages : \A e \in l.pages[i] :
              Entry(l.next, l.c.ask) # e /\ \E k \in Seq(Nat) : Entry(k, l.c.ask) = e
                  /\ Before(k, l.next)
Disjoint(l) == \A i, j \in DOMAIN l.pages : i < j => l.pages[i] \cap l.pages[j] = {}
Told(l) ==
    l.pages # <<>> =>
        l.pages \in Seq(SUBSET Entries(l.c.ask)) /\ Covered(l) /\ Past(l) /\ Disjoint(l)

\* The inductive invariant of listings, besides ServerInv and BodyInv.
ListingsInv ==
    /\ KeySet(DOMAIN objs) /\ Keyed(conn)
    /\ Asks(listing, conn, env) /\ Finds(listing, DOMAIN objs, conn) /\ Told(listing)

----------------------------------------------------------------------------
(* It is kept by every action.                                             *)

\* Keys of a bucket that changes.
LEMMA WithKeys ==
  ASSUME NEW k \in Seq(Nat), NEW blocks, KeySet(DOMAIN objs)
  PROVE  DOMAIN With(k, blocks) = DOMAIN objs \cup {k} /\ KeySet(DOMAIN With(k, blocks))
<1>1. DOMAIN With(k, blocks) = DOMAIN objs \cup {k}
  BY Zenon DEF With
<1>2. IsFiniteSet(DOMAIN objs \cup {k}) /\ DOMAIN objs \cup {k} \in SUBSET Seq(Nat)
  BY FS_AddElement, Zenon DEF KeySet
<1>. QED
  BY <1>1, <1>2, Zenon DEF KeySet

\* Some of them.
LEMMA WithoutKeys ==
  ASSUME NEW gone, KeySet(DOMAIN objs)
  PROVE  DOMAIN Without(gone) = DOMAIN objs \ gone /\ KeySet(DOMAIN Without(gone))
<1>1. DOMAIN Without(gone) = DOMAIN objs \ gone
  BY SMTT(20) DEF Without, Restrict
<1>2. DOMAIN objs \ gone \in SUBSET DOMAIN objs
  BY Zenon
<1>3. IsFiniteSet(DOMAIN objs \ gone) /\ DOMAIN objs \ gone \in SUBSET Seq(Nat)
  BY <1>2, FS_Subset, Zenon DEF KeySet
<1>. QED
  BY <1>1, <1>3, Zenon DEF KeySet

\* A part of a key is a key.
LEMMA PieceIsKey ==
  ASSUME NEW s \in Seq(Nat), NEW m \in Nat \ {0}, NEW n \in Nat, n <= Len(s)
  PROVE  SubSeq(s, m, n) \in Seq(Nat)
<1>1. \A i \in m..n : s[i] \in Nat
  BY SMTT(20)
<1>2. m \in Int /\ n \in Int
  BY SMTT(20)
<1>. QED
  BY <1>1, <1>2, SubSeqProperties, Zenon

\* What the server takes for a key is one.
LEMMA AddressIsKey ==
  ASSUME NEW host, NEW path \in Seq(Nat)
  PROVE  Addressing(host, path).key \in Seq(Nat)
<1>. DEFINE starts == {i \in DOMAIN path : path[i] # Slash} \cup {Len(path) + 1}
            rest == SubSeq(path, Min(starts), Len(path))
            slashes == {i \in DOMAIN rest : rest[i] = Slash}
            first == [bucket |-> SubSeq(rest, 1, Min(slashes) - 1),
                      key |-> SubSeq(rest, Min(slashes) + 1, Len(rest))]
<1>1. Addressing(host, path) =
         CASE host # None -> [bucket |-> host, key |-> rest]
           [] host = None /\ slashes = {} -> [bucket |-> rest, key |-> <<>>]
           [] OTHER -> first
  BY Zenon DEF Addressing
<1>2. rest \in Seq(Nat)
  <2>1. starts \in SUBSET (Nat \ {0}) /\ starts # {} /\ Len(path) \in Nat
    BY SMTT(20)
  <2>. HIDE DEF starts
  <2>2. starts \in SUBSET Nat /\ starts \in SUBSET Int
    BY <2>1, SMTT(20)
  <2>3. PICK n \in starts : \A k \in starts : n <= k
    BY <2>1, <2>2, Least, Zenon
  <2>4. Min(starts) = n /\ n \in Nat \ {0}
    BY <2>1, <2>2, <2>3, MinIs, Zenon
  <2>5. Len(path) <= Len(path)
    BY <2>1, SMTT(20)
  <2>. QED
    BY <2>1, <2>4, <2>5, PieceIsKey, Zenon
<1>. HIDE DEF rest
<1>3. slashes # {} => first.key \in Seq(Nat)
  <2>1. SUFFICES ASSUME slashes # {} PROVE first.key \in Seq(Nat)
    BY Zenon
  <2>2. slashes \in SUBSET Nat /\ slashes \in SUBSET Int /\ Len(rest) \in Nat /\ Len(rest) <= Len(rest)
    BY <1>2, SMTT(20)
  <2>. HIDE DEF slashes
  <2>3. PICK n \in slashes : \A k \in slashes : n <= k
    BY <2>1, <2>2, Least, Zenon
  <2>4. Min(slashes) = n /\ n \in Nat
    BY <2>2, <2>3, MinIs, Zenon
  <2>5. n + 1 \in Nat \ {0}
    BY <2>4, SMTT(20)
  <2>6. SubSeq(rest, n + 1, Len(rest)) \in Seq(Nat)
    BY <1>2, <2>2, <2>5, PieceIsKey, Zenon
  <2>7. first.key = SubSeq(rest, Min(slashes) + 1, Len(rest))
    <3>1. PICK x, y : x = SubSeq(rest, 1, Min(slashes) - 1)
              /\ y = SubSeq(rest, Min(slashes) + 1, Len(rest))
      BY Zenon
    <3>2. [bucket |-> x, key |-> y].key = y
      BY SMTT(20)
    <3>. QED
      BY <3>1, <3>2, Zenon
  <2>. QED
    BY <2>4, <2>6, <2>7, Zenon
<1>4. CASE host # None
  <2>1. Addressing(host, path) = [bucket |-> host, key |-> rest]
    <3>. HIDE DEF first, slashes
    <3>. QED
      BY <1>1, <1>4, SMTT(20)
  <2>. QED
    BY <1>2, <2>1, SMTT(20)
<1>5. CASE host = None /\ slashes = {}
  <2>1. Addressing(host, path) = [bucket |-> rest, key |-> <<>>]
    <3>. HIDE DEF first, slashes
    <3>. QED
      BY <1>1, <1>5, SMTT(20)
  <2>2. <<>> \in Seq(Nat) /\ Addressing(host, path).key = <<>>
    BY <2>1, SMTT(20)
  <2>. QED
    BY <2>2, Zenon
<1>6. CASE host = None /\ slashes # {}
  <2>1. Addressing(host, path) = first
    <3>. HIDE DEF first, slashes
    <3>. QED
      BY <1>1, <1>6, SMTT(20)
  <2>. QED
    BY <1>3, <1>6, <2>1, Zenon
<1>. QED
  BY <1>4, <1>5, <1>6, Zenon

\* A path cut off is still one.
LEMMA CutDecodes ==
  ASSUME NEW c, Sendable(c), NEW n \in 0..Len(RawPath(c))
  PROVE  Decode(SubSeq(RawPath(c), 1, n)) \in Seq(Nat)
<1>1. PICK raw : raw = RawPath(c)
  BY Zenon
<1>2. PICK t \in Seq(Nat) : t = Decode(raw)
  BY <1>1, Decoded, TextIs, Zenon
<1>3. DOMAIN raw = DOMAIN Text(c) /\ Text(c) \in Seq(Nat)
  BY <1>1, TextIs, Zenon DEF RawPath
<1>4. \E S : raw \in Seq(S)
  <2>1. PICK l \in Nat : DOMAIN raw = 1..l
    BY <1>3, SMTT(20)
  <2>2. raw = [i \in 1..l |-> raw[i]]
    BY <1>1, <2>1, Zenon DEF RawPath
  <2>3. raw \in Seq({raw[i] : i \in 1..l})
    BY <2>2, SMTT(20)
  <2>. QED
    BY <2>3, Zenon
<1>5. PICK S : raw \in Seq(S)
  BY <1>4, Zenon
<1>6. n \in Nat /\ n <= Len(raw)
  BY <1>1, <1>5, SMTT(20)
<1>7. PICK r : r = SubSeq(raw, 1, n)
  BY Zenon
<1>8. DOMAIN r = 1..n /\ \A i \in 1..n : r[i] = raw[i] /\ i \in DOMAIN raw
  BY <1>5, <1>6, <1>7, SMTT(20)
<1>9. \A i \in 1..n : Decode(r)[i] = t[i] /\ t[i] \in Nat
  <2>1. \A i \in DOMAIN raw : t[i] = IF raw[i].c = Plus /\ ~raw[i].esc THEN Space ELSE raw[i].c
    BY <1>2, Zenon DEF Decode
  <2>2. DOMAIN t = DOMAIN raw
    BY <1>2, Zenon DEF Decode
  <2>3. \A i \in DOMAIN t : t[i] \in Nat
    BY SMTT(20)
  <2>. QED
    BY <1>8, <2>1, <2>2, <2>3, Zenon DEF Decode
<1>10. DOMAIN Decode(r) = 1..n
  BY <1>8, Zenon DEF Decode
<1>11. PICK d : d = Decode(r)
  BY Zenon
<1>12. d = [i \in 1..n |-> d[i]] /\ \A i \in 1..n : d[i] \in Nat
  BY <1>8, <1>9, <1>11, Zenon DEF Decode
<1>13. d \in Seq(Nat)
  BY <1>6, <1>12, SMTT(20)
<1>. QED
  BY <1>1, <1>7, <1>11, <1>13, Zenon

\* dispatch changes no object for a GET.
LEMMA GetChangesNothing ==
  ASSUME NEW req, NEW to, req.method = "GET"
  PROVE  Route(req, to) \notin Changers
<1>1. PICK R : R = RulesFor(req.method, to.bucket, to.key, req.params, req.lines)
  BY Zenon
<1>2. PICK N : N = {i \in 1..18 : Applies(R, i)}
  BY Zenon
<1>3. DOMAIN R = 1..18 /\ Guards(R, "GET", to.bucket, to.key, req.params, req.lines)
  BY <1>1, RuleCount, RuleGuards, Zenon
<1>4. Route(req, to) = FirstOf(R)
  BY <1>1, Zenon DEF Route, RulesFor
<1>5. N \in SUBSET Nat /\ N # {}
  <2>1. Applies(R, 15) /\ 15 \in 1..18
    BY <1>3, SMTT(20) DEF Guards
  <2>2. \A i \in 1..18 : i \in Nat
    BY SMTT(20)
  <2>. QED
    BY <1>2, <2>1, <2>2, Zenon
<1>6. PICK i \in N : \A j \in N : i <= j
  BY <1>5, Least, Zenon
<1>7. i \in 1..18 /\ Applies(R, i) /\ \A j \in 1..(i - 1) : ~Applies(R, j)
  <2>1. i \in 1..18 /\ Applies(R, i)
    BY <1>2, Zenon
  <2>2. \A j \in 1..(i - 1) : j \in 1..18 /\ ~(i <= j)
    BY <2>1, SMTT(20)
  <2>. QED
    BY <1>2, <1>6, <2>1, <2>2, Zenon
<1>8. FirstOf(R) = Named(R, i)
  BY <1>3, <1>7, FirstRule, Zenon
<1>9. \A j \in 1..18 : Applies(R, j)
          => Named(R, j) \notin {"putObject", "deleteObject", "deleteObjects"}
  <2>. DEFINE changers == {"putObject", "deleteObject", "deleteObjects"}
  <2>1. ~Applies(R, 12) /\ ~Applies(R, 14) /\ ~Applies(R, 17)
    BY <1>3, SMTT(20) DEF Guards
  <2>2. \A j \in {1, 2, 3, 4, 18} : Named(R, j) \notin changers
    BY <1>1, SMTT(20) DEF RulesFor, Rules, Named
  <2>3. \A j \in {5, 6, 7, 8, 9, 10, 11, 13, 15, 16} : Named(R, j) \notin changers
    BY <1>1, SMTT(20) DEF RulesFor, Rules, Named
  <2>4. \A j \in 1..18 : j \in {1, 2, 3, 4, 18} \/ j \in {5, 6, 7, 8, 9, 10, 11, 13, 15, 16} \/ j \in {12, 14, 17}
    BY SMTT(20)
  <2>. QED
    BY <2>1, <2>2, <2>3, <2>4, Zenon
<1>. QED
  BY <1>4, <1>7, <1>8, <1>9, Zenon DEF Changers

\* What a step leaves of a connection for the listing it may be about: its client and
\* its request; the keys a walk has seen or has to see; the page.
Moves(keys, x, y) ==
    /\ x.pc # "idle" /\ y.pc # "idle" /\ y.c = x.c /\ y.req.method = x.req.method
    /\ y.cut = "no" => x.cut = "no" /\ y.req = x.req
    /\ Asking(x) => y.handler \notin Changers
    /\ y.pc = "walk" =>
          \/ Listable(keys) \subseteq y.todo \cup y.found
          \/ x.pc = "walk" /\ keys \cap (x.todo \cup x.found) \subseteq y.todo \cup y.found
    /\ y.page # None =>
          /\ y.req = x.req
          /\ \/ y.page = x.page
             \/ x.pc = "walk" /\ x.todo = {} /\ KeySet(x.found)
                 /\ y.page = Page(x.found, PageAsk(x.req.ask))

\* It stays the request for the page that comes next,
LEMMA AsksOn ==
  ASSUME NEW l, NEW keys, NEW x, NEW y, NEW w, Asks(l, x, w), Moves(keys, x, y)
  PROVE  Asks(l, y, w)
<1>1. (Asking(y) <=> Asking(x)) /\ (Following(l, y) <=> Following(l, x))
  BY Zenon DEF Moves, Asking, Following
<1>2. Asking(y) =>
          /\ y.c = l.c /\ y.req.method = "GET" /\ y.handler \notin Changers
          /\ y.cut = "no" => PageAsk(y.req.ask) = Behind(l.c.ask, NextFrom(l))
          /\ l.next = None => l.pages = <<>>
  BY <1>1, Zenon DEF Moves, Asks
<1>3. y.pc # "idle" <=> x.pc # "idle"
  BY Zenon DEF Moves
<1>. QED
  BY <1>1, <1>2, <1>3, Zenon DEF Asks

\* The keys a walk lists.
LEMMA ListableIn ==
  ASSUME NEW S, NEW T, S \subseteq T
  PROVE  Listable(S) \subseteq Listable(T) /\ Listable(S) \subseteq S /\ Listable(S) \subseteq T
  BY Zenon DEF Listable

\* and finds the keys that are kept.
LEMMA FindsOn ==
  ASSUME NEW l, NEW keys, NEW more, NEW x, NEW y, Finds(l, keys, x), Moves(keys, x, y),
         Following(l, x) => more = keys
  PROVE  Finds(l, more, y)
<1>1. (Asking(y) <=> Asking(x)) /\ (Following(l, y) <=> Following(l, x))
  BY Zenon DEF Moves, Asking, Following
<1>2. l.kept \subseteq Seq(Nat) /\ (Following(l, y) => l.kept \subseteq more)
  BY <1>1, Zenon DEF Finds
<1>. DEFINE kept == Listable(l.kept)
<1>3. Asking(x) => /\ kept \subseteq Listable(keys) /\ kept \subseteq keys
                   /\ Walked(kept, x) /\ Paged(kept, x)
  <2>1. Asking(x) => l.kept \subseteq keys /\ Walked(kept, x) /\ Paged(kept, x)
    BY Zenon DEF Finds, Following
  <2>. QED
    BY <2>1, ListableIn, Zenon
<1>. HIDE DEF kept
<1>4. Asking(x) => Walked(kept, y)
  BY <1>3, Zenon DEF Walked, Moves
<1>5. Asking(x) => Paged(kept, y)
  <2>1. SUFFICES ASSUME Asking(x), y.page # None
                 PROVE  \E F : KeySet(F) /\ kept \subseteq F /\ y.page = Page(F, PageAsk(y.req.ask))
    BY Zenon DEF Paged
  <2>2. CASE y.page = x.page
    BY <1>3, <2>1, <2>2, Zenon DEF Paged, Moves
  <2>3. CASE x.pc = "walk" /\ x.todo = {} /\ KeySet(x.found)
            /\ y.page = Page(x.found, PageAsk(x.req.ask))
    <3>1. kept \subseteq x.found
      BY <1>3, <2>1, <2>3, Zenon DEF Walked
    <3>2. y.req = x.req
      BY <2>1, Zenon DEF Moves
    <3>. QED
      BY <2>3, <3>1, <3>2, Zenon
  <2>. QED
    BY <2>1, <2>2, <2>3, Zenon DEF Moves
<1>. QED
  BY <1>1, <1>2, <1>4, <1>5, Zenon DEF Finds, kept

\* A step of the connection, which changes objects only if no listing is followed.
LEMMA Steady ==
  ASSUME ListingsInv, UNCHANGED <<env, listing>>, Moves(DOMAIN objs, conn, conn'), Keyed(conn'),
         \/ objs' = objs
         \/ KeySet(DOMAIN objs') /\ (Following(listing, conn) => DOMAIN objs' = DOMAIN objs)
  PROVE  ListingsInv'
<1>1. PICK x, y, l, w, keys, more :
         x = conn /\ y = conn' /\ l = listing /\ w = env /\ keys = DOMAIN objs /\ more = DOMAIN objs'
  BY Zenon
<1>2. KeySet(more) /\ (Following(l, x) => more = keys)
  BY <1>1, Zenon DEF ListingsInv
<1>3. Asks(l, y, w)
  BY <1>1, AsksOn, Zenon DEF ListingsInv
<1>4. Finds(l, more, y)
  BY <1>1, <1>2, FindsOn, Zenon DEF ListingsInv
<1>. QED
  BY <1>1, <1>2, <1>3, <1>4, Zenon DEF ListingsInv

\* What is asked matters to what a key is listed as only by prefix and delimiter.
LEMMA EntryOf ==
  ASSUME NEW k, NEW ask, NEW m
  PROVE  Entry(k, Behind(ask, m)) = Entry(k, ask)
<1>1. Behind(ask, m).prefix = ask.prefix /\ Behind(ask, m).delimiter = ask.delimiter
  BY SMTT(20) DEF Behind
<1>. QED
  BY <1>1, Zenon DEF Entry

\* A connection that carries nothing asks for nothing.
LEMMA IdleListings ==
  ASSUME ListingsInv, conn.pc # "idle", conn' = Idle, UNCHANGED <<env, objs, listing>>
  PROVE  ListingsInv'
<1>1. Idle.pc = "idle" /\ Idle.todo = {} /\ Idle.found = {} /\ "idle" # "sent"
          /\ "idle" \notin {"body", "read"}
  BY SMTT(20) DEF Idle
<1>2. PICK y : y = Idle
  BY Zenon
<1>3. ~Asking(y) /\ Keyed(y)
  <2>1. KeySet({})
    BY FS_EmptySet, Zenon DEF KeySet
  <2>. QED
    BY <1>1, <1>2, <2>1, Zenon DEF Asking, Keyed
<1>4. Following(listing, y) => Following(listing, conn)
  BY <1>3, Zenon DEF Following
<1>5. Asks(listing, y, env)
  BY <1>1, <1>2, <1>3, <1>4, Zenon DEF ListingsInv, Asks
<1>6. Finds(listing, DOMAIN objs, y)
  BY <1>3, <1>4, Zenon DEF ListingsInv, Finds
<1>. QED
  BY <1>2, <1>3, <1>5, <1>6, Zenon DEF ListingsInv

\* Where every behaviour starts.
LEMMA InitListings == Init => ListingsInv
<1>. SUFFICES ASSUME Init PROVE ListingsInv
  BY Zenon
<1>1. env \in Worlds /\ objs = env.store /\ conn = Idle /\ listing = NoListing
  BY Zenon DEF Init
<1>2. /\ Idle.pc = "idle" /\ Idle.todo = {} /\ Idle.found = {} /\ "idle" # "sent"
             /\ "idle" \notin {"body", "read"}
      /\ NoListing.next = None /\ NoListing.pages = <<>> /\ NoListing.kept = {}
  BY SMTT(20) DEF Idle, NoListing
<1>3. PICK x, l : x = conn /\ l = listing
  BY Zenon
<1>4. ~Asking(x) /\ ~Following(l, x)
  BY <1>1, <1>2, <1>3, Zenon DEF Asking, Following
<1>5. KeySet(DOMAIN objs) /\ KeySet({})
  BY <1>1, ListingAssumption, FS_EmptySet, Zenon DEF KeySet
<1>6. Keyed(x)
  BY <1>1, <1>2, <1>3, <1>5, Zenon DEF Keyed
<1>7. Asks(l, x, env) /\ Finds(l, DOMAIN objs, x) /\ Told(l)
  BY <1>1, <1>2, <1>3, <1>4, Zenon DEF Asks, Finds, Told
<1>. QED
  BY <1>3, <1>5, <1>6, <1>7, Zenon DEF ListingsInv

\* A client asks for the page that comes next by its marker or its token.
LEMMA NextAsked ==
  ASSUME NEW ask, Askable(ask), NEW next, next # None,
         NEW a, a = IF ask.v2 THEN [ask EXCEPT !.token = next] ELSE [ask EXCEPT !.marker = next]
  PROVE  PageAsk(a) = Behind(ask, next)
<1>1. /\ a.prefix = ask.prefix /\ a.delimiter = ask.delimiter /\ a.max = ask.max /\ a.v2 = ask.v2
      /\ IF ask.v2 THEN a.token = next ELSE a.marker = next
  BY SMTT(20) DEF Askable
<1>2. Marker(a) = next
  BY <1>1, Zenon DEF Marker
<1>. QED
  BY <1>1, <1>2, Zenon DEF PageAsk, Behind

\* A client that signs a request, for a first page or the next.
LEMMA SignListings == ServerInv /\ ListingsInv /\ SignRequest => ListingsInv'
<1>. SUFFICES ASSUME ServerInv, ListingsInv, SignRequest PROVE ListingsInv'
  BY Zenon
<1>1. UNCHANGED <<env, objs>> /\ conn.pc = "idle" /\ env \in Worlds
  BY Zenon DEF SignRequest, ServerInv, ClockInv
<1>2. PICK c \in IF listing.next # None THEN {listing.c} ELSE env.sends : \E ask, when :
         /\ ask = IF listing.next = None THEN c.ask
                  ELSE IF c.ask.v2 THEN [c.ask EXCEPT !.token = listing.next]
                  ELSE [c.ask EXCEPT !.marker = listing.next]
         /\ conn' = [Idle EXCEPT !.pc = "signed", !.c = c, !.when = when,
                                 !.age = IF c.skew = 0 THEN 0 ELSE -DaySeconds,
                                     !.req = Request(c, ask, when)]
         /\ listing' = IF c.op # "listObjects" \/ listing.next # None THEN listing
                       ELSE [NoListing EXCEPT !.c = c, !.kept = DOMAIN objs]
  <2>. DEFINE asked(c) == IF listing.next = None THEN c.ask
                          ELSE IF c.ask.v2 THEN [c.ask EXCEPT !.token = listing.next]
                          ELSE [c.ask EXCEPT !.marker = listing.next]
              at(c) == [date |-> IF c.skew = 0 THEN date ELSE NextDay(date), sec |-> clock.sec]
  <2>1. PICK c \in IF listing.next # None THEN {listing.c} ELSE env.sends :
           /\ conn' = [Idle EXCEPT !.pc = "signed", !.c = c, !.when = at(c),
                                   !.age = IF c.skew = 0 THEN 0 ELSE -DaySeconds,
                                       !.req = Request(c, asked(c), at(c))]
           /\ listing' = IF c.op # "listObjects" \/ listing.next # None THEN listing
                         ELSE [NoListing EXCEPT !.c = c, !.kept = DOMAIN objs]
    BY Zenon DEF SignRequest
  <2>2. PICK ask, when : ask = asked(c) /\ when = at(c)
    BY Zenon
  <2>. QED
    BY <2>1, <2>2, Zenon
<1>3. PICK ask, when :
         /\ ask = IF listing.next = None THEN c.ask
                  ELSE IF c.ask.v2 THEN [c.ask EXCEPT !.token = listing.next]
                  ELSE [c.ask EXCEPT !.marker = listing.next]
         /\ conn' = [Idle EXCEPT !.pc = "signed", !.c = c, !.when = when,
                                 !.age = IF c.skew = 0 THEN 0 ELSE -DaySeconds,
                                     !.req = Request(c, ask, when)]
         /\ listing' = IF c.op # "listObjects" \/ listing.next # None THEN listing
                       ELSE [NoListing EXCEPT !.c = c, !.kept = DOMAIN objs]
  BY <1>2, Zenon
<1>4. PICK y, l, m, w, keys :
         y = conn' /\ l = listing /\ m = listing' /\ w = env /\ keys = DOMAIN objs
  BY Zenon
<1>5. /\ y.pc = "signed" /\ y.c = c /\ y.req = Request(c, ask, when) /\ y.cut = "no" /\ y.page = None
      /\ y.todo = {} /\ y.found = {} /\ y.handler = "none" /\ y.handler \notin Changers
      /\ y.pc # "idle" /\ y.pc # "sent" /\ y.pc # "walk" /\ y.pc \notin {"body", "read"}
  BY <1>3, <1>4, SMTT(20) DEF Idle, Changers
<1>6. y.req.ask = ask /\ y.req.method = Api[c.op][1]
  BY <1>5, SMTT(20) DEF Request, Bare
<1>7. Keyed(y)
  <2>1. KeySet({})
    BY FS_EmptySet, Zenon DEF KeySet
  <2>. QED
    BY <1>5, <2>1, Zenon DEF Keyed
<1>8. KeySet(keys) /\ Asks(l, conn, w) /\ Finds(l, keys, conn) /\ Told(l)
  BY <1>4, Zenon DEF ListingsInv
<1>9. Walked(Listable(m.kept), y) /\ Paged(Listable(m.kept), y)
  BY <1>5, Zenon DEF Walked, Paged
<1>10. c.op = "listObjects" => y.req.method = "GET"
  <2>1. c.op = "listObjects" => Api["listObjects"][1] = "GET"
    BY SMTT(20) DEF Api, Operations, OnObject, OnBucket
  <2>. QED
    BY <1>6, <2>1, Zenon
<1>11. CASE listing.next # None
  <2>1. c = l.c /\ m = l /\ l.next # None /\ Following(l, conn)
    BY <1>2, <1>3, <1>4, <1>11, Zenon DEF Following
  <2>2. l.c \in w.sends /\ c.op = "listObjects" /\ l.next \in Seq(Nat) /\ l.next \in l.markers
            /\ l.pages # <<>>
    BY <1>8, <2>1, Zenon DEF Asks
  <2>3. Asking(y) /\ Following(m, y)
    BY <1>5, <2>2, Zenon DEF Asking, Following
  <2>4. Askable(c.ask)
    BY <1>1, <1>4, <2>1, <2>2, ListingAssumption, Zenon
  <2>5. PageAsk(y.req.ask) = Behind(l.c.ask, NextFrom(l))
    <3>1. ask = IF c.ask.v2 THEN [c.ask EXCEPT !.token = l.next] ELSE [c.ask EXCEPT !.marker = l.next]
      BY <1>3, <1>4, <2>1, Zenon
    <3>2. PICK old, next : old = c.ask /\ next = l.next
      BY Zenon
    <3>3. PageAsk(ask) = Behind(old, next)
      BY <2>1, <2>4, <3>1, <3>2, NextAsked, Zenon
    <3>. QED
      BY <1>6, <2>1, <3>2, <3>3, Zenon DEF NextFrom
  <2>6. Asks(m, y, w)
    BY <1>5, <1>10, <2>1, <2>2, <2>3, <2>5, Zenon DEF Asks
  <2>7. Finds(m, keys, y)
    BY <1>8, <1>9, <2>1, Zenon DEF Finds
  <2>. QED
    BY <1>1, <1>4, <1>7, <1>8, <2>1, <2>6, <2>7, Zenon DEF ListingsInv
<1>12. CASE listing.next = None /\ c.op # "listObjects"
  <2>1. m = l /\ l.next = None
    BY <1>3, <1>4, <1>12, Zenon
  <2>2. ~Asking(y) /\ ~Following(m, y)
    BY <1>5, <1>12, <2>1, Zenon DEF Asking, Following
  <2>3. Asks(m, y, w) /\ Finds(m, keys, y)
    BY <1>8, <2>1, <2>2, Zenon DEF Asks, Finds
  <2>. QED
    BY <1>1, <1>4, <1>7, <1>8, <2>1, <2>3, Zenon DEF ListingsInv
<1>13. CASE listing.next = None /\ c.op = "listObjects"
  <2>1. /\ m.next = None /\ m.c = c /\ m.pages = <<>> /\ m.kept = keys
    <3>1. listing' = [NoListing EXCEPT !.c = c, !.kept = DOMAIN objs]
      BY <1>3, <1>13, Zenon
    <3>. QED
      BY <1>4, <3>1, SMTT(20) DEF NoListing
  <2>2. c \in w.sends /\ ask = c.ask
    BY <1>2, <1>3, <1>4, <1>13, Zenon
  <2>3. PageAsk(y.req.ask) = Behind(m.c.ask, NextFrom(m))
    BY <1>6, <2>1, <2>2, Zenon DEF PageAsk, NextFrom
  <2>4. Asks(m, y, w)
    BY <1>5, <1>10, <1>13, <2>1, <2>2, <2>3, Zenon DEF Asks
  <2>5. Finds(m, keys, y)
    BY <1>8, <1>9, <2>1, Zenon DEF Finds, KeySet
  <2>6. Told(m)
    BY <2>1, Zenon DEF Told
  <2>. QED
    BY <1>1, <1>4, <1>7, <1>8, <2>4, <2>5, <2>6, Zenon DEF ListingsInv
<1>. QED
  BY <1>11, <1>12, <1>13, Zenon

\* What a step of a handler leaves as it was, or one of the time.
Rests(x, y) ==
    /\ y.c = x.c /\ y.req = x.req /\ y.cut = x.cut /\ y.handler = x.handler /\ y.to = x.to
    /\ y.page = x.page /\ y.todo = x.todo /\ y.found = x.found
    /\ x.pc # "idle" /\ y.pc # "idle"
    /\ y.pc = "walk" => x.pc = "walk"
    /\ y.pc = "sent" => x.pc = "sent"
    /\ y.pc \in {"body", "read"} => x.pc \in {"body", "read"}

\* Such a step, which changes objects only if no listing is followed.
LEMMA RestsListings ==
  ASSUME ListingsInv, UNCHANGED <<env, listing>>, Rests(conn, conn'),
         \/ objs' = objs
         \/ KeySet(DOMAIN objs') /\ (Following(listing, conn) => DOMAIN objs' = DOMAIN objs)
  PROVE  ListingsInv'
<1>1. PICK x, y, l, w, keys : x = conn /\ y = conn' /\ l = listing /\ w = env /\ keys = DOMAIN objs
  BY Zenon
<1>2. Asking(x) => y.handler \notin Changers
  BY <1>1, Zenon DEF ListingsInv, Asks, Rests
<1>3. Moves(keys, x, y)
  BY <1>1, <1>2, Zenon DEF Moves, Rests
<1>4. Keyed(x) => Keyed(y)
  BY <1>1, Zenon DEF Keyed, Rests
<1>. QED
  BY <1>1, <1>3, <1>4, Steady, Zenon DEF ListingsInv

\* Reading a body.
LEMMA ReadListings == ServerInv /\ ListingsInv /\ ReadBody => ListingsInv'
<1>. SUFFICES ASSUME ServerInv, ListingsInv, ReadBody PROVE ListingsInv'
  BY Zenon
<1>1. UNCHANGED <<env, objs, listing>> /\ conn.pc = "body" /\ DOMAIN conn = Fields
  BY Zenon DEF ReadBody, ServerInv, ConnInv
<1>2. PICK r : r = Read(conn.rd)
  BY Zenon
<1>3. PICK got, pc : got = conn.got \o r.got /\ pc = IF r.got = <<>> THEN "read" ELSE "body"
  BY Zenon
<1>4. \/ conn' = [conn EXCEPT !.rd = r.rd, !.got = got, !.pc = pc]
      \/ conn' = [conn EXCEPT !.pc = "answered", !.status = 500]
  BY <1>2, <1>3, Zenon DEF ReadBody, Answer
<1>5. pc \in {"body", "read"}
  BY <1>3, SMTT(20)
<1>6. CASE conn' = [conn EXCEPT !.rd = r.rd, !.got = got, !.pc = pc]
  <2>1. Rests(conn, conn')
    BY <1>1, <1>5, <1>6, SMTT(20) DEF Rests, Fields
  <2>. QED
    BY <1>1, <2>1, RestsListings, Zenon
<1>7. CASE conn' = [conn EXCEPT !.pc = "answered", !.status = 500]
  <2>1. Rests(conn, conn')
    BY <1>1, <1>7, SMTT(20) DEF Rests, Fields
  <2>. QED
    BY <1>1, <2>1, RestsListings, Zenon
<1>. QED
  BY <1>4, <1>6, <1>7, Zenon

\* A handler that changes objects does not serve a listing's request.
LEMMA ChangersFollowNothing ==
  ASSUME ListingsInv, conn.pc # "idle", conn.handler \in Changers
  PROVE  ~Following(listing, conn)
  BY Zenon DEF ListingsInv, Asks, Following

\* A put that ends.
LEMMA CommitListings == ServerInv /\ ListingsInv /\ Commit => ListingsInv'
<1>. SUFFICES ASSUME ServerInv, ListingsInv, Commit PROVE ListingsInv'
  BY Zenon
<1>1. UNCHANGED <<env, listing>> /\ conn.pc = "read" /\ conn.handler = "putObject"
          /\ DOMAIN conn = Fields
  BY Zenon DEF Commit, ServerInv, ConnInv
<1>2. conn.pc # "idle" /\ conn.handler \in Changers /\ conn.pc \in {"body", "read"}
  BY <1>1, SMTT(20) DEF Changers
<1>3. ~Following(listing, conn)
  BY <1>2, ChangersFollowNothing, Zenon
<1>4. PICK key, got : key = conn.to.key /\ got = conn.got
  BY Zenon
<1>5. key \in Seq(Nat) /\ KeySet(DOMAIN objs)
  BY <1>2, <1>4, Zenon DEF ListingsInv, Keyed
<1>6. \/ /\ objs' = With(key, got)
         /\ conn' = [conn EXCEPT !.pc = "answered", !.status = 200, !.did = {<<key, got>>}]
      \/ /\ objs' = objs
         /\ \E status : conn' = [conn EXCEPT !.pc = "answered", !.status = status]
  BY <1>4, Zenon DEF Commit, Answer
<1>7. Rests(conn, conn')
  <2>1. CASE conn' = [conn EXCEPT !.pc = "answered", !.status = 200, !.did = {<<key, got>>}]
    BY <1>1, <2>1, SMTT(20) DEF Rests, Fields
  <2>2. CASE \E status : conn' = [conn EXCEPT !.pc = "answered", !.status = status]
    BY <1>1, <2>2, SMTT(20) DEF Rests, Fields
  <2>. QED
    BY <1>6, <2>1, <2>2, Zenon
<1>8. objs' = objs \/ KeySet(DOMAIN objs')
  BY <1>5, <1>6, WithKeys, Zenon
<1>. QED
  BY <1>1, <1>3, <1>7, <1>8, RestsListings, Zenon

\* The deletion of a list of objects.
LEMMA DeleteListings == ServerInv /\ ListingsInv /\ DeleteNext => ListingsInv'
<1>. SUFFICES ASSUME ServerInv, ListingsInv, DeleteNext PROVE ListingsInv'
  BY Zenon
<1>1. UNCHANGED <<env, listing>> /\ conn.pc = "read" /\ conn.handler = "deleteObjects"
          /\ DOMAIN conn = Fields
  BY Zenon DEF DeleteNext, ServerInv, ConnInv
<1>2. conn.pc # "idle" /\ conn.handler \in Changers
  BY <1>1, SMTT(20) DEF Changers
<1>3. ~Following(listing, conn)
  BY <1>2, ChangersFollowNothing, Zenon
<1>4. KeySet(DOMAIN objs)
  BY Zenon DEF ListingsInv
<1>5. /\ objs' = objs \/ \E gone : objs' = Without(gone)
      /\ \/ conn' = [conn EXCEPT !.pc = "answered", !.status = 200]
         \/ \E got, did : conn' = [conn EXCEPT !.got = got, !.did = did]
  <2>1. PICK items, i, k, gone :
           /\ items = Items(conn.got) /\ i = Min(items) /\ k = conn.got[i].key
           /\ gone = IF There([bucket |-> conn.to.bucket, key |-> k]) THEN Unlinked(k) \cap DOMAIN objs ELSE {}
    BY Zenon
  <2>2. PICK got, did : /\ got = IF items = {i} THEN <<>> ELSE SubSeq(conn.got, i + 1, Len(conn.got))
                        /\ did = conn.did \cup {<<g, None>> : g \in gone}
    BY Zenon
  <2>3. \/ objs' = objs /\ conn' = [conn EXCEPT !.pc = "answered", !.status = 200]
        \/ /\ objs' = Without(gone)
           /\ conn' = [conn EXCEPT !.got = got, !.did = did]
    BY <2>1, <2>2, Zenon DEF DeleteNext, Answer
  <2>. QED
    BY <2>3, Zenon
<1>6. Rests(conn, conn')
  <2>1. CASE conn' = [conn EXCEPT !.pc = "answered", !.status = 200]
    BY <1>1, <2>1, SMTT(20) DEF Rests, Fields
  <2>2. CASE \E got, did : conn' = [conn EXCEPT !.got = got, !.did = did]
    BY <1>1, <2>2, SMTT(20) DEF Rests, Fields
  <2>. QED
    BY <1>5, <2>1, <2>2, Zenon
<1>7. objs' = objs \/ KeySet(DOMAIN objs')
  BY <1>4, <1>5, WithoutKeys, Zenon
<1>. QED
  BY <1>1, <1>3, <1>6, <1>7, RestsListings, Zenon

\* Sending an object.
LEMMA SendBlockListings == ServerInv /\ ListingsInv /\ SendBlock => ListingsInv'
<1>. SUFFICES ASSUME ServerInv, ListingsInv, SendBlock PROVE ListingsInv'
  BY Zenon
<1>1. UNCHANGED <<env, objs, listing>> /\ conn.pc = "send" /\ DOMAIN conn = Fields
  BY Zenon DEF SendBlock, ServerInv, ConnInv
<1>2. PICK next, left : /\ next = Append(conn.sent, conn.file[conn.start + Len(conn.sent) + 1])
                        /\ left = conn.remaining - 1
  BY Zenon
<1>3. \/ conn' = [conn EXCEPT !.pc = "answered"]
      \/ conn' = [conn EXCEPT !.sent = next, !.remaining = left]
      \/ conn' = Idle
  BY <1>2, Zenon DEF SendBlock, Goto
<1>4. CASE conn' = Idle
  <2>1. conn.pc # "idle"
    BY <1>1, SMTT(20)
  <2>. QED
    BY <1>1, <1>4, <2>1, IdleListings, Zenon
<1>5. CASE conn' = [conn EXCEPT !.pc = "answered"] \/ conn' = [conn EXCEPT !.sent = next,
          !.remaining = left]
  <2>1. CASE conn' = [conn EXCEPT !.pc = "answered"]
    <3>1. Rests(conn, conn')
      BY <1>1, <2>1, SMTT(20) DEF Rests, Fields
    <3>. QED
      BY <1>1, <3>1, RestsListings, Zenon
  <2>2. CASE conn' = [conn EXCEPT !.sent = next, !.remaining = left]
    <3>1. Rests(conn, conn')
      BY <1>1, <2>2, SMTT(20) DEF Rests, Fields
    <3>. QED
      BY <1>1, <3>1, RestsListings, Zenon
  <2>. QED
    BY <1>5, <2>1, <2>2, Zenon
<1>. QED
  BY <1>3, <1>4, <1>5, Zenon

\* A client that goes away.
LEMMA HangupListings == ServerInv /\ ListingsInv /\ Hangup => ListingsInv'
<1>. SUFFICES ASSUME ServerInv, ListingsInv, Hangup PROVE ListingsInv'
  BY Zenon
<1>1. /\ UNCHANGED <<env, objs, listing>> /\ DOMAIN conn = Fields /\ conn.pc \notin {"idle", "signed"}
      /\ conn' = [conn EXCEPT !.gone = TRUE]
  BY Zenon DEF Hangup, ServerInv, ConnInv
<1>2. Rests(conn, conn')
  BY <1>1, SMTT(20) DEF Rests, Fields
<1>. QED
  BY <1>1, <1>2, RestsListings, Zenon

\* The time that passes.
LEMMA TickListings == ServerInv /\ ListingsInv /\ Tick => ListingsInv'
<1>. SUFFICES ASSUME ServerInv, ListingsInv, Tick PROVE ListingsInv'
  BY Zenon
<1>1. UNCHANGED <<env, objs, listing>> /\ DOMAIN conn = Fields
  BY Zenon DEF Tick, ServerInv, ConnInv
<1>2. conn' = conn \/ (conn.pc # "idle" /\ \E age : conn' = [conn EXCEPT !.age = age])
  BY Zenon DEF Tick
<1>3. CASE conn' = conn
  BY <1>1, <1>3, Zenon DEF ListingsInv
<1>4. CASE conn.pc # "idle" /\ \E age : conn' = [conn EXCEPT !.age = age]
  <2>1. Rests(conn, conn')
    BY <1>1, <1>4, SMTT(20) DEF Rests, Fields
  <2>. QED
    BY <1>1, <2>1, RestsListings, Zenon
<1>. QED
  BY <1>2, <1>3, <1>4, Zenon

\* Other clients, who put a key or take it away: then it is no longer kept.
LEMMA ChangeListings == ServerInv /\ ListingsInv /\ Change => ListingsInv'
<1>. SUFFICES ASSUME ServerInv, ListingsInv, Change PROVE ListingsInv'
  BY Zenon
<1>1. UNCHANGED <<env, conn>> /\ env \in Worlds
      /\ DOMAIN listing = {"next", "c", "pages", "markers", "kept"}
  BY Zenon DEF Change, ServerInv, ClockInv, ListingInv
<1>2. PICK k \in env.others :
         /\ objs' = IF k \in DOMAIN objs THEN Without({k}) ELSE With(k, <<>>)
         /\ listing' = [listing EXCEPT !.kept = @ \ {k}]
  BY Zenon DEF Change
<1>3. PICK x, l, m, w, keys, more :
         x = conn /\ l = listing /\ m = listing' /\ w = env /\ keys = DOMAIN objs /\ more = DOMAIN objs'
  BY Zenon
<1>4. PICK kept : kept = l.kept \ {k}
  BY Zenon
<1>5. /\ m.next = l.next /\ m.c = l.c /\ m.pages = l.pages /\ m.markers = l.markers /\ m.kept = kept
  <2>1. m = [l EXCEPT !.kept = kept]
    BY <1>2, <1>3, <1>4, Zenon
  <2>. QED
    BY <1>1, <1>3, <2>1, SMTT(20)
<1>6. KeySet(keys) /\ Keyed(x) /\ Asks(l, x, w) /\ Finds(l, keys, x) /\ Told(l)
  BY <1>3, Zenon DEF ListingsInv
<1>7. k \in Seq(Nat)
  BY <1>1, <1>2, ListingAssumption, Zenon
<1>8. KeySet(more) /\ keys \ {k} \subseteq more
  <2>1. CASE k \in DOMAIN objs
    BY <1>2, <1>3, <1>6, <2>1, WithoutKeys, Zenon
  <2>2. CASE k \notin DOMAIN objs
    <3>1. PICK none : none = <<>>
      BY Zenon
    <3>2. objs' = With(k, none)
      BY <1>2, <2>2, <3>1, Zenon
    <3>3. DOMAIN With(k, none) = DOMAIN objs \cup {k} /\ KeySet(DOMAIN With(k, none))
      BY <1>3, <1>6, <1>7, WithKeys, Zenon
    <3>. QED
      BY <1>3, <3>2, <3>3, Zenon
  <2>. QED
    BY <2>1, <2>2, Zenon
<1>9. (Following(m, x) <=> Following(l, x)) /\ NextFrom(m) = NextFrom(l)
  BY <1>5, Zenon DEF Following, NextFrom
<1>10. Asks(m, x, w)
  BY <1>5, <1>6, <1>9, Zenon DEF Asks
<1>11. Finds(m, more, x)
  <2>1. kept \subseteq l.kept
    BY <1>4, Zenon
  <2>2. Following(l, x) => kept \subseteq more
    BY <1>4, <1>6, <1>8, Zenon DEF Finds
  <2>0. Listable(kept) \subseteq Listable(l.kept)
    BY <2>1, ListableIn, Zenon
  <2>3. Walked(Listable(l.kept), x) => Walked(Listable(kept), x)
    BY <2>0, Zenon DEF Walked
  <2>4. Paged(Listable(l.kept), x) => Paged(Listable(kept), x)
    BY <2>0, Zenon DEF Paged
  <2>. QED
    BY <1>5, <1>6, <1>9, <2>1, <2>2, <2>3, <2>4, Zenon DEF Finds
<1>12. Told(m)
  <2>1. Covered(l) => Covered(m)
    <3>1. PICK a : a = PageAsk(l.c.ask)
      BY Zenon
    <3>2. Matching(Listable(kept), a) \subseteq Matching(Listable(l.kept), a)
      BY <1>4, Zenon DEF Matching, Listable
    <3>. QED
      BY <1>5, <3>1, <3>2, Zenon DEF Covered
  <2>2. Past(l) => Past(m)
    BY <1>5, Zenon DEF Past
  <2>3. Disjoint(l) => Disjoint(m)
    BY <1>5, Zenon DEF Disjoint
  <2>. QED
    BY <1>5, <1>6, <2>1, <2>2, <2>3, Zenon DEF Told
<1>. QED
  BY <1>1, <1>3, <1>6, <1>8, <1>10, <1>11, <1>12, Zenon DEF ListingsInv

\* A request line holds the path or a beginning of it.
HeldPath(r, c) == r.path = RawPath(c) \/ \E n \in 0..Len(RawPath(c)) : r.path = SubSeq(RawPath(c), 1, n)

\* So does one that broke off.
LEMMA BrokenPath ==
  ASSUME NEW c, NEW ask, NEW when, NEW req, req = Request(c, ask, when),
         NEW r, r \in BrokenHeads(req) \cup BrokenLines(req)
  PROVE  r.method = req.method /\ HeldPath(r, c)
<1>1. PICK p, m : p = RawPath(c) /\ m = req.method
  BY Zenon
<1>2. DOMAIN req = {"method", "path", "params", "ask", "lines", "presigned"} /\ req.path = p
  <2>1. DOMAIN req = {"method", "path", "params", "ask", "lines", "presigned"} /\ req.path = RawPath(c)
    BY SMTT(20) DEF Request
  <2>. QED
    BY <1>1, <2>1, Zenon
<1>3. CASE r \in BrokenHeads(req)
  <2>0. PICK L : L = req.lines
    BY Zenon
  <2>1. \E x : r = [req EXCEPT !.lines = x]
    <3>1. CASE \E n \in 0..Len(L) : r = [req EXCEPT !.lines = SubSeq(@, 1, n)]
      BY <3>1, Zenon
    <3>2. CASE \E n \in DOMAIN L : r \in
                 {[req EXCEPT !.lines = Append(SubSeq(@, 1, n - 1), <<@[n][1], v>>)] : v \in Partial(L[n])}
      BY <3>2, Zenon
    <3>. QED
      BY <1>3, <2>0, <3>1, <3>2, Zenon DEF BrokenHeads
  <2>2. r.method = m /\ r.path = p
    BY <1>1, <1>2, <2>1, SMTT(20)
  <2>. QED
    BY <1>1, <2>2, Zenon DEF HeldPath
<1>4. CASE r \in BrokenLines(req)
  <2>1. \/ \E n \in 0..Len(p) : \E x : x = SubSeq(p, 1, n) /\
               r = [req EXCEPT !.path = x, !.params = {}, !.presigned = <<>>, !.lines = <<>>]
        \/ \E x : r = [req EXCEPT !.params = x, !.presigned = <<>>, !.lines = <<>>]
    BY <1>2, <1>4, Zenon DEF BrokenLines
  <2>2. CASE \E n \in 0..Len(p) : \E x : x = SubSeq(p, 1, n) /\
               r = [req EXCEPT !.path = x, !.params = {}, !.presigned = <<>>, !.lines = <<>>]
    <3>1. PICK n \in 0..Len(p) : \E x : x = SubSeq(p, 1, n) /\
               r = [req EXCEPT !.path = x, !.params = {}, !.presigned = <<>>, !.lines = <<>>]
      BY <2>2, Zenon
    <3>0. PICK x : x = SubSeq(p, 1, n) /\
               r = [req EXCEPT !.path = x, !.params = {}, !.presigned = <<>>, !.lines = <<>>]
      BY <3>1, Zenon
    <3>2. r.method = m /\ r.path = x
      BY <1>1, <1>2, <3>0, SMTT(20)
    <3>. QED
      BY <1>1, <3>0, <3>2, Zenon DEF HeldPath
  <2>3. CASE \E x : r = [req EXCEPT !.params = x, !.presigned = <<>>, !.lines = <<>>]
    <3>1. r.method = m /\ r.path = p
      BY <1>1, <1>2, <2>3, SMTT(20)
    <3>. QED
      BY <1>1, <3>1, Zenon DEF HeldPath
  <2>. QED
    BY <2>1, <2>2, <2>3, Zenon
<1>. QED
  BY <1>3, <1>4, Zenon

\* What is sent.
LEMMA SendListings == ServerInv /\ ListingsInv /\ Send => ListingsInv'
<1>. SUFFICES ASSUME ServerInv, ListingsInv, Send PROVE ListingsInv'
  BY Zenon
<1>1. UNCHANGED <<env, objs, listing>> /\ conn.pc = "signed" /\ DOMAIN conn = Fields /\ ConnInv
          /\ conn.pc # "idle"
  <2>1. "signed" # "idle"
    BY SMTT(20)
  <2>. QED
    BY <2>1, Zenon DEF Send, ServerInv, ConnInv
<1>2. conn.cut = "no" /\ conn.page = None /\ Sendable(conn.c)
  <2>1. "signed" \in {"signed", "sent"}
    BY SMTT(20)
  <2>. QED
    BY <1>1, <2>1, ClientIs, Zenon DEF ConnInv, Undecided
<1>3. conn.req = Request(conn.c, conn.req.ask, conn.when)
  BY <1>1, <1>2, Zenon DEF ConnInv, Carried
<1>4. PICK c, ask, when, req : c = conn.c /\ ask = conn.req.ask /\ when = conn.when /\ req = conn.req
  BY Zenon
<1>5. /\ conn'.pc = "sent" /\ conn'.c = conn.c /\ conn'.page = conn.page /\ conn'.todo = conn.todo
      /\ conn'.found = conn.found /\ conn'.handler = conn.handler
      /\ \/ conn'.req = req
         \/ conn'.req \in BrokenHeads(req) \cup BrokenLines(req) /\ conn'.cut # "no"
  <2>. DEFINE D == Delivered(conn.c)
              BH == BrokenHeads(req)
              BL == BrokenLines(req)
  <2>1. PICK gone : gone = (conn.c.fault \in {"cut", "torn"})
    BY Zenon
  <2>2. \/ \E w \in D : conn' = [conn EXCEPT !.pc = "sent", !.got = w, !.gone = gone]
        \/ \E r \in BH : conn' = [conn EXCEPT !.pc = "sent", !.req = r, !.cut = "head", !.gone = TRUE]
        \/ \E r \in BL : conn' = [conn EXCEPT !.pc = "sent", !.req = r, !.cut = "line", !.gone = TRUE]
    BY <1>4, <2>1, Zenon DEF Send
  <2>. HIDE DEF D, BH, BL
  <2>3. /\ conn'.pc = "sent" /\ conn'.c = conn.c /\ conn'.page = conn.page /\ conn'.todo = conn.todo
        /\ conn'.found = conn.found /\ conn'.handler = conn.handler
        /\ conn'.req = req \/ (conn'.req \in BH \cup BL /\ conn'.cut # "no")
    <3>1. CASE \E w \in D : conn' = [conn EXCEPT !.pc = "sent", !.got = w, !.gone = gone]
      BY <1>1, <1>4, <3>1, SMTT(20) DEF Fields
    <3>2. CASE \E r \in BH : conn' = [conn EXCEPT !.pc = "sent", !.req = r, !.cut = "head",
              !.gone = TRUE]
      BY <1>1, <3>2, SMTT(20) DEF Fields
    <3>3. CASE \E r \in BL : conn' = [conn EXCEPT !.pc = "sent", !.req = r, !.cut = "line",
              !.gone = TRUE]
      BY <1>1, <3>3, SMTT(20) DEF Fields
    <3>. QED
      BY <2>2, <3>1, <3>2, <3>3, Zenon
  <2>. QED
    BY <2>3, Zenon DEF BH, BL
<1>6. conn'.req.method = req.method /\ Decode(conn'.req.path) \in Seq(Nat)
  <2>1. req = Request(c, ask, when) /\ Sendable(c)
    BY <1>2, <1>3, <1>4, Zenon
  <2>2. Decode(RawPath(c)) \in Seq(Nat)
    BY <2>1, Decoded, TextIs, Zenon
  <2>3. CASE conn'.req = req
    <3>1. req.path = RawPath(c)
      BY <2>1, SMTT(20) DEF Request
    <3>. QED
      BY <2>2, <2>3, <3>1, Zenon
  <2>4. CASE conn'.req \in BrokenHeads(req) \cup BrokenLines(req)
    <3>1. PICK r : r = conn'.req
      BY Zenon
    <3>0. r \in BrokenHeads(req) \cup BrokenLines(req) /\ req = Request(c, ask, when)
      BY <2>1, <2>4, <3>1, Zenon
    <3>2. r.method = req.method /\ HeldPath(r, c)
      BY <3>0, BrokenPath
    <3>3. Decode(r.path) \in Seq(Nat)
      <4>1. CASE r.path = RawPath(c)
        BY <2>2, <4>1, Zenon
      <4>2. CASE \E n \in 0..Len(RawPath(c)) : r.path = SubSeq(RawPath(c), 1, n)
        <5>1. PICK n \in 0..Len(RawPath(c)) : r.path = SubSeq(RawPath(c), 1, n)
          BY <4>2, Zenon
        <5>2. Decode(SubSeq(RawPath(c), 1, n)) \in Seq(Nat)
          BY <2>1, CutDecodes, Zenon
        <5>. QED
          BY <5>1, <5>2, Zenon
      <4>. QED
        BY <3>2, <4>1, <4>2, Zenon DEF HeldPath
    <3>. QED
      BY <3>1, <3>2, <3>3, Zenon
  <2>. QED
    BY <1>5, <2>3, <2>4, Zenon
<1>7. conn'.pc # "idle" /\ conn'.pc # "walk" /\ conn'.pc \notin {"body", "read"}
  BY <1>5, SMTT(20)
<1>8. Keyed(conn')
  BY <1>5, <1>6, <1>7, Zenon DEF Keyed, ListingsInv
<1>9. PICK x, y, l, w, keys : x = conn /\ y = conn' /\ l = listing /\ w = env /\ keys = DOMAIN objs
  BY Zenon
<1>10. Asking(x) => y.handler \notin Changers
  BY <1>5, <1>9, Zenon DEF ListingsInv, Asks
<1>11. Moves(keys, x, y)
  BY <1>1, <1>2, <1>4, <1>5, <1>6, <1>7, <1>9, <1>10, Zenon DEF Moves
<1>. QED
  BY <1>1, <1>8, <1>9, <1>11, Steady, Zenon

\* A walk: it may miss only keys that are gone.
LEMMA WalkListings == ServerInv /\ ListingsInv /\ Walk => ListingsInv'
<1>. SUFFICES ASSUME ServerInv, ListingsInv, Walk PROVE ListingsInv'
  BY Zenon
<1>1. UNCHANGED <<env, objs, listing>> /\ conn.pc = "walk" /\ DOMAIN conn = Fields
  BY Zenon DEF Walk, ServerInv, ConnInv
<1>2. PICK x, y, keys : x = conn /\ y = conn' /\ keys = DOMAIN objs
  BY Zenon
<1>3. KeySet(keys) /\ KeySet(x.todo) /\ KeySet(x.found) /\ (Asking(x) => x.handler \notin Changers)
  BY <1>2, Zenon DEF ListingsInv, Keyed, Asks
<1>4. \/ \E k \in x.todo \cap keys : conn' = [conn EXCEPT !.todo = x.todo \ {k},
          !.found = x.found \cup {k}]
      \/ \E k \in x.todo \ keys : conn' = [conn EXCEPT !.todo = x.todo \ {k}]
      \/ conn' = [conn EXCEPT !.pc = "answered", !.status = 500]
      \/ \E k \in keys : conn' = [conn EXCEPT !.found = x.found \cup {k}]
  BY <1>2, Zenon DEF Walk, Answer, Listable
<1>5. CASE conn' = [conn EXCEPT !.pc = "answered", !.status = 500]
  <2>1. Rests(conn, conn')
    BY <1>1, <1>5, SMTT(20) DEF Rests, Fields
  <2>. QED
    BY <1>1, <2>1, RestsListings, Zenon
<1>6. ASSUME NEW todo, NEW found, y.todo = todo, y.found = found,
             todo \subseteq x.todo, KeySet(found),
             keys \cap (x.todo \cup x.found) \subseteq todo \cup found,
             y.c = x.c, y.req = x.req, y.cut = x.cut, y.page = x.page, y.handler = x.handler,
                 y.pc = "walk"
      PROVE  ListingsInv'
  <2>1. KeySet(todo)
    BY <1>3, <1>6, FS_Subset, Zenon DEF KeySet
  <2>2. y.pc # "idle" /\ y.pc # "sent" /\ y.pc \notin {"body", "read"} /\ x.pc # "idle"
    BY <1>1, <1>2, <1>6, SMTT(20)
  <2>3. Keyed(y)
    BY <1>6, <2>1, <2>2, Zenon DEF Keyed
  <2>4. Moves(keys, x, y)
    BY <1>1, <1>2, <1>3, <1>6, <2>2, Zenon DEF Moves
  <2>. QED
    BY <1>1, <1>2, <2>3, <2>4, Steady, Zenon
<1>7. ASSUME NEW k \in keys PROVE KeySet(x.found \cup {k})
  <2>1. k \in Seq(Nat)
    BY <1>3, <1>7, Zenon DEF KeySet
  <2>2. IsFiniteSet(x.found \cup {k})
    BY <1>3, FS_AddElement, Zenon DEF KeySet
  <2>. QED
    BY <1>3, <2>1, <2>2, Zenon DEF KeySet
<1>8. ASSUME NEW k \in x.todo \cap keys, conn' = [conn EXCEPT !.todo = x.todo \ {k},
          !.found = x.found \cup {k}]
      PROVE  ListingsInv'
  <2>1. PICK todo, found : todo = x.todo \ {k} /\ found = x.found \cup {k}
    BY Zenon
  <2>2. /\ conn'.todo = todo /\ conn'.found = found
        /\ conn'.c = conn.c /\ conn'.req = conn.req /\ conn'.cut = conn.cut /\ conn'.page = conn.page
        /\ conn'.handler = conn.handler /\ conn'.pc = "walk"
    <3>1. conn' = [conn EXCEPT !.todo = todo, !.found = found]
      BY <1>8, <2>1, Zenon
    <3>. QED
      BY <1>1, <3>1, SMTT(20) DEF Fields
  <2>3. todo \subseteq x.todo /\ KeySet(found)
            /\ keys \cap (x.todo \cup x.found) \subseteq todo \cup found
    BY <1>7, <1>8, <2>1, Zenon
  <2>. QED
    BY <1>2, <1>6, <2>2, <2>3, Zenon
<1>9. ASSUME NEW k \in x.todo \ keys, conn' = [conn EXCEPT !.todo = x.todo \ {k}]
      PROVE  ListingsInv'
  <2>1. PICK todo : todo = x.todo \ {k}
    BY Zenon
  <2>2. /\ conn'.todo = todo /\ conn'.found = conn.found
        /\ conn'.c = conn.c /\ conn'.req = conn.req /\ conn'.cut = conn.cut /\ conn'.page = conn.page
        /\ conn'.handler = conn.handler /\ conn'.pc = "walk"
    <3>1. conn' = [conn EXCEPT !.todo = todo]
      BY <1>9, <2>1, Zenon
    <3>. QED
      BY <1>1, <3>1, SMTT(20) DEF Fields
  <2>3. todo \subseteq x.todo /\ keys \cap (x.todo \cup x.found) \subseteq todo \cup x.found
    BY <1>9, <2>1, Zenon
  <2>. QED
    BY <1>2, <1>3, <1>6, <2>2, <2>3, Zenon
<1>10. ASSUME NEW k \in keys, conn' = [conn EXCEPT !.found = x.found \cup {k}]
       PROVE  ListingsInv'
  <2>1. PICK found : found = x.found \cup {k}
    BY Zenon
  <2>2. /\ conn'.todo = conn.todo /\ conn'.found = found
        /\ conn'.c = conn.c /\ conn'.req = conn.req /\ conn'.cut = conn.cut /\ conn'.page = conn.page
        /\ conn'.handler = conn.handler /\ conn'.pc = "walk"
    <3>1. conn' = [conn EXCEPT !.found = found]
      BY <1>10, <2>1, Zenon
    <3>. QED
      BY <1>1, <3>1, SMTT(20) DEF Fields
  <2>3. KeySet(found) /\ keys \cap (x.todo \cup x.found) \subseteq x.todo \cup found
    BY <1>7, <1>10, <2>1, Zenon
  <2>. QED
    BY <1>2, <1>6, <2>2, <2>3, Zenon
<1>. QED
  BY <1>4, <1>5, <1>8, <1>9, <1>10, Zenon

\* The page made of it.
LEMMA ListPageListings == ServerInv /\ ListingsInv /\ ListPage => ListingsInv'
<1>. SUFFICES ASSUME ServerInv, ListingsInv, ListPage PROVE ListingsInv'
  BY Zenon
<1>1. UNCHANGED <<env, objs, listing>> /\ conn.pc = "walk" /\ conn.todo = {} /\ DOMAIN conn = Fields
  BY Zenon DEF ListPage, ServerInv, ConnInv
<1>2. PICK p : /\ p = Page(conn.found, PageAsk(conn.req.ask))
               /\ conn' = [conn EXCEPT !.pc = "answered", !.status = 200, !.page = p]
  BY Zenon DEF ListPage, PageAsk, Behind
<1>3. PICK x, y, keys : x = conn /\ y = conn' /\ keys = DOMAIN objs
  BY Zenon
<1>4. KeySet(x.todo) /\ KeySet(x.found) /\ (Asking(x) => x.handler \notin Changers)
  BY <1>3, Zenon DEF ListingsInv, Keyed, Asks
<1>5. /\ y.todo = x.todo /\ y.found = x.found /\ y.c = x.c /\ y.req = x.req /\ y.cut = x.cut
      /\ y.handler = x.handler /\ y.page = p /\ y.pc # "idle" /\ y.pc # "sent" /\ y.pc # "walk"
      /\ y.pc \notin {"body", "read"} /\ x.pc # "idle"
  BY <1>1, <1>2, <1>3, SMTT(20) DEF Fields
<1>6. Keyed(y)
  BY <1>4, <1>5, Zenon DEF Keyed
<1>7. Moves(keys, x, y)
  BY <1>1, <1>2, <1>3, <1>4, <1>5, Zenon DEF Moves
<1>. QED
  BY <1>1, <1>3, <1>6, <1>7, Steady, Zenon

\* Only a walk has keys to see, all it can list at first.
Sees(in, h) ==
    h.found = in.found /\ ((h.pc # "walk" /\ h.todo = in.todo) \/ h.todo = Listable(DOMAIN objs))

\* An answer sees none, nor does a reader.
LEMMA AnswerSees ==
  ASSUME NEW in, DOMAIN in = Fields, NEW status, NEW did, NEW rd
  PROVE  /\ Sees(in, Answered(in, status)) /\ Sees(in, [Answered(in, status) EXCEPT !.did = did])
         /\ Sees(in, Reading(in, rd)) /\ Sees(in, [Reading(in, rd) EXCEPT !.status = status])
<1>1. PICK a, r : a = Answered(in, status) /\ r = Reading(in, rd)
  BY Zenon
<1>2. /\ DOMAIN a = Fields /\ a.todo = in.todo /\ a.found = in.found /\ a.pc # "walk"
  BY <1>1, SMTT(20) DEF Answered, Fields
<1>3. /\ DOMAIN r = Fields /\ r.todo = in.todo /\ r.found = in.found /\ r.pc # "walk"
  BY <1>1, SMTT(20) DEF Reading, Fields
<1>4. PICK b, s : b = [a EXCEPT !.did = did] /\ s = [r EXCEPT !.status = status]
  BY Zenon
<1>5. b.todo = in.todo /\ b.found = in.found /\ b.pc # "walk"
  BY <1>2, <1>4, SMTT(20) DEF Fields
<1>6. s.todo = in.todo /\ s.found = in.found /\ s.pc # "walk"
  BY <1>3, <1>4, SMTT(20) DEF Fields
<1>7. Sees(in, a) /\ Sees(in, r) /\ Sees(in, b) /\ Sees(in, s)
  BY <1>2, <1>3, <1>5, <1>6, Zenon DEF Sees
<1>. QED
  BY <1>1, <1>4, <1>7, Zenon

\* What each handler has to see.
LEMMA HandlerSees ==
  ASSUME NEW name, NEW to, NEW req, NEW in, DOMAIN in = Fields
  PROVE  Sees(in, Handler(name, to, req, in))
<1>1. PICK at : at = [in EXCEPT !.handler = name, !.to = to]
  BY Zenon
<1>2. DOMAIN at = Fields /\ at.todo = in.todo /\ at.found = in.found
  BY <1>1, SMTT(20) DEF Fields
<1>3. ASSUME NEW h, Sees(at, h) PROVE Sees(in, h)
  BY <1>2, <1>3, Zenon DEF Sees
<1>4. ASSUME NEW status, NEW did, NEW rd
      PROVE  /\ Sees(in, Answered(at, status)) /\ Sees(in, [Answered(at, status) EXCEPT !.did = did])
             /\ Sees(in, Reading(at, rd)) /\ Sees(in, [Reading(at, rd) EXCEPT !.status = status])
  BY <1>2, <1>3, AnswerSees, Zenon
<1>5. Sees(in, PutObject(to, req, at)) /\ Sees(in, DeleteObjects(req, at))
  <2>1. PICK status, r, b : /\ status = IF Here(to) THEN 400 ELSE 404
                            /\ r = PutReader(req, at.got) /\ b = BodyReader(req, at.got)
    BY Zenon
  <2>2. Sees(in, Reading(at, r)) /\ Sees(in, Reading(at, b))
            /\ Sees(in, [Reading(at, b) EXCEPT !.status = status])
    BY <1>4, Zenon
  <2>. QED
    BY <2>1, <2>2, Zenon DEF PutObject, DeleteObjects
<1>6. ASSUME NEW headOnly PROVE Sees(in, GetObject(to, req, at, headOnly))
  <2>1. CASE There(to)
    <3>0. PICK file : file = objs[Target(to.key)]
      BY Zenon
    <3>1. PICK span : span = Span(Get(req.lines, "range"), Len(file))
      BY Zenon
    <3>2. PICK pc : pc = IF span.status = 416 \/ headOnly THEN "answered" ELSE "send"
      BY Zenon
    <3>3. PICK h : h = [at EXCEPT !.pc = pc, !.got = <<>>, !.file = file, !.status = span.status,
                                  !.start = span.start, !.size = span.length, !.remaining = span.length]
      BY Zenon
    <3>4. GetObject(to, req, at, headOnly) = h
      BY <2>1, <3>0, <3>1, <3>2, <3>3, Zenon DEF GetObject
    <3>5. h.todo = in.todo /\ h.found = in.found /\ h.pc = pc
      BY <1>2, <3>3, SMTT(20) DEF Fields
    <3>6. pc # "walk"
      BY <3>2, SMTT(20)
    <3>. QED
      BY <3>4, <3>5, <3>6, Zenon DEF Sees
  <2>2. CASE ~There(to)
    <3>1. PICK status : status = IF headOnly THEN 200 ELSE 500
      BY Zenon
    <3>2. GetObject(to, req, at, headOnly) = IF Opens(to) THEN Answered(at, status) ELSE Answered(at, 404)
      BY <2>2, <3>1, Zenon DEF GetObject
    <3>3. Sees(in, Answered(at, status)) /\ Sees(in, Answered(at, 404))
      BY <1>4, Zenon
    <3>. QED
      BY <3>2, <3>3, Zenon
  <2>. QED
    BY <2>1, <2>2, Zenon
<1>7. Sees(in, DeleteObject(to, at))
  <2>1. PICK did, status : /\ did = {<<k, None>> : k \in Unlinked(to.key) \cap DOMAIN objs}
                           /\ status = IF Opens(to) THEN 500 ELSE 204
    BY Zenon
  <2>2. CASE There(to)
    <3>1. PICK code : code = 204
      BY Zenon
    <3>2. DeleteObject(to, at) = [Answered(at, code) EXCEPT !.did = did]
      BY <2>1, <2>2, <3>1, Zenon DEF DeleteObject
    <3>3. Sees(in, [Answered(at, code) EXCEPT !.did = did])
      BY <1>4, Zenon
    <3>. QED
      BY <3>2, <3>3, Zenon
  <2>3. CASE ~There(to)
    <3>1. DeleteObject(to, at) = IF Here(to) THEN Answered(at, status) ELSE Answered(at, 404)
      BY <2>1, <2>3, Zenon DEF DeleteObject
    <3>2. Sees(in, Answered(at, status)) /\ Sees(in, Answered(at, 404))
      BY <1>4, Zenon
    <3>. QED
      BY <3>1, <3>2, Zenon
  <2>. QED
    BY <2>2, <2>3, Zenon
<1>8. Sees(in, ListObjects(to, at))
  <2>1. PICK h, keys : keys = Listable(DOMAIN objs) /\ h = [at EXCEPT !.pc = "walk", !.todo = keys, !.got = <<>>]
    BY Zenon
  <2>2. h.todo = keys /\ h.found = in.found
    BY <1>2, <2>1, SMTT(20) DEF Fields
  <2>3. Sees(in, h)
    BY <2>1, <2>2, Zenon DEF Sees
  <2>. QED
    BY <1>4, <2>1, <2>3, Zenon DEF ListObjects
<1>. QED
  BY <1>1, <1>4, <1>5, <1>6, <1>7, <1>8, Zenon DEF Handler

\* A request that is let in or refused.
LEMMA AcceptListings == ServerInv /\ BodyInv /\ ListingsInv /\ Accept => ListingsInv'
<1>. SUFFICES ASSUME ServerInv, BodyInv, ListingsInv, Accept PROVE ListingsInv'
  BY Zenon
<1>1. UNCHANGED <<env, listing>> /\ conn.pc = "sent" /\ DOMAIN conn = Fields /\ Embodied(conn, env)
  BY Zenon DEF Accept, ServerInv, ConnInv, BodyInv
<1>2. conn.pc # "idle" /\ conn.page = None /\ Unserved(conn)
  <2>1. "sent" \in {"signed", "sent"} /\ "sent" # "idle"
    BY SMTT(20)
  <2>. QED
    BY <1>1, <2>1, Zenon DEF ServerInv, ConnInv, Undecided, Embodied
<1>3. PICK verdict, to, name, in :
         /\ verdict = Authenticate(conn.req, Now(clock), env.anonymous)
         /\ to = Addressing(Get(conn.req.lines, "host"), Decode(conn.req.path))
         /\ name = Route(conn.req, to)
         /\ in = [conn EXCEPT !.accepted = TRUE]
  BY Zenon
<1>4. \/ verdict = 200 /\ conn' = Handler(name, to, conn.req, in)
          /\ objs' = Without({d[1] : d \in conn'.did})
      \/ verdict # 200 /\ conn' = Answered(conn, verdict) /\ objs' = objs
  BY <1>3, Zenon DEF Accept, Now
<1>5. CASE verdict # 200 /\ conn' = Answered(conn, verdict) /\ objs' = objs
  <2>1. Rests(conn, conn')
    BY <1>1, <1>5, SMTT(20) DEF Rests, Fields, Answered
  <2>. QED
    BY <1>1, <1>5, <2>1, RestsListings, Zenon
<1>6. CASE verdict = 200 /\ conn' = Handler(name, to, conn.req, in)
          /\ objs' = Without({d[1] : d \in conn'.did})
  <2>1. /\ DOMAIN in = Fields /\ in.did = {} /\ in.sent = <<>> /\ in.got = conn.got
               /\ in.page = conn.page
        /\ in.c = conn.c /\ in.cut = conn.cut /\ in.req = conn.req /\ in.todo = conn.todo
               /\ in.found = conn.found
    BY <1>1, <1>2, <1>3, SMTT(20) DEF Fields, Unserved
  <2>2. /\ Kept(in, conn') /\ conn'.handler = name /\ conn'.to = to /\ conn'.page = in.page
        /\ conn'.pc \in {"answered", "body", "send"} \/ (conn'.pc = "walk" /\ name = "listObjects")
    BY <1>6, <2>1, HandlerServes, SMTT(20)
  <2>3. conn'.c = conn.c /\ conn'.cut = conn.cut /\ conn'.req = conn.req /\ conn'.page = None
    BY <1>2, <2>1, <2>2, Zenon DEF Kept
  <2>4. conn'.pc # "idle" /\ conn'.pc # "sent"
    BY <2>2, SMTT(20)
  <2>5. Begun(name, to, conn.req, conn.got, conn')
    <3>1. PICK req : req = conn.req
      BY Zenon
    <3>2. Begun(name, to, req, in.got, Handler(name, to, req, in))
      BY <2>1, HandlerBegins, Zenon
    <3>. QED
      BY <1>6, <2>1, <3>1, <3>2, Zenon
  <2>6. Sees(in, conn')
    BY <1>6, <2>1, HandlerSees, Zenon
  <2>7. PICK x, y, l, w, keys, more :
           x = conn /\ y = conn' /\ l = listing /\ w = env /\ keys = DOMAIN objs /\ more = DOMAIN objs'
    BY Zenon
  <2>8. KeySet(keys) /\ KeySet(x.todo) /\ KeySet(x.found) /\ Decode(x.req.path) \in Seq(Nat)
        /\ (Asking(x) => x.req.method = "GET") /\ (Following(l, x) => Asking(x))
    BY <1>1, <1>2, <2>7, Zenon DEF ListingsInv, Keyed, Asks, Following
  <2>9. Asking(x) => name \notin Changers
    <3>1. PICK req : req = x.req
      BY Zenon
    <3>2. req.method = "GET" => Route(req, to) \notin Changers
      BY GetChangesNothing, Zenon
    <3>. QED
      BY <1>3, <2>7, <2>8, <3>1, <3>2, Zenon
  <2>10. to.key \in Seq(Nat)
    <3>1. PICK host, path : host = Get(x.req.lines, "host") /\ path = Decode(x.req.path)
      BY Zenon
    <3>. QED
      BY <1>3, <2>7, <2>8, <3>1, AddressIsKey, Zenon
  <2>0. KeySet(Listable(keys))
    <3>1. Listable(keys) \subseteq keys
      BY ListableIn, Zenon
    <3>. QED
      BY <2>8, <3>1, FS_Subset, Zenon DEF KeySet
  <2>11. Keyed(y)
    BY <2>0, <2>1, <2>2, <2>4, <2>6, <2>7, <2>8, <2>10, Zenon DEF Keyed, Sees
  <2>12. Moves(keys, x, y)
    <3>1. y.pc = "walk" => Listable(keys) \subseteq y.todo \cup y.found
      BY <2>6, <2>7, Zenon DEF Sees
    <3>. QED
      BY <1>2, <2>2, <2>3, <2>4, <2>7, <2>9, <3>1, Zenon DEF Moves
  <2>13. KeySet(more) /\ (Following(l, x) => more = keys)
    <3>1. PICK gone : gone = {d[1] : d \in conn'.did}
      BY Zenon
    <3>2. more = keys \ gone /\ KeySet(more)
      BY <1>6, <2>7, <2>8, <3>1, WithoutKeys, Zenon
    <3>3. Asking(x) => conn'.did = {}
      <4>1. "deleteObject" \in Changers
        BY SMTT(20) DEF Changers
      <4>. QED
        BY <2>5, <2>9, <4>1, Zenon DEF Begun
    <3>4. Asking(x) => gone = {}
      BY <3>1, <3>3, Zenon
    <3>. QED
      BY <2>8, <3>2, <3>4, Zenon
  <2>. QED
    BY <1>1, <2>7, <2>11, <2>12, <2>13, Steady, Zenon
<1>. QED
  BY <1>4, <1>5, <1>6, Zenon

\* A listing l takes the page p that follows, of the keys F, and becomes m.
Takes(l, m, a, F, p) ==
    /\ a = l.c.ask /\ Askable(a) /\ Told(l)
    /\ l.next = None => l.pages = <<>>
    /\ l.next # None => l.next \in Seq(Nat) /\ l.next \in l.markers /\ l.pages # <<>>
    /\ KeySet(F) /\ Listable(l.kept) \subseteq F /\ p = Page(F, Behind(a, NextFrom(l)))
    /\ m.next = p.next /\ m.pages = Append(l.pages, p.entries) /\ l.markers \subseteq m.markers
    /\ m.c = l.c /\ m.kept = l.kept

\* The page joins those of the listing.
LEMMA PageTold ==
  ASSUME NEW l, NEW m, NEW a, NEW F, NEW p, Takes(l, m, a, F, p)
  PROVE  Told(m) /\ (p.next # None => p.next \in Seq(Nat)) /\ m.pages # <<>>
<1>. SUFFICES ASSUME a = l.c.ask, Askable(a), Told(l),
                     l.next = None => l.pages = <<>>,
                     l.next # None => l.next \in Seq(Nat) /\ l.next \in l.markers /\ l.pages # <<>>,
                     KeySet(F), Listable(l.kept) \subseteq F, p = Page(F, Behind(a, NextFrom(l))),
                     m.next = p.next, m.pages = Append(l.pages, p.entries),
                         l.markers \subseteq m.markers,
                     m.c = l.c, m.kept = l.kept
              PROVE  Told(m) /\ (p.next # None => p.next \in Seq(Nat)) /\ m.pages # <<>>
  BY Zenon DEF Takes
<1>1. PICK q : q = Behind(a, NextFrom(l))
  BY Zenon
<1>2. /\ q.prefix = a.prefix /\ q.marker = NextFrom(l) /\ q.max \in Nat /\ a.prefix \in Seq(Nat)
  BY <1>1, SMTT(20) DEF Behind, Askable
<1>3. F \in SUBSET Seq(Nat) /\ IsFiniteSet(F)
  BY Zenon DEF KeySet
<1>4. PICK E, M : E = p.entries /\ M = Matching(F, q)
  BY Zenon
<1>5. \A k : Entry(k, q) = Entry(k, a)
  BY <1>1, EntryOf, Zenon
<1>6. /\ p.next = None => \A k \in M : Entry(k, a) \in E
      /\ p.next # None => p.next \in M /\ \A k \in M : Before(k, p.next) => Entry(k, a) \in E
      /\ \A e \in E : \E k \in M : Entry(k, a) = e
             /\ (p.next # None => Before(k, p.next) /\ Entry(p.next, a) # e)
  <2>0. p = Page(F, q) /\ q.max \in Nat
    BY <1>1, <1>2, Zenon
  <2>1. /\ p.next = None => \A k \in M : Entry(k, q) \in E
        /\ p.next # None => p.next \in M /\ \A k \in M : Before(k, p.next) => Entry(k, q) \in E
        /\ \A e \in E : \E k \in M : Entry(k, q) = e
               /\ (p.next # None => Before(k, p.next) /\ Entry(p.next, q) # e)
    BY <1>3, <1>4, <2>0, PageIs
  <2>. QED
    BY <1>5, <2>1, Zenon
<1>7. \A k \in M : k \in F /\ k \in Seq(Nat) /\ IsPrefix(a.prefix, k)
          /\ (l.next # None => Before(l.next, k))
  BY <1>2, <1>3, <1>4, Zenon DEF Matching, NextFrom
<1>8. l.pages \in Seq(SUBSET Entries(a))
  <2>1. <<>> \in Seq(SUBSET Entries(a))
    BY SMTT(20)
  <2>. QED
    BY <2>1, Zenon DEF Told
<1>9. E \in SUBSET Entries(a)
  BY <1>6, <1>7, Zenon DEF Entries
<1>10. PICK n \in Nat : n = Len(l.pages)
  BY <1>8, SMTT(20)
<1>11. /\ m.pages \in Seq(SUBSET Entries(a)) /\ m.pages # <<>>
       /\ DOMAIN m.pages = 1..(n + 1) /\ DOMAIN l.pages = 1..n
       /\ \A i \in 1..n : m.pages[i] = l.pages[i]
       /\ m.pages[n + 1] = E
  <2>1. PICK S, s, t : S = SUBSET Entries(a) /\ s = l.pages /\ t = m.pages
    BY Zenon
  <2>2. s \in Seq(S) /\ t = Append(s, E) /\ E \in S /\ n = Len(s)
    BY <1>4, <1>8, <1>9, <1>10, <2>1, Zenon
  <2>3. t \in Seq(S) /\ t # <<>> /\ DOMAIN t = 1..(n + 1) /\ DOMAIN s = 1..n
    BY <2>2, SMTT(20)
  <2>4. (\A i \in 1..n : t[i] = s[i]) /\ t[n + 1] = E
    BY <2>2, SMTT(20)
  <2>. QED
    BY <2>1, <2>3, <2>4, Zenon
<1>12. 1..(n + 1) = 1..n \cup {n + 1} /\ n + 1 \in 1..(n + 1)
  BY SMTT(20)
<1>13. \A i \in 1..n : \A e \in l.pages[i] :
          /\ l.next # None /\ Entry(l.next, a) # e
          /\ \E k \in Seq(Nat) : Entry(k, a) = e /\ Before(k, l.next)
  <2>1. SUFFICES ASSUME NEW i \in 1..n
                 PROVE  l.next # None /\ \A e \in l.pages[i] :
                           Entry(l.next, a) # e /\ \E k \in Seq(Nat) : Entry(k, a) = e
                               /\ Before(k, l.next)
    BY Zenon
  <2>2. l.pages # <<>>
    BY <1>10, SMTT(20)
  <2>. QED
    BY <1>11, <2>1, <2>2, Zenon DEF Told, Past
<1>14. Covered(m)
  <2>1. PICK own : own = PageAsk(a)
    BY Zenon
  <2>2. own.prefix = a.prefix /\ (l.next = None => own = q)
    <3>1. PageAsk(a).prefix = a.prefix
      BY SMTT(20) DEF PageAsk, Behind
    <3>. QED
      BY <1>1, <2>1, <3>1, Zenon DEF PageAsk, NextFrom
  <2>3. SUFFICES ASSUME NEW k \in Matching(Listable(l.kept), own), k \notin m.markers,
                        p.next = None \/ Before(k, p.next)
                 PROVE  Entry(k, a) \in UNION ToSet(m.pages)
    BY <2>1, Zenon DEF Covered
  <2>4. k \in Listable(l.kept) /\ k \in F /\ k \in Seq(Nat) /\ IsPrefix(a.prefix, k) /\ k \notin l.markers
    BY <1>3, <2>2, <2>3, Zenon DEF Matching
  <2>5. ASSUME k \in M PROVE Entry(k, a) \in UNION ToSet(m.pages)
    <3>1. Entry(k, a) \in E
      BY <1>6, <2>3, <2>5, Zenon
    <3>2. E \in ToSet(m.pages)
      BY <1>11, <1>12, Zenon DEF ToSet
    <3>. QED
      BY <3>1, <3>2, Zenon
  <2>6. CASE l.next = None
    <3>1. Matching(Listable(l.kept), own) \subseteq M
      BY <1>4, <2>2, <2>6, Zenon DEF Matching
    <3>. QED
      BY <2>3, <2>5, <3>1, Zenon
  <2>7. CASE l.next # None
    <3>1. k # l.next
      BY <2>4, <2>7, Zenon
    <3>2. CASE Before(l.next, k)
      <4>1. k \in M
        BY <1>2, <1>4, <2>4, <2>7, <3>2, Zenon DEF Matching, NextFrom
      <4>. QED
        BY <2>5, <4>1, Zenon
    <3>3. CASE Before(k, l.next)
      <4>1. Covered(l)
        BY <2>7, Zenon DEF Told
      <4>2. Entry(k, a) \in UNION ToSet(l.pages)
        BY <2>1, <2>3, <2>4, <3>3, <4>1, Zenon DEF Covered
      <4>3. ToSet(l.pages) \subseteq ToSet(m.pages)
        BY <1>11, <1>12, Zenon DEF ToSet
      <4>. QED
        BY <4>2, <4>3, Zenon
    <3>. QED
      BY <2>4, <2>7, <3>1, <3>2, <3>3, BeforeTotal, Zenon
  <2>. QED
    BY <2>6, <2>7, Zenon
<1>15. Past(m)
  <2>1. SUFFICES ASSUME p.next # None
                 PROVE  /\ IsPrefix(a.prefix, p.next)
                        /\ \A i \in 1..(n + 1) : \A e \in m.pages[i] :
                              Entry(p.next, a) # e /\ \E k \in Seq(Nat) : Entry(k, a) = e
                                  /\ Before(k, p.next)
    BY <1>11, Zenon DEF Past
  <2>2. p.next \in Seq(Nat) /\ IsPrefix(a.prefix, p.next) /\ (l.next # None => Before(l.next, p.next))
    BY <1>6, <1>7, <2>1, Zenon
  <2>3. ASSUME NEW i \in 1..n, NEW e \in l.pages[i]
        PROVE  Entry(p.next, a) # e /\ \E k \in Seq(Nat) : Entry(k, a) = e /\ Before(k, p.next)
    <3>1. l.next # None /\ Entry(l.next, a) # e /\ l.next \in Seq(Nat) /\ Before(l.next, p.next)
      BY <1>13, <2>2, <2>3, Zenon
    <3>2. PICK k \in Seq(Nat) : Entry(k, a) = e /\ Before(k, l.next)
      BY <1>13, <2>3, Zenon
    <3>3. Before(k, p.next)
      BY <2>2, <3>1, <3>2, BeforeTransitive, Zenon
    <3>4. ASSUME Entry(p.next, a) = e PROVE FALSE
      <4>1. PICK t, u : t = l.next /\ u = p.next
        BY Zenon
      <4>2. t \in Seq(Nat) /\ u \in Seq(Nat) /\ Before(k, t) /\ Before(t, u)
                /\ Entry(k, a) = Entry(u, a)
        BY <2>2, <3>1, <3>2, <3>4, <4>1, Zenon
      <4>3. Entry(t, a) = Entry(k, a)
        BY <1>2, <4>2, EntryBetween
      <4>. QED
        BY <3>1, <3>2, <4>1, <4>3, Zenon
    <3>. QED
      BY <3>1, <3>2, <3>3, <3>4, Zenon
  <2>4. ASSUME NEW e \in E
        PROVE  Entry(p.next, a) # e /\ \E k \in Seq(Nat) : Entry(k, a) = e /\ Before(k, p.next)
    BY <1>6, <1>7, <2>1, <2>4, Zenon
  <2>. QED
    BY <1>11, <1>12, <2>2, <2>3, <2>4, Zenon
<1>16. Disjoint(m)
  <2>1. SUFFICES ASSUME NEW i \in 1..(n + 1), NEW j \in 1..(n + 1), i < j
                 PROVE  m.pages[i] \cap m.pages[j] = {}
    BY <1>11, Zenon DEF Disjoint
  <2>2. i \in 1..n
    BY <2>1, SMTT(20)
  <2>3. CASE j = n + 1
    <3>1. SUFFICES ASSUME NEW e \in l.pages[i], e \in E PROVE FALSE
      BY <1>11, <2>2, <2>3, Zenon
    <3>2. l.next # None /\ Entry(l.next, a) # e /\ l.next \in Seq(Nat)
      BY <1>13, <2>2, <3>1, Zenon
    <3>3. PICK k \in Seq(Nat) : Entry(k, a) = e /\ Before(k, l.next)
      BY <1>13, <2>2, <3>1, Zenon
    <3>4. PICK u \in M : Entry(u, a) = e
      BY <1>6, <3>1, Zenon
    <3>5. u \in Seq(Nat) /\ Before(l.next, u)
      BY <1>7, <3>2, <3>4, Zenon
    <3>6. Entry(l.next, a) = e
      <4>1. PICK t : t = l.next
        BY Zenon
      <4>2. t \in Seq(Nat) /\ Before(k, t) /\ Before(t, u) /\ Entry(k, a) = Entry(u, a)
        BY <3>2, <3>3, <3>4, <3>5, <4>1, Zenon
      <4>3. Entry(t, a) = Entry(k, a)
        BY <1>2, <3>5, <4>2, EntryBetween
      <4>. QED
        BY <3>3, <4>1, <4>3, Zenon
    <3>. QED
      BY <3>2, <3>6, Zenon
  <2>4. CASE j # n + 1
    <3>1. j \in 1..n
      BY <2>1, <2>4, SMTT(20)
    <3>2. l.pages # <<>>
      BY <1>10, <2>2, SMTT(20)
    <3>3. l.pages[i] \cap l.pages[j] = {}
      BY <1>11, <2>1, <2>2, <3>1, <3>2, Zenon DEF Told, Disjoint
    <3>. QED
      BY <1>11, <2>2, <3>1, <3>3, Zenon
  <2>. QED
    BY <2>3, <2>4, Zenon
<1>17. p.next # None => p.next \in Seq(Nat)
  BY <1>6, <1>7, Zenon
<1>. QED
  BY <1>11, <1>14, <1>15, <1>16, <1>17, Zenon DEF Told

\* A page comes only to the client that asked for it.
LEMMA PageForAsker ==
  ASSUME ServerInv, conn.pc = "answered", conn.page # None, ~conn.gone
  PROVE  conn.cut = "no" /\ Asking(conn)
<1>1. ConnInv /\ conn.pc # "idle" /\ Decided
  BY SMTT(20) DEF ServerInv, Decided
<1>2. conn.cut = "no" /\ conn.accepted /\ conn.handler = "listObjects" /\ Intended(conn)
  BY <1>1, Zenon DEF ConnInv, Carried, Judged, Listed
<1>3. conn.c.op = "listObjects"
  BY <1>2, Zenon DEF Intended
<1>. QED
  BY <1>1, <1>2, <1>3, Zenon DEF Asking

\* An answer that is received, a page of a listing among them.
LEMMA ReceiveListings == ServerInv /\ ListingsInv /\ Receive => ListingsInv'
<1>. SUFFICES ASSUME ServerInv, ListingsInv, Receive PROVE ListingsInv'
  BY Zenon
<1>1. /\ UNCHANGED <<env, objs>> /\ conn.pc = "answered" /\ conn.pc # "idle" /\ env \in Worlds
      /\ DOMAIN listing = {"next", "c", "pages", "markers", "kept"}
  <2>1. "answered" # "idle"
    BY SMTT(20)
  <2>. QED
    BY <2>1, Zenon DEF Receive, ServerInv, ClockInv, ListingInv
<1>2. \/ conn' = Idle /\ listing' = listing
      \/ /\ conn.cut = "no" /\ listing' = listing
         /\ conn' = [Idle EXCEPT !.pc = "signed", !.c = conn.c, !.when = conn.when,
                                 !.req = conn.req, !.age = conn.age]
      \/ /\ conn' = Idle /\ conn.page # None /\ ~conn.gone
         /\ listing' = [listing EXCEPT !.next = conn.page.next, !.pages = Append(@, conn.page.entries),
                                       !.markers = @ \cup ({conn.page.next} \ {None})]
  BY Zenon DEF Receive
<1>4. CASE conn' = Idle /\ listing' = listing
  BY <1>1, <1>4, IdleListings, Zenon
<1>5. CASE /\ conn.cut = "no" /\ listing' = listing
           /\ conn' = [Idle EXCEPT !.pc = "signed", !.c = conn.c, !.when = conn.when,
                                   !.req = conn.req, !.age = conn.age]
  <2>3. PICK x, y, l, w, keys : x = conn /\ y = conn' /\ l = listing /\ w = env /\ keys = DOMAIN objs
    BY Zenon
  <2>4. /\ y.pc = "signed" /\ y.c = x.c /\ y.req = x.req /\ y.cut = "no" /\ y.page = None
        /\ y.todo = {} /\ y.found = {} /\ y.pc # "idle" /\ y.pc # "sent" /\ y.pc # "walk"
        /\ y.pc \notin {"body", "read"} /\ y.handler \notin Changers
    BY <1>5, <2>3, SMTT(20) DEF Idle, Changers
  <2>5. Keyed(y)
    <3>1. KeySet({})
      BY FS_EmptySet, Zenon DEF KeySet
    <3>. QED
      BY <2>4, <3>1, Zenon DEF Keyed
  <2>6. Moves(keys, x, y)
    BY <1>1, <1>5, <2>3, <2>4, Zenon DEF Moves
  <2>. QED
    BY <1>1, <1>5, <2>3, <2>5, <2>6, Steady, Zenon
<1>6. CASE /\ conn' = Idle /\ conn.page # None /\ ~conn.gone
           /\ listing' = [listing EXCEPT !.next = conn.page.next,
                  !.pages = Append(@, conn.page.entries),
                                         !.markers = @ \cup ({conn.page.next} \ {None})]
  <2>1. conn.cut = "no" /\ Asking(conn)
    BY <1>1, <1>6, PageForAsker, Zenon
  <2>2. PICK x, y, l, m, w, keys, p, a :
           /\ x = conn /\ y = conn' /\ l = listing /\ m = listing' /\ w = env /\ keys = DOMAIN objs
           /\ p = conn.page /\ a = listing.c.ask
    BY Zenon
  <2>3. KeySet(keys) /\ Asks(l, x, w) /\ Finds(l, keys, x) /\ Told(l) /\ Following(l, x)
    BY <2>1, <2>2, Zenon DEF ListingsInv, Following
  <2>4. /\ m.next = p.next /\ m.pages = Append(l.pages, p.entries)
               /\ m.markers = l.markers \cup ({p.next} \ {None})
        /\ m.c = l.c /\ m.kept = l.kept
    <3>1. PICK next, pages, markers :
             /\ next = p.next /\ pages = Append(l.pages, p.entries)
                    /\ markers = l.markers \cup ({p.next} \ {None})
      BY Zenon
    <3>2. m = [l EXCEPT !.next = next, !.pages = pages, !.markers = markers]
      BY <1>6, <2>2, <3>1, Zenon
    <3>3. m.next = next /\ m.pages = pages /\ m.markers = markers /\ m.c = l.c /\ m.kept = l.kept
      BY <1>1, <2>2, <3>2, SMTT(20)
    <3>. QED
      BY <3>1, <3>3, Zenon
  <2>5. /\ l.c \in w.sends /\ l.c.op = "listObjects" /\ PageAsk(x.req.ask) = Behind(a, NextFrom(l))
        /\ l.next = None => l.pages = <<>>
        /\ l.next # None => l.next \in Seq(Nat) /\ l.next \in l.markers /\ l.pages # <<>>
    BY <2>1, <2>2, <2>3, Zenon DEF Asks
  <2>6. Askable(a)
    BY <1>1, <2>2, <2>5, ListingAssumption, Zenon
  <2>7. PICK F : KeySet(F) /\ Listable(l.kept) \subseteq F /\ p = Page(F, Behind(a, NextFrom(l)))
    <3>1. Paged(Listable(l.kept), x) /\ x.page = p /\ p # None
      BY <1>6, <2>1, <2>2, <2>3, Zenon DEF Finds
    <3>. QED
      BY <2>5, <3>1, Zenon DEF Paged
  <2>8. Told(m) /\ (p.next # None => p.next \in Seq(Nat)) /\ m.pages # <<>>
    <3>1. a = l.c.ask /\ l.markers \subseteq m.markers
      BY <2>2, <2>4, Zenon
    <3>2. Takes(l, m, a, F, p)
      BY <2>3, <2>4, <2>5, <2>6, <2>7, <3>1, Zenon DEF Takes
    <3>. QED
      BY <3>2, PageTold, Zenon
  <2>9. Idle.pc = "idle" /\ Idle.todo = {} /\ Idle.found = {} /\ "idle" # "sent"
            /\ "idle" \notin {"body", "read"}
    BY SMTT(20) DEF Idle
  <2>10. ~Asking(y) /\ Keyed(y) /\ y.pc = "idle"
    <3>1. KeySet({})
      BY FS_EmptySet, Zenon DEF KeySet
    <3>. QED
      BY <1>6, <2>2, <2>9, <3>1, Zenon DEF Asking, Keyed
  <2>11. m.next # None => m.next \in m.markers
    BY <2>4, Zenon
  <2>12. Asks(m, y, w)
    BY <2>4, <2>5, <2>8, <2>10, <2>11, Zenon DEF Asks
  <2>13. Finds(m, keys, y)
    BY <2>3, <2>4, <2>10, Zenon DEF Finds
  <2>. QED
    BY <1>1, <2>2, <2>3, <2>8, <2>10, <2>12, <2>13, Zenon DEF ListingsInv
<1>. QED
  BY <1>2, <1>4, <1>5, <1>6, Zenon

\* It is inductive, together with what is shown before.
THEOREM ListingsInvariant == Spec => []ListingsInv
<1>1. Init => ListingsInv
  BY InitListings
<1>2. ServerInv /\ BodyInv /\ ListingsInv /\ [Next]_vars => ListingsInv'
  <2>. SUFFICES ASSUME ServerInv, BodyInv, ListingsInv, [Next]_vars PROVE ListingsInv'
    BY Zenon
  <2>1. CASE Serve
    BY <2>1, AcceptListings, ReadListings, CommitListings, DeleteListings, SendBlockListings,
        WalkListings,
       ListPageListings, Zenon DEF Serve
  <2>2. CASE SignRequest \/ Send \/ Receive \/ Hangup \/ Change \/ Tick
    BY <2>2, SignListings, SendListings, ReceiveListings, HangupListings, ChangeListings, TickListings,
        Zenon
  <2>3. CASE UNCHANGED vars
    BY <2>3, Zenon DEF vars, ListingsInv
  <2>. QED
    BY <2>1, <2>2, <2>3, Zenon DEF Next
<1>. QED
  BY <1>1, <1>2, ServerInvariant, BodyInvariant, PTL DEF Spec

\* No key and no common prefix is on two pages of a listing, for any keys, any
\* prefix, delimiter and page size, whatever other clients change.
THEOREM PagesDoNotOverlap == Spec => []NothingListedTwice
<1>1. ListingsInv => NothingListedTwice
  <2>. SUFFICES ASSUME ListingsInv PROVE NothingListedTwice
    BY Zenon
  <2>1. CASE listing.pages = <<>>
    <3>1. listing.pages = <<>> => DOMAIN listing.pages = {}
      BY SMTT(20)
    <3>. QED
      BY <2>1, <3>1, Zenon DEF NothingListedTwice
  <2>2. CASE listing.pages # <<>>
    BY <2>2, Zenon DEF ListingsInv, Told, Disjoint, NothingListedTwice
  <2>. QED
    BY <2>1, <2>2, Zenon
<1>. QED
  BY <1>1, ListingsInvariant, PTL

\* A listing followed to its end has listed every key that was there all along, but
\* for those the server returned as markers and those that end as temporary files do.
THEOREM PagesMissOnlyMarkers == Spec => []PagesLoseOnlyMarkers
<1>1. ListingsInv => PagesLoseOnlyMarkers
  <2>. SUFFICES ASSUME ListingsInv, listing.pages # <<>>, listing.next = None,
                       NEW k \in Matching(Listable(listing.kept), [prefix |-> listing.c.ask.prefix,
                                                                   marker |-> Marker(listing.c.ask)]),
                       k \notin listing.markers
                PROVE  Entry(k, listing.c.ask) \in UNION ToSet(listing.pages)
    BY Zenon DEF PagesLoseOnlyMarkers
  <2>1. PICK q, s : q = PageAsk(listing.c.ask) /\ s = [prefix |-> listing.c.ask.prefix,
            marker |-> Marker(listing.c.ask)]
    BY Zenon
  <2>2. q.prefix = s.prefix /\ q.marker = s.marker
    BY <2>1, SMTT(20) DEF PageAsk, Behind
  <2>3. Matching(Listable(listing.kept), q) = Matching(Listable(listing.kept), s)
    BY <2>2, Zenon DEF Matching
  <2>4. Covered(listing)
    BY Zenon DEF ListingsInv, Told
  <2>. QED
    BY <2>1, <2>3, <2>4, Zenon DEF Covered
<1>. QED
  BY <1>1, ListingsInvariant, PTL

----------------------------------------------------------------------------
(* Types.                                                                  *)

\* The statuses of answers, 0 before one is known.
Statuses == {0, 200, 204, 206, 400, 403, 404, 405, 416, 500, 501}
Offsets == 0..(Word - 1)

\* A connection, whatever it carries.
Sound(x) ==
    /\ x.status \in Statuses /\ x.start \in Offsets /\ x.remaining \in Offsets
    /\ x.todo \cap x.found = {}
    /\ x.pc \in {"idle", "signed", "sent"} => x.rd = None /\ x.found = {}
    /\ x.rd # None => x.pc # "idle" /\ x.got \in Seq(Stuff(x.c)) /\ x.rd.pos <= Len(x.rd.buf)
    /\ x.pc \in {"body", "read"} /\ Putting(x) => ValidKey(x.to.key)

\* What is still to come is not more than there was.
Counted ==
    /\ DOMAIN bounds = {"requests", "changes", "ticks"}
    /\ bounds.requests \in 0..env.requests /\ bounds.changes \in 0..env.changes
    /\ bounds.ticks \in 0..env.ticks

\* The types that are inductive next to the invariants above.
TypesInv == Laid(DOMAIN objs) /\ Counted /\ Sound(conn)

\* A request that no handler has is sound if nothing was read of it.
LEMMA IdleSound ==
  ASSUME NEW x, x.status = 0, x.start = 0, x.remaining = 0, x.todo = {}, x.found = {}, x.rd = None,
         x.pc \in {"idle", "signed"}
  PROVE  Sound(x)
<1>1. 0 \in Statuses /\ 0 \in Offsets
  BY WordAssumption, SMTT(20) DEF Statuses, Offsets
<1>2. x.pc \notin {"body", "read"}
  BY SMTT(20)
<1>. QED
  BY <1>1, <1>2, Zenon DEF Sound

\* What a step leaves of it.
Leaves(x, y) ==
    /\ y.start = x.start /\ y.remaining = x.remaining /\ y.todo = x.todo /\ y.found = x.found
    /\ y.rd = x.rd /\ y.got = x.got /\ y.c = x.c /\ y.to = x.to /\ y.handler = x.handler
    /\ y.pc \in {"idle", "signed", "sent"} => x.pc \in {"idle", "signed", "sent"}
    /\ x.pc # "idle" => y.pc # "idle"

\* An answer, or a step that changes nothing of this.
LEMMA StaysSound ==
  ASSUME NEW x, Sound(x), NEW y, Leaves(x, y), y.status \in Statuses,
         y.pc \in {"body", "read"} => x.pc \in {"body", "read"} /\ y.status = x.status
  PROVE  Sound(y)
  BY Zenon DEF Sound, Leaves, Putting

\* The object's tree stays one when a key is put that fits,
LEMMA LaidWith ==
  ASSUME Laid(DOMAIN objs), KeySet(DOMAIN objs), NEW key \in Seq(Nat), ValidKey(key), Fits(key)
  PROVE  Laid(DOMAIN objs \cup {key})
<1>1. PICK keys : keys = DOMAIN objs
  BY Zenon
<1>2. keys \subseteq Seq(Nat) /\ Laid(keys)
  BY <1>1, Zenon DEF KeySet
<1>3. /\ \A k \in keys : ~(IsPrefix(k \o <<Slash>>, key))
      /\ \A k \in keys : IsStrictPrefix(key, k) => k[Len(key) + 1] # Slash
  BY <1>1, Zenon DEF Fits, Directory
<1>4. Slash \in Nat
  BY SMTT(20) DEF Slash
<1>5. ~IsPrefix(key \o <<Slash>>, key)
  BY <1>4, SMTT(20) DEF IsPrefix
<1>6. ASSUME NEW k \in keys PROVE ~IsPrefix(key \o <<Slash>>, k)
  <2>1. k \in Seq(Nat)
    BY <1>2, Zenon
  <2>2. PICK q : q = key \o <<Slash>>
    BY Zenon
  <2>3. q \in Seq(Nat) /\ Len(q) = Len(key) + 1 /\ Len(key) \in Nat /\ q[Len(key) + 1] = Slash
        /\ \A i \in 1..Len(key) : q[i] = key[i]
    BY <1>4, <2>2, SMTT(20)
  <2>4. SUFFICES ASSUME Len(q) <= Len(k), SubSeq(q, 1, Len(q)) = SubSeq(k, 1, Len(q)) PROVE FALSE
    BY <2>2, Zenon DEF IsPrefix
  <2>5. ASSUME NEW i \in 1..Len(q) PROVE k[i] = q[i]
    <3>1. SubSeq(q, 1, Len(q))[i] = q[i] /\ SubSeq(k, 1, Len(q))[i] = k[i]
      BY <2>1, <2>3, <2>4, SMTT(20)
    <3>. QED
      BY <2>4, <3>1, Zenon
  <2>6. k[Len(key) + 1] = Slash
    BY <2>3, <2>5, SMTT(20)
  <2>7. SubSeq(key, 1, Len(key)) = SubSeq(k, 1, Len(key))
    <3>1. \A i \in 1..Len(key) : key[i] = k[i]
      BY <2>3, <2>5, SMTT(20)
    <3>. QED
      BY <2>1, <2>3, <2>4, <3>1, SMTT(20)
  <2>8. key # k
    BY <2>3, <2>4, SMTT(20)
  <2>9. IsStrictPrefix(key, k)
    <3>1. Len(key) <= Len(k)
      BY <2>1, <2>3, <2>4, SMTT(20)
    <3>. QED
      BY <2>7, <2>8, <3>1, Zenon DEF IsStrictPrefix, IsPrefix
  <2>. QED
    BY <1>3, <2>6, <2>9, Zenon
<1>. QED
  BY <1>1, <1>2, <1>3, <1>5, <1>6, Zenon DEF Laid

\* and when some go.
LEMMA LaidLess ==
  ASSUME NEW keys, Laid(keys), NEW fewer, fewer \subseteq keys
  PROVE  Laid(fewer)
  BY Zenon DEF Laid

\* A line of one name says one thing.
Says(l, n, v) == Lines(l) /\ \A i \in DOMAIN l : l[i][1] = n => l[i][2] = v

\* So do the lines of two parts of a head.
LEMMA SaysBoth ==
  ASSUME NEW a, NEW b, NEW n, NEW v, Says(a, n, v), Says(b, n, v)
  PROVE  Says(a \o b, n, v)
<1>1. PICK S, T : a \in Seq(S) /\ b \in Seq(T)
  BY Zenon DEF Says, Lines
<1>2. PICK U : U = S \cup T
  BY Zenon
<1>3. a \in Seq(U) /\ b \in Seq(U)
  BY <1>1, <1>2, SMTT(20)
<1>4. PICK l : l = a \o b
  BY Zenon
<1>5. l \in Seq(U)
  BY <1>3, <1>4, SMTT(20)
<1>6. ASSUME NEW i \in DOMAIN l
      PROVE  (i \in DOMAIN a /\ l[i] = a[i]) \/ \E j \in DOMAIN b : l[i] = b[j]
  <2>1. i \in 1..(Len(a) + Len(b)) /\ Len(a) \in Nat /\ Len(b) \in Nat
    BY <1>3, <1>4, <1>6, SMTT(20)
  <2>2. CASE i <= Len(a)
    BY <1>3, <1>4, <2>1, <2>2, SMTT(20)
  <2>3. CASE i > Len(a)
    <3>1. PICK j : j = i - Len(a)
      BY Zenon
    <3>2. j \in DOMAIN b /\ l[i] = b[j]
      BY <1>3, <1>4, <2>1, <2>3, <3>1, SMTT(20)
    <3>. QED
      BY <3>2, Zenon
  <2>. QED
    BY <2>1, <2>2, <2>3, SMTT(20)
<1>7. \A i \in DOMAIN l : l[i][1] = n => l[i][2] = v
  BY <1>6, Zenon DEF Says
<1>. QED
  BY <1>4, <1>5, <1>7, Zenon DEF Says, Lines

\* So does a line, if it is of another name or says it, and none.
LEMMA SaysOne ==
  ASSUME NEW if, NEW name, NEW value, NEW n, NEW v, if /\ name = n => value = v
  PROVE  Says(Line(if, name, value), n, v)
<1>1. PICK l : l = Line(if, name, value)
  BY Zenon
<1>2. CASE if
  <2>1. l = << <<name, value>> >>
    BY <1>1, <1>2, Zenon DEF Line
  <2>2. PICK p : p = <<name, value>>
    BY Zenon
  <2>3. l \in Seq({p}) /\ \A i \in DOMAIN l : l[i] = p
    BY <2>1, <2>2, SMTT(20)
  <2>4. p[1] = name /\ p[2] = value
    BY <2>2, SMTT(20)
  <2>5. name = n => value = v
    BY <1>2, Zenon
  <2>6. \A i \in DOMAIN l : l[i][1] = n => l[i][2] = v
    BY <2>3, <2>4, <2>5, Zenon
  <2>. QED
    BY <1>1, <2>3, <2>6, Zenon DEF Says, Lines
<1>3. CASE ~if
  <2>1. l = <<>>
    BY <1>1, <1>3, Zenon DEF Line
  <2>2. l \in Seq({}) /\ DOMAIN l = {}
    BY <2>1, SMTT(20)
  <2>. QED
    BY <1>1, <2>2, Zenon DEF Says, Lines
<1>. QED
  BY <1>2, <1>3, Zenon

\* Numbers of a word, or no range.
OffsetRange(range) == range = None \/ (range.from \in Offsets /\ (range.to = None \/ range.to \in Offsets))

\* A head's line of a range says the one its client asks for.
LEMMA RangeLine ==
  ASSUME NEW c, NEW v, c.range # None => v = c.range
  PROVE  Says(HeadLines(c), "range", v)
<1>1. /\ "host" # "range" /\ "x-amz-content-sha256" # "range" /\ "content-encoding" # "range"
      /\ "x-amz-copy-source" # "range"
  BY SMTT(20)
<1>2. PICK a, b, d, e, f, g :
         /\ a = Line(TRUE, "host", IF c.hosted THEN c.bucket ELSE None)
         /\ b = Line(c.framing = "streaming", "x-amz-content-sha256", "STREAMING")
         /\ d = Line(c.framing \in {"trailer", "fixed"}, "x-amz-content-sha256",
                     IF c.framing = "trailer" THEN "TRAILER" ELSE "DIGEST")
         /\ e = Line(c.framing \in {"streaming", "chunked"}, "content-encoding", "aws-chunked")
         /\ f = Line(c.op = "copyObject", "x-amz-copy-source", c.key)
         /\ g = Line(c.range # None, "range", c.range)
  BY Zenon
<1>3. /\ Says(a, "range", v) /\ Says(b, "range", v) /\ Says(d, "range", v)
      /\ Says(e, "range", v) /\ Says(f, "range", v) /\ Says(g, "range", v)
  BY <1>1, <1>2, SaysOne, Zenon
<1>4. PICK ab : ab = a \o b
  BY Zenon
<1>5. PICK abd : abd = ab \o d
  BY Zenon
<1>6. PICK abde : abde = abd \o e
  BY Zenon
<1>7. PICK abdef : abdef = abde \o f
  BY Zenon
<1>8. HeadLines(c) = abdef \o g
  BY <1>2, <1>4, <1>5, <1>6, <1>7, Zenon DEF HeadLines
<1>. QED
  BY <1>3, <1>4, <1>5, <1>6, <1>7, <1>8, SaysBoth, Zenon

\* Of one that breaks off an earlier end is left, or none.
LEMMA PartialRange ==
  ASSUME NEW range, range # None, OffsetRange(range), NEW line, line[1] = "range", line[2] = range,
         NEW v \in Partial(line)
  PROVE  OffsetRange(v)
<1>0. "range" # "content-length"
  BY SMTT(20)
<1>1. PICK ends : ends = {None} \cup IF range.to = None THEN {} ELSE 0..range.to
  BY Zenon
<1>2. v = None \/ \E n \in ends : v = [range EXCEPT !.to = n]
  BY <1>0, <1>1, Zenon DEF Partial
<1>3. ASSUME NEW n \in ends PROVE n = None \/ n \in Offsets
  <2>1. CASE n \in 0..range.to /\ range.to # None
    <3>1. range.to \in Offsets
      BY <2>1, Zenon DEF OffsetRange
    <3>. QED
      BY <2>1, <3>1, WordAssumption, SMTT(20) DEF Offsets
  <2>. QED
    BY <1>1, <2>1, Zenon
<1>4. ASSUME NEW n \in ends, v = [range EXCEPT !.to = n] PROVE OffsetRange(v)
  <2>1. DOMAIN v = DOMAIN range
    BY <1>4, Zenon
  <2>. QED
    BY <1>3, <1>4, SMTT(20) DEF OffsetRange
<1>. QED
  BY <1>2, <1>4, Zenon DEF OffsetRange

\* The range of a head, whole or broken off.
LEMMA RangeIs ==
  ASSUME NEW c, OffsetRange(c.range), NEW l, Headed(l, c)
  PROVE  OffsetRange(Get(l, "range"))
<1>1. PICK H : H = HeadLines(c)
  BY Zenon
<1>2. Says(H, "range", c.range) /\ (c.range = None => Says(H, "range", 0) /\ Says(H, "range", 1))
  BY <1>1, RangeLine, Zenon
<1>3. PICK S : l \in Seq(S)
  BY Zenon DEF Headed, Lines
<1>4. CASE Has(l, "range")
  <2>1. ASSUME NEW i \in DOMAIN l, l[i][1] = "range" PROVE OffsetRange(l[i][2])
    <3>1. CASE i <= Len(H)
      <4>1. i \in DOMAIN H
        BY <1>2, <1>3, <3>1, SMTT(20) DEF Says, Lines
      <4>2. H[i][1] = "range"
        BY <1>1, <2>1, <3>1, Zenon DEF Headed
      <4>3. H[i][2] = c.range /\ (c.range = None => H[i][2] = 0 /\ H[i][2] = 1)
        BY <1>2, <4>1, <4>2, Zenon DEF Says
      <4>4. c.range # None
        BY <4>3, SMTT(20)
      <4>5. l[i] = H[i] \/ l[i][2] \in Partial(H[i])
        BY <1>1, <3>1, Zenon DEF Headed
      <4>6. ASSUME l[i][2] \in Partial(H[i]) PROVE OffsetRange(l[i][2])
        <5>1. PICK line, range, v : line = H[i] /\ range = c.range /\ v = l[i][2]
          BY Zenon
        <5>2. range # None /\ OffsetRange(range) /\ line[1] = "range" /\ line[2] = range /\ v \in Partial(line)
          BY <4>2, <4>3, <4>4, <4>6, <5>1, Zenon
        <5>3. OffsetRange(v)
          BY <5>2, PartialRange, Zenon
        <5>. QED
          BY <5>1, <5>3, Zenon
      <4>. QED
        BY <4>3, <4>5, <4>6, Zenon
    <3>2. CASE ~(i <= Len(H))
      <4>1. l[i][1] = "authorization" \/ l[i][1] = "content-length"
        BY <1>1, <3>2, Zenon DEF Headed
      <4>2. "authorization" # "range" /\ "content-length" # "range"
        BY SMTT(20)
      <4>. QED
        BY <2>1, <4>1, <4>2, Zenon
    <3>. QED
      BY <3>1, <3>2, Zenon
  <2>2. PICK at : at = {i \in DOMAIN l : l[i][1] = "range"}
    BY Zenon
  <2>3. at \in SUBSET (1..Len(l)) /\ at # {} /\ Len(l) \in Nat
    BY <1>3, <1>4, <2>2, SMTT(20) DEF Has
  <2>4. Max(at) \in at
    BY <2>3, MaxIn, Zenon
  <2>5. Get(l, "range") = l[Max(at)][2]
    BY <1>4, <2>2, Zenon DEF Get
  <2>. QED
    BY <2>1, <2>2, <2>4, <2>5, Zenon
<1>5. CASE ~Has(l, "range")
  BY <1>5, Zenon DEF Get, OffsetRange
<1>. QED
  BY <1>4, <1>5, Zenon

\* The statuses of answers to a range.
RangeStatuses == {200, 206, 416}

\* What get_object makes of a range are numbers of a word, whatever the object.
LEMMA SpanFits ==
  ASSUME NEW range, NEW n \in Nat, n < Word, NEW span, span = Span(range, n), OffsetRange(range)
  PROVE  span.start \in Offsets /\ span.length \in Offsets /\ span.status \in RangeStatuses
<1>1. ASSUME NEW m \in Int PROVE m % Word \in Offsets
  BY WordAssumption, SMTT(20) DEF Offsets
<1>2. \A m \in Offsets : m \in Nat
  BY WordAssumption, SMTT(20) DEF Offsets
<1>3. CASE range = None
  <2>1. span = [status |-> 200, start |-> 0, length |-> n]
    BY <1>3, Zenon DEF Span
  <2>2. 0 \in Offsets /\ n \in Offsets
    BY WordAssumption, SMTT(20) DEF Offsets
  <2>3. span.status = 200 /\ span.start = 0 /\ span.length = n
    BY <2>1, SMTT(20)
  <2>4. 200 \in RangeStatuses
    BY SMTT(20) DEF RangeStatuses
  <2>. QED
    BY <2>2, <2>3, <2>4, SMTT(20)
<1>4. CASE range # None
  <2>1. PICK from, to, last, end : /\ from = range.from /\ to = range.to /\ last = (n - 1) % Word
                                   /\ end = IF to = None THEN last ELSE Min2(to, last)
    BY Zenon
  <2>2. from \in Offsets /\ from \in Nat /\ (to = None \/ to \in Nat)
    BY <1>2, <1>4, <2>1, Zenon DEF OffsetRange
  <2>3. last \in Nat
    <3>1. n - 1 \in Int
      BY SMTT(20)
    <3>. QED
      BY <1>1, <1>2, <2>1, <3>1, Zenon
  <2>4. end \in Nat
    BY <2>1, <2>2, <2>3, SMTT(20) DEF Min2
  <2>5. PICK length : length = (end - from + 1) % Word
    BY Zenon
  <2>6. length \in Offsets
    <3>1. end - from + 1 \in Int
      BY <2>2, <2>4, SMTT(20)
    <3>. QED
      BY <1>1, <2>5, <3>1, Zenon
  <2>7. PICK status : status = IF from > end THEN 416 ELSE 206
    BY Zenon
  <2>8. status \in RangeStatuses
    BY <2>7, SMTT(20) DEF RangeStatuses
  <2>9. span = [status |-> status, start |-> from, length |-> length]
    BY <1>4, <2>1, <2>5, <2>7, SMTT(20) DEF Span, Wrap
  <2>10. span.start = from /\ span.length = length /\ span.status = status
    BY <2>9, SMTT(20)
  <2>. QED
    BY <2>2, <2>6, <2>8, <2>10, Zenon
<1>. QED
  BY <1>3, <1>4, Zenon

\* Where a handler leaves a request at first, as far as types go.
Starts(name, to, req, in, h) ==
    /\ h.status \in Statuses
    /\ \/ h.start = in.start /\ h.remaining = in.remaining
       \/ \E k \in DOMAIN objs : LET span == Span(Get(req.lines, "range"), Len(objs[k])) IN
             h.start = span.start /\ h.remaining = span.length
    /\ h.rd = in.rd \/ h.pc = "body"
    /\ h.pc = "body" /\ name = "putObject" /\ h.status = 0 => ValidKey(to.key)

\* Every handler does: a put of a key that is not valid has its status already.
LEMMA HandlerStarts ==
  ASSUME NEW name, NEW to, NEW req, NEW in, DOMAIN in = Fields, in.status \in Statuses,
         \A k \in DOMAIN objs : Span(Get(req.lines, "range"), Len(objs[k])).status \in RangeStatuses
  PROVE  Starts(name, to, req, in, Handler(name, to, req, in))
<1>1. PICK at : at = [in EXCEPT !.handler = name, !.to = to]
  BY Zenon
<1>2. DOMAIN at = Fields /\ at.status = in.status /\ at.start = in.start /\ at.remaining = in.remaining /\ at.rd = in.rd
  BY <1>1, SMTT(20) DEF Fields
<1>4. RangeStatuses \subseteq Statuses
  BY SMTT(20) DEF RangeStatuses, Statuses
<1>5. ASSUME NEW status \in Statuses
      PROVE  Starts(name, to, req, in, Answered(at, status))
  <2>1. PICK h : h = Answered(at, status)
    BY Zenon
  <2>2. h.pc # "body" /\ h.status = status /\ h.start = in.start /\ h.remaining = in.remaining /\ h.rd = in.rd
    BY <1>2, <2>1, SMTT(20) DEF Answered, Fields
  <2>3. Starts(name, to, req, in, h)
    BY <2>2, Zenon DEF Starts
  <2>. QED
    BY <2>1, <2>3, Zenon
<1>6. ASSUME NEW rd, name # "putObject" \/ ValidKey(to.key)
      PROVE  Starts(name, to, req, in, Reading(at, rd))
  <2>1. PICK h : h = Reading(at, rd)
    BY Zenon
  <2>2. h.pc = "body" /\ h.status = in.status /\ h.start = in.start /\ h.remaining = in.remaining
    BY <1>2, <2>1, SMTT(20) DEF Reading, Fields
  <2>3. Starts(name, to, req, in, h)
    BY <1>6, <2>2, Zenon DEF Starts
  <2>. QED
    BY <2>1, <2>3, Zenon
<1>7. ASSUME name = "putObject" PROVE Starts(name, to, req, in, PutObject(to, req, at))
  <2>1. CASE Here(to) /\ ValidKey(to.key)
    BY <1>6, <2>1, Zenon DEF PutObject
  <2>2. CASE ~(Here(to) /\ ValidKey(to.key))
    <3>0. PICK status : status = IF Here(to) THEN 400 ELSE 404
      BY SMTT(20)
    <3>1. PICK q : q = Reading(at, BodyReader(req, at.got))
      BY Zenon
    <3>2. status \in Statuses /\ status # 0
      BY <3>0, SMTT(20) DEF Statuses
    <3>3. DOMAIN q = Fields /\ q.pc = "body" /\ q.start = in.start /\ q.remaining = in.remaining
      BY <1>2, <3>1, SMTT(20) DEF Reading, Fields
    <3>4. PICK h : h = [q EXCEPT !.status = status]
      BY Zenon
    <3>5. h.pc = "body" /\ h.status = status /\ h.start = in.start /\ h.remaining = in.remaining
      BY <3>3, <3>4, SMTT(20) DEF Fields
    <3>6. Starts(name, to, req, in, h)
      BY <3>2, <3>5, Zenon DEF Starts
    <3>7. PutObject(to, req, at) = h
      BY <2>2, <3>0, <3>1, <3>4, SMTT(20) DEF PutObject
    <3>. QED
      BY <3>6, <3>7, Zenon
  <2>. QED
    BY <2>1, <2>2, Zenon
<1>8. ASSUME NEW headOnly PROVE Starts(name, to, req, in, GetObject(to, req, at, headOnly))
  <2>1. CASE There(to)
    <3>1. PICK k, span : k = Target(to.key) /\ span = Span(Get(req.lines, "range"), Len(objs[k]))
      BY Zenon
    <3>2. PICK pc : pc = IF span.status = 416 \/ headOnly THEN "answered" ELSE "send"
      BY SMTT(20)
    <3>3. PICK h : h = [at EXCEPT !.pc = pc, !.got = <<>>, !.file = objs[k], !.status = span.status,
                                  !.start = span.start, !.size = span.length, !.remaining = span.length]
      BY Zenon
    <3>4. GetObject(to, req, at, headOnly) = h
      BY <2>1, <3>1, <3>2, <3>3, Zenon DEF GetObject
    <3>5. h.pc = pc /\ h.status = span.status /\ h.start = span.start /\ h.remaining = span.length /\ h.rd = in.rd
      BY <1>2, <3>3, SMTT(20) DEF Fields
    <3>6. pc # "body"
      BY <3>2, SMTT(20)
    <3>7. k \in DOMAIN objs
      BY <2>1, <3>1, Zenon DEF There
    <3>8. span.status \in Statuses
      BY <1>4, <3>1, <3>7, Zenon
    <3>9. Starts(name, to, req, in, h)
      BY <3>1, <3>5, <3>6, <3>7, <3>8, Zenon DEF Starts
    <3>. QED
      BY <3>4, <3>9, Zenon
  <2>2. CASE ~There(to)
    <3>1. PICK status : status = IF Opens(to) THEN IF headOnly THEN 200 ELSE 500 ELSE 404
      BY Zenon
    <3>2. GetObject(to, req, at, headOnly) = Answered(at, status)
      BY <2>2, <3>1, Zenon DEF GetObject
    <3>3. status \in Statuses
      BY <3>1, SMTT(20) DEF Statuses
    <3>. QED
      BY <1>5, <3>2, <3>3, Zenon
  <2>. QED
    BY <2>1, <2>2, Zenon
<1>9. Starts(name, to, req, in, DeleteObject(to, at))
  <2>0. PICK status : status = 204
    BY Zenon
  <2>1. PICK h, did : did = {<<k, None>> : k \in Unlinked(to.key) \cap DOMAIN objs} /\ h = [Answered(at, status) EXCEPT !.did = did]
    BY Zenon
  <2>2. h.pc # "body" /\ h.status = status /\ h.start = in.start /\ h.remaining = in.remaining /\ h.rd = in.rd
    BY <1>2, <2>1, SMTT(20) DEF Answered, Fields
  <2>3. Starts(name, to, req, in, h)
    <3>1. status \in Statuses
      BY <2>0, SMTT(20) DEF Statuses
    <3>. QED
      BY <2>2, <3>1, Zenon DEF Starts
  <2>4. PICK other : other = IF Here(to) THEN IF Opens(to) THEN 500 ELSE 204 ELSE 404
    BY Zenon
  <2>5. other \in Statuses
    BY <2>4, SMTT(20) DEF Statuses
  <2>6. DeleteObject(to, at) = h \/ DeleteObject(to, at) = Answered(at, other)
    <3>1. CASE There(to)
      BY <2>0, <2>1, <3>1, Zenon DEF DeleteObject
    <3>2. CASE ~There(to)
      BY <2>4, <3>2, Zenon DEF DeleteObject, There
    <3>. QED
      BY <3>1, <3>2, Zenon
  <2>. QED
    BY <1>5, <2>3, <2>5, <2>6, Zenon
<1>10. Starts(name, to, req, in, ListObjects(to, at))
  <2>1. PICK h : h = [at EXCEPT !.pc = "walk", !.todo = Listable(DOMAIN objs), !.got = <<>>]
    BY Zenon
  <2>2. h.pc # "body" /\ h.status = in.status /\ h.start = in.start /\ h.remaining = in.remaining /\ h.rd = in.rd
    BY <1>2, <2>1, SMTT(20) DEF Fields
  <2>3. Starts(name, to, req, in, h)
    BY <2>2, Zenon DEF Starts
  <2>. QED
    <3>1. ListObjects(to, at) = h \/ \E other \in Statuses : ListObjects(to, at) = Answered(at, other)
      BY <2>1, SMTT(20) DEF ListObjects, Statuses
    <3>. QED
      BY <1>5, <2>3, <3>1, Zenon
<1>11. name # "putObject" => Starts(name, to, req, in, DeleteObjects(req, at))
  BY <1>6, Zenon DEF DeleteObjects
<1>12. 200 \in Statuses /\ (name \in DOMAIN Refusals => Refusals[name] \in Statuses)
  BY SMTT(20) DEF Refusals, Statuses
<1>13. "deleteObjects" # "putObject"
  BY SMTT(20)
<1>. QED
  BY <1>1, <1>5, <1>7, <1>8, <1>9, <1>10, <1>11, <1>12, <1>13, Zenon DEF Handler

\* What authentication says is a status.
LEMMA VerdictIs == ASSUME NEW req, NEW now, NEW anonymous PROVE Authenticate(req, now, anonymous) \in Statuses
<1>1. CheckPresigned(req, now) \in Statuses
  BY SMTT(20) DEF CheckPresigned, ParsePresigned, Statuses
<1>2. CheckHeader(req) \in Statuses
  BY SMTT(20) DEF CheckHeader, ParseAuthorization, Statuses
<1>3. 200 \in Statuses
  BY SMTT(20) DEF Statuses
<1>. QED
  BY <1>1, <1>2, <1>3, Zenon DEF Authenticate

\* A step of the connection, which may change objects.
LEMMA SoundStep ==
  ASSUME TypesInv, UNCHANGED <<env, bounds>>, Sound(conn'), objs' = objs \/ Laid(DOMAIN objs')
  PROVE  TypesInv'
<1>1. Laid(DOMAIN objs')
  BY Zenon DEF TypesInv
<1>2. Counted'
  BY Zenon DEF TypesInv, Counted
<1>. QED
  BY <1>1, <1>2, Zenon DEF TypesInv

\* An answer, or a step that changes nothing of types.
LEMMA LeftStep ==
  ASSUME TypesInv, UNCHANGED <<env, bounds>>, Leaves(conn, conn'), conn'.status \in Statuses \cup {conn.status},
         conn'.pc \in {"body", "read"} => conn.pc \in {"body", "read"} /\ conn'.status = conn.status,
         objs' = objs \/ Laid(DOMAIN objs')
  PROVE  TypesInv'
<1>1. PICK x, y : x = conn /\ y = conn'
  BY Zenon
<1>2. Sound(x)
  BY <1>1, Zenon DEF TypesInv
<1>3. y.status \in Statuses
  BY <1>1, <1>2, Zenon DEF Sound
<1>4. Sound(y)
  BY <1>1, <1>2, <1>3, StaysSound, Zenon
<1>. QED
  BY <1>1, <1>4, SoundStep, Zenon

\* What is left of the requests.
LEMMA OneLess ==
  ASSUME env \in Worlds, Counted, NEW f \in {"requests", "changes", "ticks"}, bounds[f] > 0, env' = env,
         bounds' = [bounds EXCEPT ![f] = @ - 1]
  PROVE  Counted'
<1>1. PICK b, n : b = bounds /\ n = bounds[f] - 1
  BY Zenon
<1>2. DOMAIN b = {"requests", "changes", "ticks"} /\ bounds' = [b EXCEPT ![f] = n]
  BY <1>1, Zenon DEF Counted
<1>3. \A g \in {"requests", "changes", "ticks"} : bounds'[g] = IF g = f THEN n ELSE b[g]
  BY <1>2, Zenon
<1>4. DOMAIN bounds' = {"requests", "changes", "ticks"}
  BY <1>2, Zenon
<1>5. b["requests"] \in 0..env.requests /\ b["changes"] \in 0..env.changes /\ b["ticks"] \in 0..env.ticks
  BY <1>1, Zenon DEF Counted
<1>6. ASSUME NEW m \in Nat, bounds[f] \in 0..m PROVE n \in 0..m
  BY <1>1, <1>6, SMTT(20)
<1>7. /\ bounds'["requests"] \in 0..env.requests /\ bounds'["changes"] \in 0..env.changes
      /\ bounds'["ticks"] \in 0..env.ticks
  <2>1. env.requests \in Nat /\ env.changes \in Nat /\ env.ticks \in Nat
    BY StoreAssumption, Zenon
  <2>. QED
    BY <1>1, <1>3, <1>5, <1>6, <2>1, Zenon
<1>. QED
  BY <1>4, <1>7, Zenon DEF Counted

\* It holds where every behaviour starts.
LEMMA InitTypes == Init => TypesInv
<1>. SUFFICES ASSUME Init PROVE TypesInv
  BY Zenon
<1>1. env \in Worlds /\ objs = env.store /\ conn = Idle
      /\ bounds = [requests |-> env.requests, changes |-> env.changes, ticks |-> env.ticks]
  BY Zenon DEF Init
<1>2. Laid(DOMAIN objs) /\ env.requests \in Nat /\ env.changes \in Nat /\ env.ticks \in Nat
  BY <1>1, StoreAssumption, Zenon
<1>3. DOMAIN bounds = {"requests", "changes", "ticks"} /\ bounds.requests = env.requests
      /\ bounds.changes = env.changes /\ bounds.ticks = env.ticks
  BY <1>1, SMTT(20)
<1>4. Counted
  BY <1>2, <1>3, SMTT(20) DEF Counted
<1>5. /\ Idle.status = 0 /\ Idle.start = 0 /\ Idle.remaining = 0 /\ Idle.todo = {} /\ Idle.found = {}
      /\ Idle.rd = None /\ Idle.pc \in {"idle", "signed"}
  BY SMTT(20) DEF Idle
<1>6. Sound(conn)
  BY <1>1, <1>5, IdleSound, Zenon
<1>. QED
  BY <1>2, <1>4, <1>6, Zenon DEF TypesInv

\* A request that is signed, or sent once more.
LEMMA SignedSound ==
  ASSUME NEW c, NEW when, NEW age, NEW req
  PROVE  Sound([Idle EXCEPT !.pc = "signed", !.c = c, !.when = when, !.age = age, !.req = req])
<1>1. PICK x : x = [Idle EXCEPT !.pc = "signed", !.c = c, !.when = when, !.age = age, !.req = req]
  BY Zenon
<1>2. x.status = 0 /\ x.start = 0 /\ x.remaining = 0 /\ x.todo = {} /\ x.found = {} /\ x.rd = None /\ x.pc = "signed"
  BY <1>1, SMTT(20) DEF Idle
<1>3. Sound(x)
  BY <1>2, IdleSound, Zenon
<1>. QED
  BY <1>1, <1>3, Zenon

\* The connection that carries nothing is sound.
LEMMA NothingSound == Sound(Idle)
<1>1. /\ Idle.status = 0 /\ Idle.start = 0 /\ Idle.remaining = 0 /\ Idle.todo = {} /\ Idle.found = {}
      /\ Idle.rd = None /\ Idle.pc \in {"idle", "signed"}
  BY SMTT(20) DEF Idle
<1>. QED
  BY <1>1, IdleSound, Zenon

\* A client signs,
LEMMA SignTypes == ServerInv /\ TypesInv /\ SignRequest => TypesInv'
<1>. SUFFICES ASSUME ServerInv, TypesInv, SignRequest PROVE TypesInv'
  BY Zenon
<1>1. \E c, when, age, req : conn' = [Idle EXCEPT !.pc = "signed", !.c = c, !.when = when, !.age = age, !.req = req]
  <2>. DEFINE asked(c) == IF listing.next = None THEN c.ask
                          ELSE IF c.ask.v2 THEN [c.ask EXCEPT !.token = listing.next]
                          ELSE [c.ask EXCEPT !.marker = listing.next]
              at(c) == [date |-> IF c.skew = 0 THEN date ELSE NextDay(date), sec |-> clock.sec]
  <2>1. PICK c : conn' = [Idle EXCEPT !.pc = "signed", !.c = c, !.when = at(c),
                                      !.age = IF c.skew = 0 THEN 0 ELSE -DaySeconds, !.req = Request(c, asked(c), at(c))]
    BY Zenon DEF SignRequest
  <2>2. PICK when, age, req : /\ when = at(c) /\ req = Request(c, asked(c), at(c))
                              /\ age = IF c.skew = 0 THEN 0 ELSE -DaySeconds
    BY Zenon
  <2>. QED
    BY <2>1, <2>2, Zenon
<1>2. Sound(conn')
  <2>1. PICK c, when, age, req :
           conn' = [Idle EXCEPT !.pc = "signed", !.c = c, !.when = when, !.age = age, !.req = req]
    BY <1>1, Zenon
  <2>2. Sound([Idle EXCEPT !.pc = "signed", !.c = c, !.when = when, !.age = age, !.req = req])
    BY SignedSound, Zenon
  <2>. QED
    BY <2>1, <2>2, Zenon
<1>3. UNCHANGED <<env, objs>> /\ bounds.requests > 0 /\ bounds' = [bounds EXCEPT !.requests = @ - 1]
  BY Zenon DEF SignRequest
<1>4. "requests" \in {"requests", "changes", "ticks"}
  BY Zenon
<1>5. Counted'
  BY <1>3, <1>4, OneLess, Zenon DEF TypesInv, ServerInv, ClockInv
<1>. QED
  BY <1>2, <1>3, <1>5, Zenon DEF TypesInv

\* and receives, or sends once more.
LEMMA ReceiveTypes == ServerInv /\ TypesInv /\ Receive => TypesInv'
<1>. SUFFICES ASSUME ServerInv, TypesInv, Receive PROVE TypesInv'
  BY Zenon
<1>1. UNCHANGED <<env, objs>>
  BY Zenon DEF Receive
<1>2. CASE conn' = Idle /\ bounds' = bounds
  BY <1>1, <1>2, NothingSound, SoundStep, Zenon
<1>3. CASE /\ bounds.requests > 0 /\ bounds' = [bounds EXCEPT !.requests = @ - 1]
           /\ conn' = [Idle EXCEPT !.pc = "signed", !.c = conn.c, !.when = conn.when,
                                   !.req = conn.req, !.age = conn.age]
  <2>1. PICK x : x = conn'
    BY Zenon
  <2>2. /\ x.status = 0 /\ x.start = 0 /\ x.remaining = 0 /\ x.todo = {} /\ x.found = {} /\ x.rd = None
        /\ x.pc \in {"idle", "signed"}
    BY <1>3, <2>1, SMTT(20) DEF Idle
  <2>3. Sound(conn')
    BY <2>1, <2>2, IdleSound, Zenon
  <2>4. "requests" \in {"requests", "changes", "ticks"}
    BY Zenon
  <2>5. Counted'
    BY <1>1, <1>3, <2>4, OneLess, Zenon DEF TypesInv, ServerInv, ClockInv
  <2>. QED
    BY <1>1, <2>3, <2>5, Zenon DEF TypesInv
<1>. QED
  BY <1>2, <1>3, Zenon DEF Receive

\* What is sent is not read yet.
LEMMA SendTypes == ServerInv /\ TypesInv /\ Send => TypesInv'
<1>. SUFFICES ASSUME ServerInv, TypesInv, Send PROVE TypesInv'
  BY Zenon
<1>1. UNCHANGED <<env, objs, bounds>> /\ conn.pc = "signed" /\ DOMAIN conn = Fields
  BY Zenon DEF Send, ServerInv, ConnInv
<1>2. PICK x, y : x = conn /\ y = conn'
  BY Zenon
<1>3. \/ \E w, g : y = [x EXCEPT !.pc = "sent", !.got = w, !.gone = g]
      \/ \E r, h : y = [x EXCEPT !.pc = "sent", !.req = r, !.cut = h, !.gone = TRUE]
  BY <1>2, Zenon DEF Send
<1>4. /\ y.pc = "sent" /\ y.status = x.status /\ y.start = x.start /\ y.remaining = x.remaining
      /\ y.todo = x.todo /\ y.found = x.found /\ y.rd = x.rd
  <2>1. CASE \E w, g : y = [x EXCEPT !.pc = "sent", !.got = w, !.gone = g]
    <3>1. PICK w, g : y = [x EXCEPT !.pc = "sent", !.got = w, !.gone = g]
      BY <2>1, Zenon
    <3>. QED
      BY <1>1, <1>2, <3>1, SMTT(20) DEF Fields
  <2>2. CASE \E r, h : y = [x EXCEPT !.pc = "sent", !.req = r, !.cut = h, !.gone = TRUE]
    <3>1. PICK r, h : y = [x EXCEPT !.pc = "sent", !.req = r, !.cut = h, !.gone = TRUE]
      BY <2>2, Zenon
    <3>. QED
      BY <1>1, <1>2, <3>1, SMTT(20) DEF Fields
  <2>. QED
    BY <1>3, <2>1, <2>2, Zenon
<1>5. Sound(x) /\ x.pc \in {"idle", "signed", "sent"}
  BY <1>1, <1>2, Zenon DEF TypesInv
<1>6. y.pc \notin {"body", "read"}
  BY <1>4, SMTT(20)
<1>7. Sound(y)
  BY <1>4, <1>5, <1>6, Zenon DEF Sound
<1>. QED
  BY <1>1, <1>2, <1>7, SoundStep, Zenon

\* The client leaves.
LEMMA HangupTypes == ServerInv /\ TypesInv /\ Hangup => TypesInv'
<1>. SUFFICES ASSUME ServerInv, TypesInv, Hangup PROVE TypesInv'
  BY Zenon
<1>1. UNCHANGED <<env, objs, bounds>> /\ conn' = [conn EXCEPT !.gone = TRUE] /\ DOMAIN conn = Fields
  BY Zenon DEF Hangup, ServerInv, ConnInv
<1>2. Leaves(conn, conn') /\ conn'.pc = conn.pc /\ conn'.status = conn.status
  BY <1>1, SMTT(20) DEF Leaves, Fields
<1>. QED
  BY <1>1, <1>2, LeftStep, Zenon

\* Time passes.
LEMMA TickTypes == ServerInv /\ TypesInv /\ Tick => TypesInv'
<1>. SUFFICES ASSUME ServerInv, TypesInv, Tick PROVE TypesInv'
  BY Zenon
<1>1. UNCHANGED <<env, objs>> /\ bounds.ticks > 0 /\ bounds' = [bounds EXCEPT !.ticks = @ - 1] /\ DOMAIN conn = Fields
  BY Zenon DEF Tick, ServerInv, ConnInv
<1>2. "ticks" \in {"requests", "changes", "ticks"}
  BY Zenon
<1>3. Counted'
  BY <1>1, <1>2, OneLess, Zenon DEF TypesInv, ServerInv, ClockInv
<1>4. PICK x, y : x = conn /\ y = conn'
  BY Zenon
<1>5. y = x \/ \E age : y = [x EXCEPT !.age = age]
  BY <1>4, Zenon DEF Tick
<1>6. Sound(x)
  BY <1>4, Zenon DEF TypesInv
<1>7. Leaves(x, y) /\ y.pc = x.pc /\ y.status = x.status
  BY <1>1, <1>4, <1>5, SMTT(20) DEF Leaves, Fields
<1>8. Sound(y)
  <2>1. y.status \in Statuses
    BY <1>6, <1>7, Zenon DEF Sound
  <2>. QED
    BY <1>6, <1>7, <2>1, StaysSound, Zenon
<1>. QED
  BY <1>1, <1>3, <1>4, <1>8, Zenon DEF TypesInv

\* Others put what fits, and delete.
LEMMA ChangeTypes == ServerInv /\ ListingsInv /\ TypesInv /\ Change => TypesInv'
<1>. SUFFICES ASSUME ServerInv, ListingsInv, TypesInv, Change PROVE TypesInv'
  BY Zenon
<1>1. env' = env /\ conn' = conn /\ bounds.changes > 0 /\ bounds' = [bounds EXCEPT !.changes = @ - 1] /\ env \in Worlds
  BY Zenon DEF Change, ServerInv, ClockInv
<1>2. "changes" \in {"requests", "changes", "ticks"}
  BY Zenon
<1>3. Counted'
  BY <1>1, <1>2, OneLess, Zenon DEF TypesInv, ServerInv, ClockInv
<1>4. PICK k \in env.others : /\ k \in DOMAIN objs \/ Fits(k)
                              /\ objs' = IF k \in DOMAIN objs THEN Without({k}) ELSE With(k, <<>>)
  BY Zenon DEF Change
<1>5. KeySet(DOMAIN objs) /\ Laid(DOMAIN objs)
  BY Zenon DEF ListingsInv, TypesInv
<1>6. k \in Seq(Nat) /\ ValidKey(k)
  BY <1>1, ListingAssumption, StoreAssumption, Zenon
<1>7. CASE k \in DOMAIN objs
  <2>1. DOMAIN objs' = DOMAIN objs \ {k}
    BY <1>4, <1>5, <1>7, WithoutKeys, Zenon
  <2>2. Laid(DOMAIN objs')
    BY <1>5, <2>1, LaidLess, Zenon
  <2>. QED
    BY <1>1, <1>3, <2>2, Zenon DEF TypesInv
<1>8. CASE k \notin DOMAIN objs
  <2>1. DOMAIN objs' = DOMAIN objs \cup {k}
    BY <1>4, <1>5, <1>6, <1>8, WithKeys, Zenon
  <2>2. Laid(DOMAIN objs')
    BY <1>4, <1>5, <1>6, <1>8, <2>1, LaidWith, Zenon
  <2>. QED
    BY <1>1, <1>3, <2>2, Zenon DEF TypesInv
<1>. QED
  BY <1>7, <1>8, Zenon

\* A read keeps it,
LEMMA ReadTypes == ServerInv /\ BodyInv /\ TypesInv /\ ReadBody => TypesInv'
<1>. SUFFICES ASSUME ServerInv, BodyInv, TypesInv, ReadBody PROVE TypesInv'
  BY Zenon
<1>1. UNCHANGED <<env, objs, bounds>> /\ conn.pc = "body" /\ DOMAIN conn = Fields /\ Embodied(conn, env)
  BY Zenon DEF ReadBody, ServerInv, ConnInv, BodyInv
<1>2. conn.pc \in Serving /\ conn.pc # "idle" /\ conn.pc \in {"body", "read"}
  BY <1>1, SMTT(20) DEF Serving
<1>3. PICK r : r = Read(conn.rd)
  BY Zenon
<1>4. PICK got, pc : got = conn.got \o r.got /\ pc = IF r.got = <<>> THEN "read" ELSE "body"
  BY Zenon
<1>5. \/ ~r.rd.failed /\ conn' = [conn EXCEPT !.rd = r.rd, !.got = got, !.pc = pc]
      \/ conn' = [conn EXCEPT !.pc = "answered", !.status = 500]
  BY <1>3, <1>4, Zenon DEF ReadBody, Answer
<1>6. CASE conn' = [conn EXCEPT !.pc = "answered", !.status = 500]
  <2>1. Leaves(conn, conn') /\ conn'.pc \notin {"body", "read"} /\ conn'.status = 500
    BY <1>1, <1>6, SMTT(20) DEF Leaves, Fields
  <2>2. 500 \in Statuses
    BY SMTT(20) DEF Statuses
  <2>. QED
    BY <1>1, <2>1, <2>2, LeftStep, Zenon
<1>7. CASE ~r.rd.failed /\ conn' = [conn EXCEPT !.rd = r.rd, !.got = got, !.pc = pc]
  <2>1. PICK x, y, q, c, cut : x = conn /\ y = conn' /\ q = r.rd /\ c = conn.c /\ cut = conn.cut
    BY Zenon
  <2>2. pc \in {"body", "read"} /\ pc # "idle" /\ pc \notin {"idle", "signed", "sent"}
    BY <1>4, SMTT(20)
  <2>3. /\ y.pc = pc /\ y.rd = q /\ y.got = got /\ y.status = x.status /\ y.start = x.start
        /\ y.remaining = x.remaining /\ y.todo = x.todo /\ y.found = x.found /\ y.c = c
        /\ y.to = x.to /\ y.handler = x.handler
    BY <1>1, <1>7, <2>1, SMTT(20) DEF Fields
  <2>4. Sendable(c) /\ Reads(x.rd, x.got, c)
    BY <1>1, <1>2, <2>1, ClientIs, Zenon DEF Embodied, InBody
  <2>5. Reads(q, got, c)
    BY <1>3, <1>4, <1>7, <2>1, <2>4, ReadGoes, Zenon
  <2>6. got \in Seq(Stuff(c)) /\ q.pos <= Len(q.buf)
    BY <2>5, Zenon DEF Reads, Typed
  <2>7. Sound(x) /\ x.pc \in {"body", "read"}
    BY <1>2, <2>1, Zenon DEF TypesInv
  <2>8. Sound(y)
    BY <2>2, <2>3, <2>6, <2>7, Zenon DEF Sound, Putting
  <2>. QED
    BY <1>1, <2>1, <2>8, SoundStep, Zenon
<1>. QED
  BY <1>5, <1>6, <1>7, Zenon

\* a commit puts a key that fits,
LEMMA CommitTypes == ServerInv /\ ListingsInv /\ TypesInv /\ Commit => TypesInv'
<1>. SUFFICES ASSUME ServerInv, ListingsInv, TypesInv, Commit PROVE TypesInv'
  BY Zenon
<1>1. UNCHANGED <<env, bounds>> /\ conn.pc = "read" /\ conn.handler = "putObject" /\ DOMAIN conn = Fields
  BY Zenon DEF Commit, ServerInv, ConnInv
<1>2. conn.pc \in {"body", "read"}
  BY <1>1, SMTT(20)
<1>3. PICK key, got : key = conn.to.key /\ got = conn.got
  BY Zenon
<1>4. \/ /\ conn.status = 0 /\ Fits(key) /\ objs' = With(key, got)
         /\ conn' = [conn EXCEPT !.pc = "answered", !.status = 200, !.did = {<<key, got>>}]
      \/ /\ objs' = objs
         /\ conn' = [conn EXCEPT !.pc = "answered", !.status = IF conn.status = 0 THEN 500 ELSE conn.status]
  BY <1>3, Zenon DEF Commit, Answer
<1>5. 200 \in Statuses /\ 500 \in Statuses
  BY SMTT(20) DEF Statuses
<1>6. CASE /\ conn.status = 0 /\ Fits(key) /\ objs' = With(key, got)
           /\ conn' = [conn EXCEPT !.pc = "answered", !.status = 200, !.did = {<<key, got>>}]
  <2>1. PICK did : did = {<<key, got>>}
    BY Zenon
  <2>2. conn' = [conn EXCEPT !.pc = "answered", !.status = 200, !.did = did]
    BY <1>6, <2>1, Zenon
  <2>3. Leaves(conn, conn') /\ conn'.pc \notin {"body", "read"} /\ conn'.status = 200
    BY <1>1, <2>2, SMTT(20) DEF Leaves, Fields
  <2>4. key \in Seq(Nat) /\ KeySet(DOMAIN objs) /\ Laid(DOMAIN objs)
    BY <1>2, <1>3, Zenon DEF ListingsInv, Keyed, TypesInv
  <2>5. ValidKey(key)
    BY <1>1, <1>2, <1>3, <1>6, Zenon DEF TypesInv, Sound, Putting
  <2>6. DOMAIN objs' = DOMAIN objs \cup {key}
    BY <1>6, <2>4, WithKeys, Zenon
  <2>7. Laid(DOMAIN objs')
    BY <1>6, <2>4, <2>5, <2>6, LaidWith, Zenon
  <2>. QED
    BY <1>1, <1>5, <2>3, <2>7, LeftStep, Zenon
<1>7. CASE /\ objs' = objs
           /\ conn' = [conn EXCEPT !.pc = "answered", !.status = IF conn.status = 0 THEN 500 ELSE conn.status]
  <2>1. PICK status : status = IF conn.status = 0 THEN 500 ELSE conn.status
    BY Zenon
  <2>2. conn' = [conn EXCEPT !.pc = "answered", !.status = status]
    BY <1>7, <2>1, Zenon
  <2>3. Leaves(conn, conn') /\ conn'.pc \notin {"body", "read"} /\ conn'.status = status
    BY <1>1, <2>2, SMTT(20) DEF Leaves, Fields
  <2>4. status \in Statuses \cup {conn.status}
    BY <1>5, <2>1, Zenon
  <2>. QED
    BY <1>1, <1>7, <2>3, <2>4, LeftStep, Zenon
<1>. QED
  BY <1>4, <1>6, <1>7, Zenon

\* a list of deletions takes keys away,
LEMMA DeleteTypes == ServerInv /\ BodyInv /\ ListingsInv /\ TypesInv /\ DeleteNext => TypesInv'
<1>. SUFFICES ASSUME ServerInv, BodyInv, ListingsInv, TypesInv, DeleteNext PROVE TypesInv'
  BY Zenon
<1>1. UNCHANGED <<env, bounds>> /\ conn.pc = "read" /\ conn.handler = "deleteObjects" /\ DOMAIN conn = Fields
      /\ Embodied(conn, env)
  BY Zenon DEF DeleteNext, ServerInv, ConnInv, BodyInv
<1>2. PICK read, items, i, k, gone :
         /\ read = conn.got /\ items = Items(conn.got) /\ i = Min(items) /\ k = conn.got[i].key
         /\ gone = IF There([bucket |-> conn.to.bucket, key |-> k]) THEN Unlinked(k) \cap DOMAIN objs ELSE {}
  BY Zenon
<1>3. PICK got, did : /\ got = IF items = {i} THEN <<>> ELSE SubSeq(read, i + 1, Len(read))
                      /\ did = conn.did \cup {<<g, None>> : g \in gone}
  BY Zenon
<1>4. \/ objs' = objs /\ conn' = [conn EXCEPT !.pc = "answered", !.status = 200]
      \/ /\ items # {} /\ objs' = Without(gone)
         /\ conn' = [conn EXCEPT !.got = got, !.did = did]
  BY <1>2, <1>3, Zenon DEF DeleteNext, Answer
<1>5. CASE objs' = objs /\ conn' = [conn EXCEPT !.pc = "answered", !.status = 200]
  <2>1. Leaves(conn, conn') /\ conn'.pc \notin {"body", "read"} /\ conn'.status = 200
    BY <1>1, <1>5, SMTT(20) DEF Leaves, Fields
  <2>2. 200 \in Statuses
    BY SMTT(20) DEF Statuses
  <2>. QED
    BY <1>1, <1>5, <2>1, <2>2, LeftStep, Zenon
<1>6. CASE /\ items # {} /\ objs' = Without(gone)
           /\ conn' = [conn EXCEPT !.got = got, !.did = did]
  <2>1. PICK x, y, B : x = conn /\ y = conn' /\ B = Stuff(conn.c)
    BY Zenon
  <2>2. /\ y.pc = x.pc /\ y.rd = x.rd /\ y.got = got /\ y.status = x.status /\ y.start = x.start
        /\ y.remaining = x.remaining /\ y.todo = x.todo /\ y.found = x.found /\ y.c = x.c
        /\ y.to = x.to /\ y.handler = x.handler
    BY <1>1, <1>6, <2>1, SMTT(20) DEF Fields
  <2>3. read \in Seq(B)
    <3>1. conn.pc \in Serving
      BY <1>1, SMTT(20) DEF Serving
    <3>. QED
      BY <1>1, <1>2, <2>1, <3>1, Zenon DEF Embodied, InBody
  <2>4. got \in Seq(B)
    <3>1. i \in Nat
      <4>1. items \subseteq Nat
        <5>1. items \subseteq DOMAIN read
          BY <1>2, SMTT(20) DEF Items
        <5>. QED
          BY <2>3, <5>1, SMTT(20)
      <4>2. PICK n \in items : \A m \in items : n <= m
        BY <1>6, <4>1, Least, Zenon
      <4>3. items \in SUBSET Int
        BY <4>1, SMTT(20)
      <4>4. Min(items) = n
        BY <4>2, <4>3, MinIs, Zenon
      <4>. QED
        BY <1>2, <4>1, <4>2, <4>4, Zenon
    <3>. QED
      BY <1>3, <2>3, <3>1, SMTT(20)
  <2>5. Sound(x)
    BY <2>1, Zenon DEF TypesInv
  <2>6. Sound(y)
    BY <2>1, <2>2, <2>4, <2>5, Zenon DEF Sound, Putting
  <2>7. KeySet(DOMAIN objs) /\ Laid(DOMAIN objs)
    BY Zenon DEF ListingsInv, TypesInv
  <2>8. Laid(DOMAIN objs')
    <3>1. DOMAIN objs' = DOMAIN objs \ gone
      BY <1>6, <2>7, WithoutKeys, Zenon
    <3>. QED
      BY <2>7, <3>1, LaidLess, Zenon
  <2>. QED
    BY <1>1, <2>1, <2>6, <2>8, SoundStep, Zenon
<1>. QED
  BY <1>4, <1>5, <1>6, Zenon

\* an object is sent block by block,
LEMMA SendBlockTypes == ServerInv /\ TypesInv /\ SendBlock => TypesInv'
<1>. SUFFICES ASSUME ServerInv, TypesInv, SendBlock PROVE TypesInv'
  BY Zenon
<1>1. UNCHANGED <<env, objs, bounds>> /\ conn.pc = "send" /\ DOMAIN conn = Fields
  BY Zenon DEF SendBlock, ServerInv, ConnInv
<1>2. PICK next, left : next = Append(conn.sent, conn.file[conn.start + Len(conn.sent) + 1])
                        /\ left = conn.remaining - 1
  BY Zenon
<1>3. \/ conn' = [conn EXCEPT !.pc = "answered"]
      \/ conn.remaining # 0 /\ conn' = [conn EXCEPT !.sent = next, !.remaining = left]
      \/ conn' = Idle
  BY <1>2, Zenon DEF SendBlock, Goto
<1>4. CASE conn' = Idle
  BY <1>1, <1>4, NothingSound, SoundStep, Zenon
<1>5. CASE conn' = [conn EXCEPT !.pc = "answered"]
  <2>1. Leaves(conn, conn') /\ conn'.pc \notin {"body", "read"} /\ conn'.status = conn.status
    BY <1>1, <1>5, SMTT(20) DEF Leaves, Fields
  <2>. QED
    BY <1>1, <2>1, LeftStep, Zenon
<1>6. CASE conn.remaining # 0 /\ conn' = [conn EXCEPT !.sent = next, !.remaining = left]
  <2>1. PICK x, y : x = conn /\ y = conn'
    BY Zenon
  <2>2. /\ y.pc = x.pc /\ y.rd = x.rd /\ y.got = x.got /\ y.status = x.status /\ y.start = x.start
        /\ y.remaining = left /\ y.todo = x.todo /\ y.found = x.found /\ y.c = x.c
        /\ y.to = x.to /\ y.handler = x.handler
    BY <1>1, <1>6, <2>1, SMTT(20) DEF Fields
  <2>3. Sound(x)
    BY <2>1, Zenon DEF TypesInv
  <2>4. left \in Offsets
    <3>1. x.remaining \in Offsets /\ x.remaining # 0
      BY <1>6, <2>1, <2>3, Zenon DEF Sound
    <3>. QED
      BY <1>2, <2>1, <3>1, WordAssumption, SMTT(20) DEF Offsets
  <2>5. Sound(y)
    BY <2>2, <2>3, <2>4, Zenon DEF Sound, Putting
  <2>. QED
    BY <1>1, <2>1, <2>5, SoundStep, Zenon
<1>. QED
  BY <1>3, <1>4, <1>5, <1>6, Zenon

\* a key has its turn in a walk once,
LEMMA WalkTypes == ServerInv /\ TypesInv /\ Walk => TypesInv'
<1>. SUFFICES ASSUME ServerInv, TypesInv, Walk PROVE TypesInv'
  BY Zenon
<1>1. UNCHANGED <<env, objs, bounds>> /\ conn.pc = "walk" /\ DOMAIN conn = Fields
  BY Zenon DEF Walk, ServerInv, ConnInv
<1>2. PICK x, y, a, b : x = conn /\ y = conn' /\ a = conn.todo /\ b = conn.found
  BY Zenon
<1>3. \/ \E k \in x.todo : conn' = [conn EXCEPT !.todo = x.todo \ {k}, !.found = x.found \cup {k}]
      \/ \E k \in x.todo : conn' = [conn EXCEPT !.todo = x.todo \ {k}]
      \/ conn' = [conn EXCEPT !.pc = "answered", !.status = 500]
      \/ \E k : k \notin x.todo /\ conn' = [conn EXCEPT !.found = x.found \cup {k}]
  BY <1>2, Zenon DEF Walk, Answer
<1>4. Sound(x) /\ a \cap b = {}
  BY <1>2, Zenon DEF TypesInv, Sound
<1>5. CASE conn' = [conn EXCEPT !.pc = "answered", !.status = 500]
  <2>1. Leaves(conn, conn') /\ conn'.pc \notin {"body", "read"} /\ conn'.status = 500
    BY <1>1, <1>2, <1>5, SMTT(20) DEF Leaves, Fields
  <2>2. 500 \in Statuses
    BY SMTT(20) DEF Statuses
  <2>. QED
    BY <1>1, <2>1, <2>2, LeftStep, Zenon
<1>6. ASSUME /\ y.pc = x.pc /\ y.rd = x.rd /\ y.got = x.got /\ y.status = x.status /\ y.start = x.start
             /\ y.remaining = x.remaining /\ y.c = x.c /\ y.to = x.to /\ y.handler = x.handler,
             y.todo \cap y.found = {}
      PROVE  TypesInv'
  <2>1. x.pc = "walk" /\ "walk" \notin {"idle", "signed", "sent"}
    BY <1>1, <1>2, SMTT(20)
  <2>2. Sound(y)
    BY <1>4, <1>6, <2>1, Zenon DEF Sound, Putting
  <2>. QED
    BY <1>1, <1>2, <2>2, SoundStep, Zenon
<1>7. CASE \E k \in x.todo : conn' = [conn EXCEPT !.todo = x.todo \ {k}, !.found = x.found \cup {k}]
  <2>1. PICK k \in x.todo : conn' = [conn EXCEPT !.todo = x.todo \ {k}, !.found = x.found \cup {k}]
    BY <1>7, Zenon
  <2>2. PICK todo, found : todo = x.todo \ {k} /\ found = x.found \cup {k}
    BY Zenon
  <2>3. y = [x EXCEPT !.todo = todo, !.found = found]
    BY <1>2, <2>1, <2>2, Zenon
  <2>4. /\ y.pc = x.pc /\ y.rd = x.rd /\ y.got = x.got /\ y.status = x.status /\ y.start = x.start
        /\ y.remaining = x.remaining /\ y.c = x.c /\ y.to = x.to /\ y.handler = x.handler
        /\ y.todo = todo /\ y.found = found
    BY <1>1, <1>2, <2>3, SMTT(20) DEF Fields
  <2>5. y.todo \cap y.found = {}
    BY <1>2, <1>4, <2>2, <2>4, Zenon
  <2>. QED
    BY <1>6, <2>4, <2>5, Zenon
<1>8. CASE \E k \in x.todo : conn' = [conn EXCEPT !.todo = x.todo \ {k}]
  <2>1. PICK k \in x.todo : conn' = [conn EXCEPT !.todo = x.todo \ {k}]
    BY <1>8, Zenon
  <2>2. PICK todo : todo = x.todo \ {k}
    BY Zenon
  <2>3. y = [x EXCEPT !.todo = todo]
    BY <1>2, <2>1, <2>2, Zenon
  <2>4. /\ y.pc = x.pc /\ y.rd = x.rd /\ y.got = x.got /\ y.status = x.status /\ y.start = x.start
        /\ y.remaining = x.remaining /\ y.c = x.c /\ y.to = x.to /\ y.handler = x.handler
        /\ y.todo = todo /\ y.found = x.found
    BY <1>1, <1>2, <2>3, SMTT(20) DEF Fields
  <2>5. y.todo \cap y.found = {}
    BY <1>2, <1>4, <2>2, <2>4, Zenon
  <2>. QED
    BY <1>6, <2>4, <2>5, Zenon
<1>9. CASE \E k : k \notin x.todo /\ conn' = [conn EXCEPT !.found = x.found \cup {k}]
  <2>1. PICK k : k \notin x.todo /\ conn' = [conn EXCEPT !.found = x.found \cup {k}]
    BY <1>9, Zenon
  <2>2. PICK found : found = x.found \cup {k}
    BY Zenon
  <2>3. y = [x EXCEPT !.found = found]
    BY <1>2, <2>1, <2>2, Zenon
  <2>4. /\ y.pc = x.pc /\ y.rd = x.rd /\ y.got = x.got /\ y.status = x.status /\ y.start = x.start
        /\ y.remaining = x.remaining /\ y.c = x.c /\ y.to = x.to /\ y.handler = x.handler
        /\ y.todo = x.todo /\ y.found = found
    BY <1>1, <1>2, <2>3, SMTT(20) DEF Fields
  <2>5. y.todo \cap y.found = {}
    BY <1>2, <1>4, <2>1, <2>2, <2>4, Zenon
  <2>. QED
    BY <1>6, <2>4, <2>5, Zenon
<1>. QED
  BY <1>3, <1>5, <1>7, <1>8, <1>9, Zenon

\* a page is an answer,
LEMMA ListPageTypes == ServerInv /\ TypesInv /\ ListPage => TypesInv'
<1>. SUFFICES ASSUME ServerInv, TypesInv, ListPage PROVE TypesInv'
  BY Zenon
<1>1. UNCHANGED <<env, objs, bounds>> /\ conn.pc = "walk" /\ DOMAIN conn = Fields
  BY Zenon DEF ListPage, ServerInv, ConnInv
<1>2. PICK p : conn' = [conn EXCEPT !.pc = "answered", !.status = 200, !.page = p]
  BY Zenon DEF ListPage
<1>3. Leaves(conn, conn') /\ conn'.pc \notin {"body", "read"} /\ conn'.status = 200
  BY <1>1, <1>2, SMTT(20) DEF Leaves, Fields
<1>4. 200 \in Statuses
  BY SMTT(20) DEF Statuses
<1>. QED
  BY <1>1, <1>3, <1>4, LeftStep, Zenon

\* a request is let in or refused.
LEMMA AcceptTypes == ServerInv /\ BodyInv /\ ListingsInv /\ TypesInv /\ Accept => TypesInv'
<1>. SUFFICES ASSUME ServerInv, BodyInv, ListingsInv, TypesInv, Accept PROVE TypesInv'
  BY Zenon
<1>1. UNCHANGED <<env, bounds>> /\ conn.pc = "sent" /\ DOMAIN conn = Fields /\ Embodied(conn, env) /\ Stored
  BY Zenon DEF Accept, ServerInv, ConnInv, BodyInv
<1>2. /\ Arrived(conn) /\ Unserved(conn) /\ Sendable(conn.c) /\ Sound(conn) /\ conn.rd = None /\ conn.found = {}
      /\ KeySet(DOMAIN objs) /\ Laid(DOMAIN objs)
  <2>1. "sent" \in {"signed", "sent"} /\ "sent" \in {"idle", "signed", "sent"} /\ "sent" # "idle"
    BY SMTT(20)
  <2>. QED
    BY <1>1, <2>1, ClientIs, Zenon DEF Embodied, TypesInv, Sound, ListingsInv
<1>3. PICK verdict, to, name, in :
         /\ verdict = Authenticate(conn.req, Now(clock), env.anonymous)
         /\ to = Addressing(Get(conn.req.lines, "host"), Decode(conn.req.path))
         /\ name = Route(conn.req, to)
         /\ in = [conn EXCEPT !.accepted = TRUE]
  BY Zenon
<1>4. \/ verdict = 200 /\ conn' = Handler(name, to, conn.req, in) /\ objs' = Without({d[1] : d \in conn'.did})
      \/ verdict # 200 /\ conn' = Answered(conn, verdict) /\ objs' = objs
  BY <1>3, Zenon DEF Accept, Now
<1>5. PICK x, y, req, c : x = conn /\ y = conn' /\ req = conn.req /\ c = conn.c
  BY Zenon
<1>6. CASE verdict # 200 /\ conn' = Answered(conn, verdict) /\ objs' = objs
  <2>1. verdict \in Statuses
    BY <1>3, VerdictIs, Zenon
  <2>2. /\ y.pc = "answered" /\ y.status = verdict /\ y.start = x.start /\ y.remaining = x.remaining
        /\ y.found = x.found /\ y.rd = x.rd
    BY <1>1, <1>5, <1>6, SMTT(20) DEF Answered, Fields
  <2>3. y.pc \notin {"idle", "signed", "sent"} /\ y.pc \notin {"body", "read"}
    BY <2>2, SMTT(20)
  <2>4. Sound(y)
    BY <1>2, <1>5, <2>1, <2>2, <2>3, Zenon DEF Sound
  <2>. QED
    BY <1>1, <1>5, <1>6, <2>4, SoundStep, Zenon
<1>7. CASE verdict = 200 /\ conn' = Handler(name, to, conn.req, in) /\ objs' = Without({d[1] : d \in conn'.did})
  <2>1. /\ DOMAIN in = Fields /\ in.status = x.status /\ in.start = x.start /\ in.remaining = x.remaining
        /\ in.rd = x.rd /\ in.found = x.found /\ in.c = x.c
    BY <1>1, <1>3, <1>5, SMTT(20) DEF Fields
  <2>2. Kept(in, y) /\ y.handler = name /\ y.to = to /\ y.pc \in {"answered", "body", "send", "walk"}
    <3>1. /\ Kept(in, conn') /\ conn'.handler = name /\ conn'.to = to
          /\ conn'.pc \in {"answered", "body", "send"} \/ (conn'.pc = "walk" /\ name = "listObjects")
      BY <1>7, <2>1, HandlerServes, SMTT(20)
    <3>. QED
      BY <1>5, <3>1, Zenon
  <2>3. PICK range : range = Get(req.lines, "range")
    BY Zenon
  <2>4. OffsetRange(range)
    <3>1. PICK l : l = req.lines
      BY Zenon
    <3>2. Headed(l, c)
      BY <1>2, <1>5, <3>1, Zenon DEF Arrived
    <3>3. OffsetRange(c.range)
      BY <1>2, <1>5, Zenon DEF Sendable, Offsets, OffsetRange
    <3>4. OffsetRange(Get(l, "range"))
      BY <3>2, <3>3, RangeIs, Zenon
    <3>. QED
      BY <2>3, <3>1, <3>4, Zenon
  <2>5. \A k \in DOMAIN objs : /\ Span(range, Len(objs[k])).start \in Offsets
                               /\ Span(range, Len(objs[k])).length \in Offsets
                               /\ Span(range, Len(objs[k])).status \in RangeStatuses
    <3>. SUFFICES ASSUME NEW k \in DOMAIN objs
                  PROVE  /\ Span(range, Len(objs[k])).start \in Offsets
                         /\ Span(range, Len(objs[k])).length \in Offsets
                         /\ Span(range, Len(objs[k])).status \in RangeStatuses
      BY Zenon
    <3>1. PICK n, span : n = Len(objs[k]) /\ span = Span(range, n)
      BY Zenon
    <3>2. n \in Nat /\ n < Word
      <4>1. objs[k] \in Seq(Block)
        BY <1>1, Zenon DEF Stored
      <4>2. Len(objs[k]) \in Nat
        BY <4>1, LenProperties, Zenon
      <4>. QED
        BY <1>1, <3>1, <4>2, Zenon DEF Stored
    <3>3. span.start \in Offsets /\ span.length \in Offsets /\ span.status \in RangeStatuses
      BY <2>4, <3>1, <3>2, SpanFits, SMTT(20)
    <3>. QED
      BY <3>1, <3>3, Zenon
  <2>6. Starts(name, to, req, in, y)
    <3>1. in.status \in Statuses
      BY <1>2, <1>5, <2>1, Zenon DEF Sound
    <3>2. \A k \in DOMAIN objs : Span(Get(req.lines, "range"), Len(objs[k])).status \in RangeStatuses
      BY <2>3, <2>5, Zenon
    <3>3. Starts(name, to, req, in, Handler(name, to, req, in))
      BY <2>1, <3>1, <3>2, HandlerStarts, Zenon
    <3>. QED
      BY <1>5, <1>7, <3>3, Zenon
  <2>7. y.start \in Offsets /\ y.remaining \in Offsets
    <3>1. CASE y.start = in.start /\ y.remaining = in.remaining
      BY <1>2, <1>5, <2>1, <3>1, Zenon DEF Sound
    <3>2. CASE \E k \in DOMAIN objs : LET span == Span(Get(req.lines, "range"), Len(objs[k])) IN
                  y.start = span.start /\ y.remaining = span.length
      <4>1. PICK k \in DOMAIN objs : /\ y.start = Span(range, Len(objs[k])).start
                                     /\ y.remaining = Span(range, Len(objs[k])).length
        BY <2>3, <3>2, Zenon
      <4>. QED
        BY <2>5, <4>1, Zenon
    <3>. QED
      BY <2>6, <3>1, <3>2, Zenon DEF Starts
  <2>8. y.found = {}
    <3>1. Sees(in, y)
      BY <1>5, <1>7, <2>1, HandlerSees, Zenon
    <3>. QED
      BY <1>2, <1>5, <2>1, <3>1, Zenon DEF Sees
  <2>9. y.pc = "body" => y.got \in Seq(Stuff(y.c)) /\ y.rd.pos <= Len(y.rd.buf)
    <3>1. BodyInv'
      BY AcceptHolds, Zenon
    <3>2. "body" \in Serving
      BY SMTT(20) DEF Serving
    <3>3. y.pc = "body" => Reads(y.rd, y.got, y.c)
      BY <1>5, <3>1, <3>2, Zenon DEF BodyInv, Embodied, InBody
    <3>. QED
      BY <3>3, Zenon DEF Reads, Typed
  <2>10. y.rd # None => y.pc = "body"
    BY <1>2, <1>5, <2>1, <2>6, Zenon DEF Starts
  <2>11. y.pc \notin {"idle", "signed", "sent"} /\ y.pc # "idle" /\ (y.pc \in {"body", "read"} => y.pc = "body")
    BY <2>2, SMTT(20)
  <2>12. y.pc = "body" /\ Putting(y) => ValidKey(y.to.key)
    BY <2>2, <2>6, Zenon DEF Starts, Putting
  <2>13. Sound(y)
    BY <2>6, <2>7, <2>8, <2>9, <2>10, <2>11, <2>12, Zenon DEF Sound, Starts
  <2>14. Laid(DOMAIN objs')
    <3>1. PICK gone : gone = {d[1] : d \in conn'.did}
      BY Zenon
    <3>2. DOMAIN objs' = DOMAIN objs \ gone
      BY <1>2, <1>7, <3>1, WithoutKeys, Zenon
    <3>. QED
      BY <1>2, <3>2, LaidLess, Zenon
  <2>. QED
    BY <1>1, <1>5, <2>13, <2>14, SoundStep, Zenon
<1>. QED
  BY <1>4, <1>6, <1>7, Zenon

\* The types are inductive next to what is shown before.
THEOREM TypesInvariant == Spec => []TypesInv
<1>1. Init => TypesInv
  BY InitTypes
<1>2. ServerInv /\ BodyInv /\ ListingsInv /\ TypesInv /\ [Next]_vars => TypesInv'
  <2>. SUFFICES ASSUME ServerInv, BodyInv, ListingsInv, TypesInv, [Next]_vars PROVE TypesInv'
    BY Zenon
  <2>1. CASE Serve
    BY <2>1, AcceptTypes, ReadTypes, CommitTypes, DeleteTypes, SendBlockTypes, WalkTypes, ListPageTypes,
       Zenon DEF Serve
  <2>2. CASE SignRequest \/ Send \/ Receive \/ Hangup \/ Change \/ Tick
    BY <2>2, SignTypes, SendTypes, ReceiveTypes, HangupTypes, ChangeTypes, TickTypes, Zenon
  <2>3. CASE UNCHANGED vars
    BY <2>3, Zenon DEF vars, TypesInv, Counted
  <2>. QED
    BY <2>1, <2>2, <2>3, Zenon DEF Next
<1>. QED
  BY <1>1, <1>2, ServerInvariant, BodyInvariant, ListingsInvariant, PTL DEF Spec

\* Objects lie in the tree of a bucket, the clock shows a moment of a date, what is read
\* of a body is what some client sends, and a listing goes on behind a marker, for all
\* clients and contents.
THEOREM RequestTypesHold == Spec => []TypeOK
<1>1. ServerInv /\ ListingsInv /\ TypesInv => TypeOK
  <2>. SUFFICES ASSUME ServerInv, ListingsInv, TypesInv PROVE TypeOK
    BY Zenon
  <2>1. Laid(DOMAIN objs) /\ Counted /\ Sound(conn)
    BY Zenon DEF TypesInv
  <2>2. clock.sec \in 0..(DaySeconds - 1) /\ date.m \in 1..12 /\ date.d \in 1..MonthDays(date.y, date.m)
    <3>1. clock.day \in Nat /\ clock.sec \in Nat /\ clock.sec < DaySeconds /\ date = CivilFromDays(clock.day)
      BY Zenon DEF ServerInv, ClockInv
    <3>2. clock.sec \in 0..(DaySeconds - 1)
      <4>1. PICK n : n = DaySeconds
        BY Zenon
      <4>2. n \in Nat
        BY <4>1, SMTT(20) DEF DaySeconds
      <4>. QED
        BY <3>1, <4>1, <4>2, SMTT(20)
    <3>3. clock.day \in Int
      BY <3>1, SMTT(20)
    <3>4. date.m \in 1..12 /\ date.d \in 1..MonthDays(date.y, date.m)
      BY <3>1, <3>3, CivilIsDate, Zenon
    <3>. QED
      BY <3>2, <3>4, Zenon
  <2>3. conn.pc \in {"idle", "signed", "sent", "body", "read", "send", "walk", "answered"}
    BY Zenon DEF ServerInv, ConnInv
  <2>4. conn.status \in {0, 200, 204, 206, 400, 403, 404, 405, 416, 500, 501}
    BY <2>1, Zenon DEF Sound, Statuses
  <2>5. conn.rd # None => Blocks(conn.got) /\ conn.rd.pos <= Len(conn.rd.buf)
    <3>1. SUFFICES ASSUME conn.rd # None PROVE Blocks(conn.got) /\ conn.rd.pos <= Len(conn.rd.buf)
      BY Zenon
    <3>2. PICK c, got : c = conn.c /\ got = conn.got
      BY Zenon
    <3>3. conn.pc # "idle" /\ got \in Seq(Stuff(c)) /\ conn.rd.pos <= Len(conn.rd.buf)
      BY <2>1, <3>1, <3>2, Zenon DEF Sound
    <3>4. c \in env.sends
      BY <3>2, <3>3, Zenon DEF ServerInv, ConnInv, Carried
    <3>5. \A i \in DOMAIN got : got[i] \in Stuff(c)
      BY <3>3, SMTT(20)
    <3>. QED
      BY <3>2, <3>3, <3>4, <3>5, Zenon DEF Blocks, Stuff
  <2>6. {conn.start, conn.remaining} \subseteq 0..(Word - 1)
    BY <2>1, Zenon DEF Sound, Offsets
  <2>7. listing.next \in listing.markers \cup {None}
    BY Zenon DEF ListingsInv, Asks
  <2>. QED
    BY <2>1, <2>2, <2>3, <2>4, <2>5, <2>6, <2>7, Zenon DEF TypeOK, Counted, Sound
<1>. QED
  BY <1>1, ServerInvariant, ListingsInvariant, TypesInvariant, PTL
===============================================================================
