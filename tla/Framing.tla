------------------------------ MODULE Framing -------------------------------
(***************************************************************************)
(* The readers of a request's body (http.rs) and the chain of chunk        *)
(* signatures (sigv4.rs).  A body is a sequence of blocks; a chunk on the  *)
(* wire carries some of them, the last one none.  A signature is the term  *)
(* it is computed from.                                                    *)
(***************************************************************************)
EXTENDS Naturals, Sequences

CONSTANTS Seed,     \* the signature of the request's head
          NoChain,  \* no ChunkContext: chunk signatures are not looked at
          BufBlocks \* what one read may return

ASSUME BufAssumption == BufBlocks \in Nat \ {0}
ASSUME SeedAssumption == Seed # NoChain

Min2(a, b) == IF a < b THEN a ELSE b

\* Mutant of Sign: a signature is of its chunk alone.
SignAlone(prev, data) == <<Seed, data>>

\* ChunkContext::expected_signature
Sign(prev, data) == <<prev, data>>

\* What the client sends for the chunks given: data and signatures.
Chain(datas) ==
    LET all == Append(datas, <<>>)
        sig[i \in 0..Len(all)] == IF i = 0 THEN Seed ELSE Sign(sig[i - 1], all[i])
    IN [i \in 1..Len(all) |-> [data |-> all[i], sig |-> sig[i], whole |-> TRUE]]

\* A reader: an AwsChunkedReader, or a FixedReader of remaining blocks.
Chunked(wire, chain) == [chunked |-> TRUE, wire |-> wire, buf |-> <<>>, pos |-> 0,
                         done |-> FALSE, chain |-> chain, remaining |-> 0, failed |-> FALSE]
Fixed(wire, remaining) == [chunked |-> FALSE, wire |-> wire, buf |-> <<>>, pos |-> 0,
                           done |-> FALSE, chain |-> NoChain, remaining |-> remaining,
                           failed |-> FALSE]

Used(rd) == rd.pos >= Len(rd.buf)

\* Mutant of FillNextChunk: the end of the stream is the end of the body.
FillToEnd(rd) ==
    IF rd.wire = <<>> THEN [rd EXCEPT !.done = TRUE]
    ELSE LET c == Head(rd.wire)
             good == c.whole /\ (rd.chain # NoChain => c.sig = Sign(rd.chain, c.data)) IN
         IF ~good THEN [rd EXCEPT !.failed = TRUE]
         ELSE [rd EXCEPT !.wire = Tail(@), !.done = (c.data = <<>>),
                         !.chain = IF @ = NoChain THEN NoChain ELSE c.sig,
                         !.buf = IF c.data = <<>> THEN @ ELSE c.data,
                         !.pos = IF c.data = <<>> THEN @ ELSE 0]

\* fill_next_chunk: a header that ends early, a torn chunk and a signature that
\* is not the expected one are errors; the chunk without data ends the body.  A chunk
\* is whole with its header, its data and any two bytes behind.
FillNextChunk(rd) ==
    IF rd.wire = <<>> THEN [rd EXCEPT !.failed = TRUE]
    ELSE LET c == Head(rd.wire)
             good == c.whole /\ (rd.chain # NoChain => c.sig = Sign(rd.chain, c.data)) IN
         IF ~good THEN [rd EXCEPT !.failed = TRUE]
         ELSE [rd EXCEPT !.wire = Tail(@), !.done = (c.data = <<>>),
                         !.chain = IF @ = NoChain THEN NoChain ELSE c.sig,
                         !.buf = IF c.data = <<>> THEN @ ELSE c.data,
                         !.pos = IF c.data = <<>> THEN @ ELSE 0]

\* Mutant of ReadChunked: it goes on by what was asked for.
ReadChunkedAsked(rd) ==
    LET r == IF Used(rd) /\ ~rd.done THEN FillNextChunk(rd) ELSE rd
        n == IF r.failed \/ Used(r) THEN 0 ELSE Min2(BufBlocks, Len(r.buf) - r.pos)
    IN [rd |-> [r EXCEPT !.pos = @ + BufBlocks], got |-> SubSeq(r.buf, r.pos + 1, r.pos + n)]

\* read: the reader after it, and what it returned; nothing at the end.
ReadChunked(rd) ==
    LET r == IF Used(rd) /\ ~rd.done THEN FillNextChunk(rd) ELSE rd
        n == IF r.failed \/ Used(r) THEN 0 ELSE Min2(BufBlocks, Len(r.buf) - r.pos)
    IN [rd |-> [r EXCEPT !.pos = @ + n], got |-> SubSeq(r.buf, r.pos + 1, r.pos + n)]

\* A stream that ends early returns nothing, like one that is read to its end.
ReadFixed(rd) ==
    LET n == Min2(Min2(BufBlocks, rd.remaining), Len(rd.wire))
    IN [rd |-> [rd EXCEPT !.remaining = @ - n, !.wire = SubSeq(@, n + 1, Len(@))],
        got |-> SubSeq(rd.wire, 1, n)]

Read(rd) == IF rd.chunked THEN ReadChunked(rd) ELSE ReadFixed(rd)
=============================================================================
