------------------------- MODULE ChunkPlannerProofs -------------------------
(***************************************************************************)
(* Proofs about the upload loop of fwFlash(), for every image, chunk size *)
(* and piece length.                                                       *)
(*   - ProgressCorrect: ProgressMonotone. It is not inductive: PInv adds  *)
(*     that after n turns offset is min(n * chunkSize, length), that the  *)
(*     n-th request was sent at offset (n - 1) * chunkSize and showed the *)
(*     percentage of min(n * chunkSize, length), and types the requests   *)
(*     without looking into their b64 text.                                *)
(*   - PlanCorrect: PlanMatchesReference. B64Inv adds that the n-th       *)
(*     request carries bytesToB64() of the n-th chunk of the reference    *)
(*     plan; Base64RoundTrip turns that into the bytes the device decodes.*)
(***************************************************************************)
EXTENDS ChunkPlanner, Base64Proofs, SequenceTheorems

\* A request as the loop builds it: its b64 field is bytesToB64() of some
\* byte sequence.
PlannedRequests ==
    [off : Nat, b64 : {BytesToB64(c, Piece) : c \in Seq(0..255)}, pct : Nat]

\* The percentage shown once the first n chunks are acknowledged.
PctAfter(n) == (MinOf(n * chunkSize, Len(u8)) * 100) \div Len(u8)

PInv ==
    /\ u8 \in Seq(0..255)
    /\ chunkSize \in Nat \ {0}
    /\ sent \in Seq(PlannedRequests)
    /\ offset = MinOf(Len(sent) * chunkSize, Len(u8))
    /\ Len(sent) > 0 => (Len(sent) - 1) * chunkSize < Len(u8)
    /\ \A j \in 1..Len(sent) :
          /\ sent[j].off = (j - 1) * chunkSize
          /\ sent[j].pct = PctAfter(j)

-----------------------------------------------------------------------------
\* floor(k * 100 / length) grows with k.
LEMMA PercentMonotone ==
    ASSUME NEW a \in Nat, NEW b \in Nat, NEW n \in Nat \ {0}, a <= b
    PROVE  (a * 100) \div n <= (b * 100) \div n
BY SMT

LEMMA InitPInv == Init => PInv
<1> SUFFICES ASSUME Init PROVE PInv
  OBVIOUS
<1>1. u8 \in Seq(0..255) /\ chunkSize \in Nat \ {0}
  BY PlannerAssumption DEF Init
<1>2. QED
  BY <1>1 DEF Init, PInv, MinOf

LEMMA NextPInv == PInv /\ [Post]_vars => PInv'
<1> SUFFICES ASSUME PInv, [Post]_vars PROVE PInv'
  OBVIOUS
<1>1. CASE Post
  <2> DEFINE n == Len(sent)
             L == Len(u8)
             C == chunkSize
             next == MinOf(offset + C, L)
             r == [off |-> offset,
                   b64 |-> BytesToB64(SubSeq(u8, offset + 1, next), Piece),
                   pct |-> (next * 100) \div L]
  <2>1. n \in Nat /\ L \in Nat /\ C \in Nat \ {0}
    BY DEF PInv
  <2>2. offset = n * C /\ offset < L
    BY <1>1, <2>1 DEF Post, PInv, MinOf
  <2>3. next = MinOf((n + 1) * C, L) /\ next \in 0..L
    BY <2>1, <2>2 DEF MinOf
  <2>4. SubSeq(u8, offset + 1, next) \in Seq(0..255)
    <3>1. \A i \in (offset + 1)..next : u8[i] \in 0..255
      <4>1. SUFFICES ASSUME NEW i \in (offset + 1)..next PROVE u8[i] \in 0..255
        OBVIOUS
      <4>2. i \in 1..L
        BY <2>1, <2>2, <2>3
      <4>3. u8 \in Seq(0..255)
        BY DEF PInv
      <4>4. QED
        BY <4>2, <4>3, ElementOfSeq DEF L
    <3>2. QED
      BY <2>1, <2>2, <2>3, <3>1, SubSeqProperties
  <2>5. r \in PlannedRequests
    <3>1. r.b64 \in {BytesToB64(c, Piece) : c \in Seq(0..255)}
      BY <2>4
    <3>2. offset \in Nat /\ (next * 100) \div L \in Nat
      BY <2>1, <2>2, <2>3
    <3>3. QED
      BY <3>1, <3>2 DEF PlannedRequests
  <2>6. sent' = Append(sent, r) /\ offset' = next /\ u8' = u8 /\ chunkSize' = C
    BY <1>1 DEF Post
  <2>7. sent' \in Seq(PlannedRequests) /\ Len(sent') = n + 1
    BY <2>5, <2>6 DEF PInv
  <2>8. \A j \in 1..n : sent'[j] = sent[j]
    BY <2>6 DEF PInv
  <2>9. sent'[n + 1] = r
    BY <2>6 DEF PInv
  <2>10. \A j \in Nat : PctAfter(j)' = PctAfter(j)
    BY <2>6 DEF PctAfter
  <2>11. r.off = n * C /\ r.pct = PctAfter(n + 1)
    BY <2>2, <2>3 DEF PctAfter
  <2>12. offset' = MinOf(Len(sent') * chunkSize', Len(u8'))
    BY <2>3, <2>6, <2>7
  <2>13. Len(sent') > 0 => (Len(sent') - 1) * chunkSize' < Len(u8')
    BY <2>1, <2>2, <2>6, <2>7
  <2>14. ASSUME NEW j \in 1..Len(sent')
         PROVE  sent'[j].off = (j - 1) * chunkSize' /\ sent'[j].pct = PctAfter(j)'
    <3>1. CASE j \in 1..n
      BY <2>6, <2>8, <2>10, <3>1 DEF PInv
    <3>2. CASE j = n + 1
      BY <2>1, <2>6, <2>9, <2>10, <2>11, <3>2
    <3>3. QED
      BY <2>1, <2>7, <3>1, <3>2
  <2>15. QED
    BY <2>1, <2>6, <2>7, <2>12, <2>13, <2>14 DEF PInv
<1>2. CASE UNCHANGED vars
  BY <1>2 DEF vars, PInv, PctAfter
<1>3. QED
  BY <1>1, <1>2

LEMMA PInvProgress == PInv => ProgressMonotone
<1> SUFFICES ASSUME PInv PROVE ProgressMonotone
  OBVIOUS
<1>1. ASSUME NEW j \in 1..(Len(sent) - 1) PROVE sent[j].pct <= sent[j + 1].pct
  <2>1. MinOf(j * chunkSize, Len(u8)) <= MinOf((j + 1) * chunkSize, Len(u8))
    BY DEF PInv, MinOf
  <2>2. Len(u8) \in Nat \ {0} /\ j + 1 \in 1..Len(sent)
    BY DEF PInv, MinOf
  <2>3. MinOf(j * chunkSize, Len(u8)) \in Nat /\ MinOf((j + 1) * chunkSize, Len(u8)) \in Nat
    BY <2>2 DEF PInv, MinOf
  <2>4. PctAfter(j) <= PctAfter(j + 1)
    BY <2>1, <2>2, <2>3, PercentMonotone, SMTT(30) DEF PctAfter
  <2>5. QED
    BY <2>2, <2>4, SMTT(30) DEF PInv
<1>2. ASSUME offset >= Len(u8), Len(u8) > 0 PROVE sent[Len(sent)].pct = 100
  <2>1. Len(sent) \in 1..Len(sent) /\ MinOf(Len(sent) * chunkSize, Len(u8)) = Len(u8)
    BY <1>2 DEF PInv, MinOf
  <2>2. QED
    BY <1>2, <2>1 DEF PInv, PctAfter
<1>3. QED
  BY <1>1, <1>2 DEF ProgressMonotone

-----------------------------------------------------------------------------
\* For every image, chunk size and bytesToB64() piece length, the upload
\* loop's progress line never goes back and ends at 100%.
THEOREM ProgressCorrect == Spec => []ProgressMonotone
<1>1. Init => PInv
  BY InitPInv
<1>2. PInv /\ [Post]_vars => PInv'
  BY NextPInv
<1>3. PInv => ProgressMonotone
  BY PInvProgress
<1>4. QED
  BY <1>1, <1>2, <1>3, PTL DEF Spec

-----------------------------------------------------------------------------
(* The plan. The j-th request carries bytesToB64() of the j-th chunk of   *)
(* the reference plan; the device decodes it to that chunk, by            *)
(* Base64RoundTrip, once the piece loop of bytesToB64() is known to       *)
(* reassemble its input. That last fact is about a recursive function,    *)
(* which the provers cannot unfold: PlanCorrect takes it as hypothesis,   *)
(* and TLC checks it, through PlanMatchesReference, in run chunk_planner. *)

\* The j-th chunk of the reference plan.
ChunkText(j) == SubSeq(u8, (j - 1) * chunkSize + 1, MinOf(j * chunkSize, Len(u8)))

B64Inv == \A j \in 1..Len(sent) : sent[j].b64 = BytesToB64(ChunkText(j), Piece)

LEMMA InitB64Inv == Init => B64Inv
BY DEF Init, B64Inv

LEMMA NextB64Inv == PInv /\ B64Inv /\ [Post]_vars => B64Inv'
<1> SUFFICES ASSUME PInv, B64Inv, [Post]_vars PROVE B64Inv'
  OBVIOUS
<1>1. CASE Post
  <2> DEFINE n == Len(sent)
             next == MinOf(offset + chunkSize, Len(u8))
  <2>1. n \in Nat /\ chunkSize \in Nat \ {0} /\ offset = n * chunkSize
    BY <1>1 DEF Post, PInv, MinOf
  <2>2. sent' = Append(sent, [off |-> offset,
                              b64 |-> BytesToB64(SubSeq(u8, offset + 1, next), Piece),
                              pct |-> (next * 100) \div Len(u8)])
        /\ u8' = u8 /\ chunkSize' = chunkSize
    BY <1>1 DEF Post
  <2>3. \A j \in Nat : ChunkText(j)' = ChunkText(j)
    BY <2>2 DEF ChunkText
  <2>4. Len(sent') = n + 1 /\ \A j \in 1..n : sent'[j] = sent[j]
    BY <2>2 DEF PInv
  <2>5. sent'[n + 1].b64 = BytesToB64(ChunkText(n + 1), Piece)
    <3>1. offset + 1 = ((n + 1) - 1) * chunkSize + 1
          /\ next = MinOf((n + 1) * chunkSize, Len(u8))
      BY <2>1 DEF MinOf
    <3>2. QED
      BY <2>2, <3>1 DEF PInv, ChunkText
  <2>6. QED
    BY <2>1, <2>3, <2>4, <2>5 DEF B64Inv
<1>2. CASE UNCHANGED vars
  BY <1>2 DEF vars, B64Inv, ChunkText
<1>3. QED
  BY <1>1, <1>2

\* Once the loop has ended, it sent ceil(length / chunkSize) requests.
LEMMA RequestCount ==
    ASSUME PInv, offset >= Len(u8)
    PROVE  Len(sent) = (Len(u8) + chunkSize - 1) \div chunkSize
<1> DEFINE n == Len(sent)
           L == Len(u8)
           C == chunkSize
<1>1. n \in Nat /\ L \in Nat /\ C \in Nat \ {0}
  BY DEF PInv
<1>2. CASE n = 0
  BY <1>1, <1>2 DEF PInv, MinOf
<1>3. CASE n > 0
  <2>1. (n - 1) * C < L /\ L <= n * C
    BY <1>1, <1>3 DEF PInv, MinOf
  <2>2. n * C <= L + C - 1 /\ L + C - 1 < (n + 1) * C
    BY <1>1, <2>1
  <2>3. QED
    BY <1>1, <2>2
<1>4. QED
  BY <1>1, <1>2, <1>3

\* The j-th chunk, for j up to the number of requests, starts below the
\* end of the image and is the reference plan's j-th chunk.
LEMMA ChunkOfPlan ==
    ASSUME PInv, NEW j \in 1..Len(sent)
    PROVE  /\ ChunkText(j) \in Seq(0..255)
           /\ Len(ChunkText(j)) = MinOf(chunkSize, Len(u8) - (j - 1) * chunkSize)
           /\ ChunkText(j) = SubSeq(u8, sent[j].off + 1, sent[j].off + Len(ChunkText(j)))
<1> DEFINE n == Len(sent)
           L == Len(u8)
           C == chunkSize
           lo == (j - 1) * C
           hi == MinOf(j * C, L)
<1>1. n \in Nat /\ L \in Nat /\ C \in Nat \ {0} /\ u8 \in Seq(0..255)
  BY DEF PInv
<1>2. lo \in Nat /\ lo < L /\ j * C = lo + C
  <2>1. (n - j) * C \in Nat /\ j - 1 \in Nat
    BY <1>1
  <2>2. (n - 1) * C = lo + (n - j) * C /\ lo = (j - 1) * C /\ j * C = lo + C
    BY <1>1, SMT
  <2>3. lo \in Nat
    BY <1>1, <2>1, SMT
  <2>4. (n - 1) * C < L
    BY <1>1 DEF PInv
  <2>5. QED
    BY <2>1, <2>2, <2>3, <2>4
<1>3. lo \in Nat /\ lo < L /\ hi \in (lo + 1)..L
  BY <1>1, <1>2 DEF MinOf
<1>4. \A i \in (lo + 1)..hi : u8[i] \in 0..255
  <2> SUFFICES ASSUME NEW i \in (lo + 1)..hi PROVE u8[i] \in 0..255
    OBVIOUS
  <2>1. i \in 1..Len(u8)
    BY <1>3
  <2>2. QED
    BY <1>1, <2>1, ElementOfSeq
<1>5. /\ ChunkText(j) \in Seq(0..255)
      /\ Len(ChunkText(j)) = hi - lo
  <2>1. lo + 1 \in Int /\ hi \in Int /\ lo + 1 <= hi
    BY <1>3
  <2>2. /\ SubSeq(u8, lo + 1, hi) \in Seq(0..255)
        /\ Len(SubSeq(u8, lo + 1, hi)) = IF lo + 1 <= hi THEN hi - (lo + 1) + 1 ELSE 0
    BY <1>4, <2>1, SubSeqProperties
  <2>3. ChunkText(j) = SubSeq(u8, lo + 1, hi)
    BY DEF ChunkText
  <2>4. ChunkText(j) \in Seq(0..255)
    BY <2>2, <2>3, Zenon
  <2>5. Len(ChunkText(j)) = hi - lo
    <3>1. Len(ChunkText(j)) = IF lo + 1 <= hi THEN hi - (lo + 1) + 1 ELSE 0
      BY <2>2, <2>3, Zenon
    <3>2. \A x, y \in Int : x + 1 <= y =>
            (IF x + 1 <= y THEN y - (x + 1) + 1 ELSE 0) = y - x
      OBVIOUS
    <3>3. lo \in Int /\ hi \in Int
      BY <1>3
    <3>4. QED
      BY <2>1, <3>1, <3>2, <3>3, Zenon
  <2>6. QED
    BY <2>4, <2>5
<1>6. hi - lo = MinOf(C, L - lo) /\ sent[j].off = lo
  <2>1. hi - lo = MinOf(C, L - lo)
    <3>1. \A x, c, l \in Int : MinOf(x + c, l) - x = MinOf(c, l - x)
      BY DEF MinOf
    <3>2. hi = MinOf(lo + C, L)
      BY <1>2, Zenon
    <3>3. QED
      BY <1>1, <1>2, <3>1, <3>2
  <2>2. sent[j].off = lo
    BY DEF PInv
  <2>3. QED
    BY <2>1, <2>2
<1>7. QED
  <2>1. ChunkText(j) = SubSeq(u8, lo + 1, hi)
    BY DEF ChunkText
  <2>2. sent[j].off + Len(ChunkText(j)) = hi
    BY <1>3, <1>5, <1>6
  <2>3. QED
    BY <1>5, <1>6, <2>1, <2>2, SMTT(30)

\* If the piece loop of bytesToB64() hands btoa() the bytes it was given,
\* the requests of the upload loop are the reference plan, each decoded
\* by the device to the image's bytes at its offset.
LEMMA PlanAtEnd ==
    ASSUME \A c \in Seq(0..255) : BinaryString(c, Piece) = c,
           PInv, B64Inv
    PROVE  PlanMatchesReference
<1> SUFFICES ASSUME offset >= Len(u8)
             PROVE  LET data(j) == Atob(sent[j].b64)
                    IN  /\ [j \in 1..Len(sent) |-> [off |-> sent[j].off, len |-> Len(data(j))]]
                             = RefPlan(Len(u8), chunkSize)
                        /\ \A j \in 1..Len(sent) :
                             data(j) = SubSeq(u8, sent[j].off + 1, sent[j].off + Len(data(j)))
  BY DEF PlanMatchesReference
<1>1. ASSUME NEW j \in 1..Len(sent) PROVE Atob(sent[j].b64) = ChunkText(j)
  <2>1. ChunkText(j) \in Seq(0..255)
    BY ChunkOfPlan
  <2>2. sent[j].b64 = Btoa(ChunkText(j))
    BY <2>1 DEF B64Inv, BytesToB64
  <2>3. QED
    BY <2>1, <2>2, Base64RoundTrip
<1>2. Len(sent) = (Len(u8) + chunkSize - 1) \div chunkSize
  BY RequestCount
<1>3. \A j \in 1..Len(sent) :
        /\ sent[j].off = (j - 1) * chunkSize
        /\ Len(ChunkText(j)) = MinOf(chunkSize, Len(u8) - (j - 1) * chunkSize)
        /\ ChunkText(j) = SubSeq(u8, sent[j].off + 1, sent[j].off + Len(ChunkText(j)))
  BY ChunkOfPlan DEF PInv
<1>4. QED
  BY <1>1, <1>2, <1>3 DEF RefPlan

\* For every image and chunk size, when the upload loop of fwFlash() ends
\* the chunks the device decodes are those of the spec's plan: ceil(L / C)
\* chunks at offsets 0, C, 2C, ..., each C bytes but the last, holding
\* the image's bytes at their offsets. Hypothesis: the piece loop of
\* bytesToB64() reassembles its input (a recursive function; checked by
\* TLC on the pieces of run chunk_planner, not provable here).
THEOREM PlanCorrect ==
    ASSUME \A c \in Seq(0..255) : BinaryString(c, Piece) = c
    PROVE  Spec => []PlanMatchesReference
<1>1. Init => PInv /\ B64Inv
  BY InitPInv, InitB64Inv
<1>2. PInv /\ B64Inv /\ [Post]_vars => PInv' /\ B64Inv'
  BY NextPInv, NextB64Inv
<1>3. PInv /\ B64Inv => PlanMatchesReference
  BY PlanAtEnd
<1>4. QED
  BY <1>1, <1>2, <1>3, PTL DEF Spec

=============================================================================
