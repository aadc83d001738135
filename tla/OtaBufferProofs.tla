--------------------------- MODULE OtaBufferProofs ---------------------------
(***************************************************************************)
(* Proof of UploadedPrefixOnDevice for a single session: while fwFlash() *)
(* uploads or verifies, the device's receive buffer has the image's size *)
(* and holds the image's bytes below offset. The invariant is not         *)
(* inductive alone: offset advances on an ota_chunk reply, so BufInv also *)
(* says what an accepted reply of ota_begin and of ota_chunk tells about  *)
(* the buffer. With two sessions the property fails: a second session's   *)
(* ota_begin replaces the buffer under the first one.                     *)
(***************************************************************************)
EXTENDS OtaSessionProofs, SequenceTheorems

\* The device's buffer holds the image f below position n.
HoldsPrefix(f, n) == \A j \in 1..n : devBuf[j] = f[j]

BufInv(s) ==
    /\ pc[s] \in {"read", "begin"} => offset[s] = 0
    /\ (pc[s] = "begin" /\ net[s] = "ok") => Len(devBuf) = Len(file[s])
    /\ pc[s] \in {"chunk", "end"} =>
          /\ Len(devBuf) = Len(file[s])
          /\ HoldsPrefix(file[s], offset[s])
    /\ (pc[s] = "chunk" /\ net[s] = "ok") => HoldsPrefix(file[s], NextOffset(s))

-----------------------------------------------------------------------------
\* The chunk of the upload loop lies within the image: nextOffset is past
\* offset and at most the length, and chunkBin holds the image's bytes
\* from offset on.
LEMMA ChunkInImage ==
    ASSUME TypeOK, NEW s \in Sessions, SessionInv(s), pc[s] = "chunk"
    PROVE  /\ file[s] \in Seq(Bytes)
           /\ offset[s] \in Nat
           /\ NextOffset(s) \in (offset[s] + 1)..Len(file[s])
           /\ Len(ChunkBin(s)) = NextOffset(s) - offset[s]
           /\ \A j \in 1..Len(ChunkBin(s)) :
                 ChunkBin(s)[j] = file[s][offset[s] + j]
<1>1. file[s] \in Seq(Bytes) /\ offset[s] \in 0..(Len(file[s]) - 1)
  BY FileIsByteSeq DEF SessionInv
<1>2. NextOffset(s) \in (offset[s] + 1)..Len(file[s])
  BY <1>1, ChunkSizeAssumption DEF NextOffset, MinOf
<1>3. \A j \in (offset[s] + 1)..NextOffset(s) : file[s][j] \in Bytes
  BY <1>1, <1>2, ElementOfSeq
<1>4. /\ Len(SubSeq(file[s], offset[s] + 1, NextOffset(s)))
           = NextOffset(s) - offset[s]
      /\ \A j \in 1..(NextOffset(s) - offset[s]) :
           SubSeq(file[s], offset[s] + 1, NextOffset(s))[j] = file[s][offset[s] + j]
  <2>1. offset[s] + 1 \in Int /\ NextOffset(s) \in Int
    BY <1>1, <1>2
  <2>2. /\ Len(SubSeq(file[s], offset[s] + 1, NextOffset(s)))
             = IF offset[s] + 1 <= NextOffset(s)
                 THEN NextOffset(s) - (offset[s] + 1) + 1 ELSE 0
        /\ \A j \in 1..(NextOffset(s) - (offset[s] + 1) + 1) :
             SubSeq(file[s], offset[s] + 1, NextOffset(s))[j]
               = file[s][(offset[s] + 1) + j - 1]
    BY <1>3, <2>1, SubSeqProperties
  <2>3. /\ offset[s] + 1 <= NextOffset(s)
        /\ NextOffset(s) - (offset[s] + 1) + 1 = NextOffset(s) - offset[s]
        /\ \A j \in Int : (offset[s] + 1) + j - 1 = offset[s] + j
    BY <1>1, <1>2
  <2>4. Len(SubSeq(file[s], offset[s] + 1, NextOffset(s))) = NextOffset(s) - offset[s]
    BY <2>2, <2>3
  <2>5. ASSUME NEW j \in 1..(NextOffset(s) - offset[s])
        PROVE  SubSeq(file[s], offset[s] + 1, NextOffset(s))[j] = file[s][offset[s] + j]
    <3>1. j \in 1..(NextOffset(s) - (offset[s] + 1) + 1) /\ j \in Int
      BY <2>3
    <3>2. QED
      BY <2>2, <2>3, <3>1
  <2>6. QED
    BY <2>4, <2>5
<1>5. QED
  BY <1>1, <1>2, <1>4, SMTT(30) DEF ChunkBin

LEMMA InitBufInv ==
    ASSUME NEW s0 \in Sessions PROVE Init => BufInv(s0)
BY DEF Init, BufInv

\* A step that leaves the device's buffer and the session's locals alone,
\* and does not newly produce an accepted reply, keeps BufInv.
LEMMA BufFrame ==
    ASSUME NEW s0, BufInv(s0), devBuf' = devBuf,
           pc'[s0] = pc[s0], file'[s0] = file[s0], offset'[s0] = offset[s0],
           net'[s0] = "ok" => net[s0] = "ok"
    PROVE  BufInv(s0)'
BY DEF BufInv, HoldsPrefix, NextOffset

LEMMA NextBufInv ==
    ASSUME NEW s0, Sessions = {s0}, IInv, BufInv(s0), [Next]_vars
    PROVE  BufInv(s0)'
<1>0. s0 \in Sessions /\ TypeOK /\ SessionInv(s0)
  BY DEF IInv
<1>1. CASE SelectFile \/ UNCHANGED vars
  BY <1>1, BufFrame DEF SelectFile, vars
<1>2. CASE FwFlash(s0)
  \* offset is 0 while the session is idle.
  BY <1>0, <1>2 DEF FwFlash, SessionInv, BufInv, TypeOK
<1>3. CASE FileLoaded(s0) \/ FileReadFailed(s0) \/ EndAccepted(s0)
           \/ WriteAccepted(s0)
  \* The session enters a phase BufInv says nothing of beyond offset = 0,
  \* with no accepted reply.
  BY <1>0, <1>3 DEF FileLoaded, FileReadFailed, EndAccepted, WriteAccepted,
                    Issue, Abort, BufInv, TypeOK
<1>4. CASE BeginAccepted(s0)
  \* The loop starts at offset 0 on a buffer of the image's size.
  <2>1. Len(devBuf) = Len(file[s0]) /\ offset[s0] = 0
    BY <1>4 DEF BeginAccepted, BufInv
  <2>2. QED
    BY <1>0, <1>4, <2>1 DEF BeginAccepted, Issue, BufInv, HoldsPrefix, TypeOK
<1>5. CASE ChunkAccepted(s0)
  \* offset moves to nextOffset, below which the buffer holds the image.
  <2>1. Len(devBuf) = Len(file[s0]) /\ HoldsPrefix(file[s0], NextOffset(s0))
    BY <1>5 DEF ChunkAccepted, BufInv
  <2>2. QED
    BY <1>0, <1>5, <2>1 DEF ChunkAccepted, Issue, BufInv, HoldsPrefix, TypeOK
<1>6. CASE RetryWake(s0) \/ RequestLost(s0)
  BY <1>0, <1>6, BufFrame DEF RetryWake, RequestLost, TypeOK
<1>7. CASE AttemptFailed(s0)
  <2>1. CASE attempt[s0] + 1 < Tries
    BY <1>0, <1>7, <2>1, BufFrame DEF AttemptFailed, TypeOK
  <2>2. CASE ~(attempt[s0] + 1 < Tries)
    BY <1>0, <1>7, <2>2 DEF AttemptFailed, Abort, BufInv, TypeOK
  <2>3. QED
    BY <2>1, <2>2
<1>8. CASE Deliver(s0)
  <2>0. pc' = pc /\ file' = file /\ offset' = offset
    BY <1>8 DEF Deliver
  <2>1. CASE DeviceBegin(s0)
    \* A fresh buffer of the image's size.
    <3>1. Len(file[s0]) \in Nat
      BY <1>0, <2>1, FileIsByteSeq DEF DeviceBegin, SessionInv
    <3>2. Len(devBuf') = Len(file[s0])
      BY <2>1, <3>1 DEF DeviceBegin
    <3>3. QED
      BY <2>0, <2>1, <3>2 DEF DeviceBegin, BufInv
  <2>2. CASE DeviceChunk(s0)
    \* The chunk fits; it is stored at offset, and the buffer then holds
    \* the image up to nextOffset.
    <3>1. /\ file[s0] \in Seq(Bytes) /\ offset[s0] \in Nat
          /\ NextOffset(s0) \in (offset[s0] + 1)..Len(file[s0])
          /\ Len(ChunkBin(s0)) = NextOffset(s0) - offset[s0]
          /\ \A j \in 1..Len(ChunkBin(s0)) :
                ChunkBin(s0)[j] = file[s0][offset[s0] + j]
      BY <1>0, <2>2, ChunkInImage DEF DeviceChunk
    <3>2. Len(devBuf) = Len(file[s0]) /\ HoldsPrefix(file[s0], offset[s0])
      BY <2>2 DEF DeviceChunk, BufInv
    <3>3. devBuf \in Seq(Bytes \cup {NoByte})
      BY <1>0 DEF TypeOK
    <3>4. offset[s0] + Len(ChunkBin(s0)) <= Len(devBuf)
      BY <3>1, <3>2, <3>3
    <3>5. devBuf' = [j \in 1..Len(devBuf) |->
                       IF offset[s0] < j /\ j <= offset[s0] + Len(ChunkBin(s0))
                         THEN ChunkBin(s0)[j - offset[s0]] ELSE devBuf[j]]
      BY <2>2, <3>4 DEF DeviceChunk
    <3>6. Len(devBuf') = Len(devBuf)
      BY <3>3, <3>5
    <3>7. \A j \in 1..NextOffset(s0) : devBuf'[j] = file[s0][j]
      <4> SUFFICES ASSUME NEW j \in 1..NextOffset(s0)
                   PROVE  devBuf'[j] = file[s0][j]
        OBVIOUS
      <4>1. j \in 1..Len(devBuf)
        BY <3>1, <3>2
      <4>2. CASE j <= offset[s0]
        <5>1. devBuf'[j] = devBuf[j]
          BY <3>1, <3>5, <4>1, <4>2
        <5>2. j \in 1..offset[s0]
          BY <3>1, <4>2
        <5>3. QED
          BY <3>2, <5>1, <5>2 DEF HoldsPrefix
      <4>3. CASE j > offset[s0]
        <5>1. j - offset[s0] \in 1..Len(ChunkBin(s0))
          BY <3>1, <4>3
        <5>2. devBuf'[j] = ChunkBin(s0)[j - offset[s0]]
          BY <3>1, <3>5, <4>1, <4>3
        <5>3. QED
          BY <3>1, <5>1, <5>2, SMTT(30)
      <4>4. QED
        BY <4>2, <4>3, <3>1
    <3>8. HoldsPrefix(file[s0], NextOffset(s0))' /\ HoldsPrefix(file[s0], offset[s0])'
      <4>1. NextOffset(s0)' = NextOffset(s0) /\ offset'[s0] = offset[s0]
              /\ file'[s0] = file[s0]
        BY <2>0 DEF NextOffset
      <4>2. \A j \in 1..offset[s0] : devBuf'[j] = file[s0][j]
        BY <3>1, <3>7
      <4>3. QED
        BY <2>0, <3>7, <4>1, <4>2 DEF HoldsPrefix
    <3>9. QED
      BY <2>0, <2>2, <3>2, <3>6, <3>7, <3>8 DEF DeviceChunk, BufInv, NextOffset, ChunkBin
  <2>3. CASE DeviceEnd(s0) \/ DeviceWrite(s0)
    \* The buffer is left alone; the session is past the upload.
    BY <2>0, <2>3 DEF DeviceEnd, DeviceWrite, BufInv, HoldsPrefix, NextOffset
  <2>4. QED
    BY <1>8, <2>1, <2>2, <2>3 DEF Deliver
<1>9. QED
  <2>1. Next => \/ SelectFile \/ FwFlash(s0) \/ FileLoaded(s0)
                \/ BeginAccepted(s0) \/ EndAccepted(s0) \/ RetryWake(s0)
                \/ RequestLost(s0) \/ ChunkAccepted(s0) \/ FileReadFailed(s0)
                \/ AttemptFailed(s0) \/ WriteAccepted(s0) \/ Deliver(s0)
    BY DEF Next, Session, Network
  <2>2. QED
    BY <2>1, <1>1, <1>2, <1>3, <1>4, <1>5, <1>6, <1>7, <1>8

-----------------------------------------------------------------------------
\* With a single session, offset only advances over bytes the device has
\* stored: while fwFlash() uploads or verifies, the device's buffer has
\* the image's size and holds its bytes below offset, whatever ota_chunk
\* requests or replies were lost and re-sent (a re-sent chunk rewrites the
\* same bytes at the same offset).
THEOREM UploadedPrefix ==
    ASSUME NEW s0, Sessions = {s0}
    PROVE  Spec => []UploadedPrefixOnDevice
<1>1. Init => IInv /\ BufInv(s0)
  BY InitIInv, InitBufInv
<1>2. IInv /\ BufInv(s0) /\ [Next]_vars => IInv' /\ BufInv(s0)'
  BY NextIInv, NextBufInv
<1>3. BufInv(s0) => UploadedPrefixOnDevice
  BY DEF BufInv, HoldsPrefix, UploadedPrefixOnDevice
<1>4. QED
  BY <1>1, <1>2, <1>3, PTL DEF Spec

=============================================================================
