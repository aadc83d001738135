-------------------------- MODULE OtaSessionProofs --------------------------
(***************************************************************************)
(* Proofs about OtaSession for every value of its constants: type         *)
(* correctness and UploadCompleteBeforeEnd. Neither invariant is          *)
(* inductive on its own; both follow from IInv, which adds what each      *)
(* session's fwFlash() locals satisfy at every await.                     *)
(***************************************************************************)
EXTENDS OtaSession, TLAPS

\* What holds of one session's locals between two awaits: the file it
\* read is an image, offset stays within it, the progress line shows the
\* percentage of offset, the loop runs only below the image's length and
\* is left with offset at that length, and a sleeping retry loop has a
\* try left.
SessionInv(s) ==
    /\ pc[s] = "idle" => offset[s] = 0 /\ percent[s] = 0
    /\ pc[s] # "idle" =>
         /\ file[s] \in Files
         /\ offset[s] \in 0..Len(file[s])
         /\ percent[s] = IF Len(file[s]) = 0 THEN 0
                         ELSE (offset[s] * 100) \div Len(file[s])
    /\ pc[s] = "chunk" => offset[s] < Len(file[s])
    /\ pc[s] \in {"end", "write", "done"} => offset[s] = Len(file[s])
    /\ net[s] = "sleeping" => attempt[s] + 1 < Tries
    /\ net[s] # "none" => pc[s] \in {"begin", "chunk", "end", "write"}

IInv == TypeOK /\ \A s \in Sessions : SessionInv(s)

-----------------------------------------------------------------------------
\* The percentage of a prefix of a non-empty image lies in 0..100, and is
\* 100 for the whole image.
LEMMA PercentRange ==
    \A n \in Nat \ {0} : \A k \in 0..n :
        /\ (k * 100) \div n \in 0..100
        /\ k = n => (k * 100) \div n = 100
<1> SUFFICES ASSUME NEW n \in Nat \ {0}, NEW k \in 0..n
             PROVE  /\ (k * 100) \div n \in 0..100
                    /\ k = n => (k * 100) \div n = 100
  OBVIOUS
<1>1. (k * 100) \div n \in 0..100
  BY SMT
<1>2. (n * 100) \div n = 100
  BY SMT
<1>3. QED
  BY <1>1, <1>2

LEMMA FileIsByteSeq ==
    ASSUME NEW f \in Files
    PROVE  f \in Seq(Bytes)
BY FilesAssumption

-----------------------------------------------------------------------------
LEMMA InitIInv == Init => IInv
<1> SUFFICES ASSUME Init PROVE IInv
  OBVIOUS
<1>1. TypeOK
  <2>1. << >> \in Seq(Bytes \cup {NoByte})
    OBVIOUS
  <2>2. attempt \in [Sessions -> 0..(Tries - 1)]
    BY TriesAssumption DEF Init
  <2>3. pc \in [Sessions -> Phases] /\ net \in [Sessions -> NetStates]
    BY DEF Init, Phases, NetStates
  <2>4. offset \in [Sessions -> Nat] /\ percent \in [Sessions -> 0..100]
    BY DEF Init
  <2>5. file \in [Sessions -> Files \cup {NoFile}]
    BY DEF Init
  <2>6. QED
    BY <2>1, <2>2, <2>3, <2>4, <2>5 DEF Init, TypeOK
<1>2. \A s \in Sessions : SessionInv(s)
  BY DEF Init, SessionInv
<1>3. QED
  BY <1>1, <1>2 DEF IInv

\* The device's receive buffer stays a sequence of bytes and markers when
\* a chunk of a session's image is stored at its offset.
LEMMA ChunkStoreType ==
    ASSUME TypeOK, NEW s \in Sessions, SessionInv(s), pc[s] = "chunk",
           offset[s] + Len(ChunkBin(s)) <= Len(devBuf)
    PROVE  [i \in 1..Len(devBuf) |->
              IF offset[s] < i /\ i <= offset[s] + Len(ChunkBin(s))
                THEN ChunkBin(s)[i - offset[s]] ELSE devBuf[i]]
             \in Seq(Bytes \cup {NoByte})
<1>1. file[s] \in Seq(Bytes) /\ offset[s] \in 0..Len(file[s])
  BY FileIsByteSeq DEF SessionInv
<1>2. NextOffset(s) \in offset[s]..Len(file[s])
  BY <1>1, ChunkSizeAssumption DEF NextOffset, MinOf
<1>3. ChunkBin(s) \in Seq(Bytes)
  BY <1>1, <1>2 DEF ChunkBin
<1>4. QED
  BY <1>3 DEF TypeOK

\* A session whose locals a step leaves alone keeps SessionInv.
LEMMA SessionFrame ==
    ASSUME NEW t, SessionInv(t),
           pc'[t] = pc[t], file'[t] = file[t], offset'[t] = offset[t],
           percent'[t] = percent[t], attempt'[t] = attempt[t], net'[t] = net[t]
    PROVE  SessionInv(t)'
BY DEF SessionInv

LEMMA NextIInv == IInv /\ [Next]_vars => IInv'
<1> SUFFICES ASSUME IInv, [Next]_vars PROVE IInv'
  OBVIOUS
<1>0. TypeOK /\ \A t \in Sessions : SessionInv(t)
  BY DEF IInv
<1>1. CASE SelectFile
  <2>1. TypeOK'
    BY <1>0, <1>1 DEF SelectFile, TypeOK
  <2>2. ASSUME NEW t \in Sessions PROVE SessionInv(t)'
    BY <1>0, <1>1, SessionFrame DEF SelectFile
  <2>3. QED
    BY <2>1, <2>2 DEF IInv
<1>2. ASSUME NEW s \in Sessions, FwFlash(s) PROVE IInv'
  <2>1. TypeOK'
    BY <1>0, <1>2 DEF FwFlash, TypeOK, Phases
  <2>2. ASSUME NEW t \in Sessions PROVE SessionInv(t)'
    <3>1. CASE t = s
      <4>1. selected \in Files /\ offset[s] = 0 /\ percent[s] = 0 /\ net[s] = "none"
        BY <1>0, <1>2 DEF FwFlash, TypeOK, SessionInv
      <4>2. Len(selected) \in Nat
        BY <4>1, FileIsByteSeq
      <4>3. Len(selected) # 0 => (0 * 100) \div Len(selected) = 0
        BY <4>2
      <4>4. QED
        BY <1>0, <1>2, <3>1, <4>1, <4>3 DEF FwFlash, TypeOK, SessionInv
    <3>2. CASE t # s
      BY <1>0, <1>2, <3>2, SessionFrame DEF FwFlash, TypeOK
    <3>3. QED
      BY <3>1, <3>2
  <2>3. QED
    BY <2>1, <2>2 DEF IInv
<1>3. ASSUME NEW s \in Sessions, FileLoaded(s) PROVE IInv'
  <2>1. TypeOK'
    BY <1>0, <1>3, TriesAssumption DEF FileLoaded, Issue, TypeOK, Phases, NetStates
  <2>2. ASSUME NEW t \in Sessions PROVE SessionInv(t)'
    <3>1. CASE t = s
      BY <1>0, <1>3, <3>1 DEF FileLoaded, Issue, TypeOK, SessionInv
    <3>2. CASE t # s
      BY <1>0, <1>3, <3>2, SessionFrame DEF FileLoaded, Issue, TypeOK
    <3>3. QED
      BY <3>1, <3>2
  <2>3. QED
    BY <2>1, <2>2 DEF IInv
<1>4. ASSUME NEW s \in Sessions, FileReadFailed(s) PROVE IInv'
  <2>1. TypeOK'
    BY <1>0, <1>4 DEF FileReadFailed, Abort, TypeOK, Phases, NetStates
  <2>2. ASSUME NEW t \in Sessions PROVE SessionInv(t)'
    <3>1. CASE t = s
      BY <1>0, <1>4, <3>1 DEF FileReadFailed, Abort, TypeOK, SessionInv
    <3>2. CASE t # s
      BY <1>0, <1>4, <3>2, SessionFrame DEF FileReadFailed, Abort, TypeOK
    <3>3. QED
      BY <3>1, <3>2
  <2>3. QED
    BY <2>1, <2>2 DEF IInv
<1>5. ASSUME NEW s \in Sessions, BeginAccepted(s) PROVE IInv'
  <2>1. TypeOK'
    BY <1>0, <1>5, TriesAssumption DEF BeginAccepted, Issue, TypeOK, Phases, NetStates
  <2>2. ASSUME NEW t \in Sessions PROVE SessionInv(t)'
    <3>1. CASE t = s
      BY <1>0, <1>5, <3>1 DEF BeginAccepted, Issue, TypeOK, SessionInv
    <3>2. CASE t # s
      BY <1>0, <1>5, <3>2, SessionFrame DEF BeginAccepted, Issue, TypeOK
    <3>3. QED
      BY <3>1, <3>2
  <2>3. QED
    BY <2>1, <2>2 DEF IInv
<1>6. ASSUME NEW s \in Sessions, ChunkAccepted(s) PROVE IInv'
  <2>1. file[s] \in Files /\ offset[s] \in 0..Len(file[s]) /\ offset[s] < Len(file[s])
    BY <1>0, <1>6 DEF ChunkAccepted, SessionInv
  <2>2. Len(file[s]) \in Nat \ {0}
    BY <2>1, FileIsByteSeq
  <2>3. NextOffset(s) \in (offset[s] + 1)..Len(file[s])
    BY <2>1, <2>2, ChunkSizeAssumption DEF NextOffset, MinOf
  <2>4. /\ (NextOffset(s) * 100) \div Len(file[s]) \in 0..100
        /\ NextOffset(s) = Len(file[s]) => (NextOffset(s) * 100) \div Len(file[s]) = 100
    <3>1. NextOffset(s) \in 0..Len(file[s])
      BY <2>1, <2>3
    <3>2. QED
      BY <2>2, <3>1, PercentRange
  <2>5. TypeOK'
    BY <1>0, <1>6, <2>3, <2>4, TriesAssumption, SMTT(30) DEF ChunkAccepted, Issue, TypeOK, Phases, NetStates
  <2>6. ASSUME NEW t \in Sessions PROVE SessionInv(t)'
    <3>1. CASE t = s
      BY <1>0, <1>6, <2>1, <2>2, <2>3, <2>4, <3>1 DEF ChunkAccepted, Issue, TypeOK, SessionInv
    <3>2. CASE t # s
      BY <1>0, <1>6, <3>2, SessionFrame DEF ChunkAccepted, Issue, TypeOK
    <3>3. QED
      BY <3>1, <3>2
  <2>7. QED
    BY <2>5, <2>6 DEF IInv
<1>7. ASSUME NEW s \in Sessions, EndAccepted(s) PROVE IInv'
  <2>1. TypeOK'
    BY <1>0, <1>7, TriesAssumption DEF EndAccepted, Issue, TypeOK, Phases, NetStates
  <2>2. ASSUME NEW t \in Sessions PROVE SessionInv(t)'
    <3>1. CASE t = s
      BY <1>0, <1>7, <3>1 DEF EndAccepted, Issue, TypeOK, SessionInv
    <3>2. CASE t # s
      BY <1>0, <1>7, <3>2, SessionFrame DEF EndAccepted, Issue, TypeOK
    <3>3. QED
      BY <3>1, <3>2
  <2>3. QED
    BY <2>1, <2>2 DEF IInv
<1>8. ASSUME NEW s \in Sessions, WriteAccepted(s) PROVE IInv'
  <2>1. TypeOK'
    BY <1>0, <1>8 DEF WriteAccepted, TypeOK, Phases, NetStates
  <2>2. ASSUME NEW t \in Sessions PROVE SessionInv(t)'
    <3>1. CASE t = s
      BY <1>0, <1>8, <3>1 DEF WriteAccepted, TypeOK, SessionInv
    <3>2. CASE t # s
      BY <1>0, <1>8, <3>2, SessionFrame DEF WriteAccepted, TypeOK
    <3>3. QED
      BY <3>1, <3>2
  <2>3. QED
    BY <2>1, <2>2 DEF IInv
<1>9. ASSUME NEW s \in Sessions, AttemptFailed(s) PROVE IInv'
  <2>1. TypeOK'
    BY <1>0, <1>9 DEF AttemptFailed, Abort, TypeOK, Phases, NetStates
  <2>2. ASSUME NEW t \in Sessions PROVE SessionInv(t)'
    <3>1. CASE t = s /\ attempt[s] + 1 < Tries
      BY <1>0, <1>9, <3>1 DEF AttemptFailed, TypeOK, SessionInv
    <3>4. CASE t = s /\ ~(attempt[s] + 1 < Tries)
      BY <1>0, <1>9, <3>4, ZenonT(40) DEF AttemptFailed, Abort, TypeOK, SessionInv
    <3>2. CASE t # s
      BY <1>0, <1>9, <3>2, SessionFrame DEF AttemptFailed, Abort, TypeOK
    <3>3. QED
      BY <3>1, <3>2, <3>4
  <2>3. QED
    BY <2>1, <2>2 DEF IInv
<1>10. ASSUME NEW s \in Sessions, RetryWake(s) PROVE IInv'
  <2>1. TypeOK'
    BY <1>0, <1>10, TriesAssumption, SMTT(30) DEF RetryWake, TypeOK, SessionInv, NetStates
  <2>2. ASSUME NEW t \in Sessions PROVE SessionInv(t)'
    <3>1. CASE t = s
      BY <1>0, <1>10, <3>1 DEF RetryWake, TypeOK, SessionInv
    <3>2. CASE t # s
      BY <1>0, <1>10, <3>2, SessionFrame DEF RetryWake, TypeOK
    <3>3. QED
      BY <3>1, <3>2
  <2>3. QED
    BY <2>1, <2>2 DEF IInv
<1>11. ASSUME NEW s \in Sessions, RequestLost(s) PROVE IInv'
  <2>1. TypeOK'
    BY <1>0, <1>11 DEF RequestLost, TypeOK, NetStates
  <2>2. ASSUME NEW t \in Sessions PROVE SessionInv(t)'
    <3>1. CASE t = s
      BY <1>0, <1>11, <3>1 DEF RequestLost, TypeOK, SessionInv
    <3>2. CASE t # s
      BY <1>0, <1>11, <3>2, SessionFrame DEF RequestLost, TypeOK
    <3>3. QED
      BY <3>1, <3>2
  <2>3. QED
    BY <2>1, <2>2 DEF IInv
<1>12. ASSUME NEW s \in Sessions, Deliver(s) PROVE IInv'
  <2>1. PICK r \in {"ok", "rejected", "failed"} : net' = [net EXCEPT ![s] = r]
    BY <1>12 DEF Deliver, DeviceBegin, DeviceChunk, DeviceEnd, DeviceWrite, Reply
  <2>2. pc[s] \in {"begin", "chunk", "end", "write"} /\ file[s] \in Files
    BY <1>0, <1>12 DEF Deliver, SessionInv
  <2>3. devBuf' \in Seq(Bytes \cup {NoByte})
    <3>1. CASE DeviceBegin(s)
      <4>1. Len(file[s]) \in Nat
        BY <2>2, FileIsByteSeq
      <4>2. QED
        BY <3>1, <4>1 DEF DeviceBegin
    <3>2. CASE DeviceChunk(s)
      BY <1>0, <3>2, ChunkStoreType DEF DeviceChunk, TypeOK
    <3>3. CASE DeviceEnd(s) \/ DeviceWrite(s)
      BY <1>0, <3>3 DEF DeviceEnd, DeviceWrite, TypeOK
    <3>4. QED
      BY <1>12, <3>1, <3>2, <3>3 DEF Deliver
  <2>4. /\ devVerified' \in BOOLEAN
        /\ flash' \in Seq(Bytes \cup {NoByte}) \cup {OldImage}
        /\ flashedBy' \in Sessions \cup {NoSession}
    BY <1>0, <1>12 DEF Deliver, DeviceBegin, DeviceChunk, DeviceEnd, DeviceWrite, TypeOK
  <2>5. TypeOK'
    BY <1>0, <1>12, <2>1, <2>3, <2>4 DEF Deliver, TypeOK, NetStates
  <2>6. ASSUME NEW t \in Sessions PROVE SessionInv(t)'
    <3>1. CASE t = s
      BY <1>0, <1>12, <2>1, <2>2, <3>1 DEF Deliver, TypeOK, SessionInv
    <3>2. CASE t # s
      BY <1>0, <1>12, <2>1, <3>2, SessionFrame DEF Deliver, TypeOK
    <3>3. QED
      BY <3>1, <3>2
  <2>7. QED
    BY <2>5, <2>6 DEF IInv
<1>13. CASE UNCHANGED vars
  BY <1>0, <1>13 DEF vars, IInv, TypeOK, SessionInv
<1>14. QED
  BY <1>1, <1>2, <1>3, <1>4, <1>5, <1>6, <1>7, <1>8, <1>9, <1>10, <1>11,
     <1>12, <1>13 DEF Next, Session, Network

-----------------------------------------------------------------------------
\* fwFlash() keeps its state well-typed in every reachable state.
THEOREM TypeCorrect == Spec => []TypeOK
<1>1. Init => IInv
  BY InitIInv
<1>2. IInv /\ [Next]_vars => IInv'
  BY NextIInv
<1>3. IInv => TypeOK
  BY DEF IInv
<1>4. QED
  BY <1>1, <1>2, <1>3, PTL DEF Spec

\* ota_end is only posted once the upload loop covered the whole image,
\* with the progress line at 100% (0% for an empty image): the boundary
\* arithmetic of the loop (nextOffset = min(offset + chunkSize, length),
\* the short last chunk) is right for every chunk size, image and try
\* budget.
THEOREM UploadComplete == Spec => []UploadCompleteBeforeEnd
<1>1. IInv => UploadCompleteBeforeEnd
  <2> SUFFICES ASSUME IInv, NEW s \in Sessions,
                      pc[s] \in {"end", "write", "done"}
               PROVE  /\ offset[s] = Len(file[s])
                      /\ percent[s] = IF Len(file[s]) = 0 THEN 0 ELSE 100
    BY DEF UploadCompleteBeforeEnd
  <2>1. file[s] \in Files /\ offset[s] = Len(file[s])
        /\ percent[s] = IF Len(file[s]) = 0 THEN 0
                        ELSE (offset[s] * 100) \div Len(file[s])
    BY DEF IInv, SessionInv
  <2>2. Len(file[s]) \in Nat
    BY <2>1, FileIsByteSeq
  <2>3. CASE Len(file[s]) = 0
    BY <2>1, <2>3
  <2>4. CASE Len(file[s]) # 0
    <3>1. Len(file[s]) \in Nat \ {0} /\ Len(file[s]) \in 0..Len(file[s])
      BY <2>2, <2>4
    <3>2. (Len(file[s]) * 100) \div Len(file[s]) = 100
      BY <3>1, PercentRange
    <3>3. QED
      BY <2>1, <2>4, <3>2, ZenonT(40)
  <2>5. QED
    BY <2>3, <2>4
<1>2. QED
  BY <1>1, InitIInv, NextIInv, PTL DEF Spec

=============================================================================
