------------------------- MODULE OtaTransferProofs -------------------------
(***************************************************************************)
(* Proof that OtaSession with a single session implements OtaTransfer     *)
(* under the refinement mapping Transfer (safety part). Besides IInv of   *)
(* OtaSessionProofs it rests on WriterInv: what the device's checked      *)
(* buffer and flash hold while the one session runs. With two sessions    *)
(* the refinement fails (a second click while the first session runs).   *)
(***************************************************************************)
EXTENDS OtaSessionProofs

\* The device's buffer passes the ota_end check only with the session's
\* image in it, and an accepted ota_write reply means the flash holds
\* that image.
WriterInv(s) ==
    /\ devVerified => pc[s] # "idle" /\ devBuf = file[s]
    /\ (pc[s] = "write" /\ net[s] = "ok") => flash = file[s]

LEMMA InitWriterInv ==
    ASSUME NEW s0 \in Sessions PROVE Init => WriterInv(s0)
BY DEF Init, WriterInv

\* A step of the session's own request handling that leaves the device
\* and the file alone, and does not newly produce an accepted ota_write
\* reply, keeps WriterInv.
LEMMA WriterFrame ==
    ASSUME NEW s0, WriterInv(s0),
           devVerified' = devVerified, devBuf' = devBuf, flash' = flash,
           file'[s0] = file[s0], pc[s0] # "idle" => pc'[s0] # "idle",
           (pc'[s0] = "write" /\ net'[s0] = "ok") =>
               (pc[s0] = "write" /\ net[s0] = "ok")
    PROVE  WriterInv(s0)'
BY DEF WriterInv

LEMMA NextWriterInv ==
    ASSUME NEW s0, Sessions = {s0}, IInv, WriterInv(s0), [Next]_vars
    PROVE  WriterInv(s0)'
<1>0. s0 \in Sessions /\ TypeOK /\ SessionInv(s0)
  BY DEF IInv
<1>1. CASE SelectFile
  BY <1>1, WriterFrame DEF SelectFile
<1>2. CASE FwFlash(s0)
  \* The session was idle, so the buffer is unchecked.
  <2>1. ~devVerified
    BY <1>2 DEF FwFlash, WriterInv
  <2>2. QED
    BY <1>2, <2>1 DEF FwFlash, WriterInv
<1>3. CASE FileLoaded(s0) \/ BeginAccepted(s0) \/ EndAccepted(s0)
  BY <1>0, <1>3, WriterFrame DEF TypeOK, FileLoaded, BeginAccepted, EndAccepted, Issue
<1>4. CASE ChunkAccepted(s0) \/ RetryWake(s0) \/ RequestLost(s0)
  BY <1>0, <1>4, WriterFrame DEF TypeOK, ChunkAccepted, Issue, RetryWake, RequestLost
<1>5. CASE FileReadFailed(s0) \/ WriteAccepted(s0) \/ AttemptFailed(s0)
  BY <1>0, <1>5, WriterFrame DEF TypeOK, FileReadFailed, WriteAccepted, AttemptFailed, Abort
<1>6. CASE Deliver(s0)
  <2>1. pc' = pc /\ file' = file
    BY <1>6 DEF Deliver
  <2>2. pc[s0] # "idle"
    BY <1>0, <1>6 DEF Deliver, SessionInv
  <2>3. CASE DeviceBegin(s0) \/ DeviceChunk(s0)
    BY <2>1, <2>2, <2>3 DEF DeviceBegin, DeviceChunk, WriterInv
  <2>4. CASE DeviceEnd(s0)
    BY <2>1, <2>2, <2>4 DEF DeviceEnd, Crc32Of, WriterInv
  <2>5. CASE DeviceWrite(s0) /\ devVerified
    \* The checked buffer is the session's image; it goes to flash.
    BY <2>1, <2>2, <2>5 DEF DeviceWrite, WriterInv
  <2>6. CASE DeviceWrite(s0) /\ ~devVerified
    \* The write is refused: the reply is not ok.
    <3>1. net'[s0] \in {"rejected", "failed"}
      BY <1>0, <2>6 DEF DeviceWrite, Reply, TypeOK
    <3>2. QED
      BY <2>1, <2>2, <2>6, <3>1 DEF DeviceWrite, WriterInv
  <2>7. QED
    BY <1>6, <2>3, <2>4, <2>5, <2>6 DEF Deliver
<1>7. CASE UNCHANGED vars
  BY <1>7 DEF vars, WriterInv
<1>8. QED
  BY <1>1, <1>2, <1>3, <1>4, <1>5, <1>6, <1>7 DEF Next, Session, Network

-----------------------------------------------------------------------------
(* The refinement mapping.                                                 *)

RequestPhases == {"read", "begin", "chunk", "end", "write"}

\* A step that keeps the session within the request phases and leaves
\* its file, its offset and the flash alone is a stutter of OtaTransfer.
LEMMA AbstractStutter ==
    ASSUME NEW s0, Sessions = {s0},
           pc \in [Sessions -> Phases], pc' \in [Sessions -> Phases],
           pc[s0] \in RequestPhases, pc'[s0] \in RequestPhases,
           file' = file, offset' = offset, flash' = flash
    PROVE  UNCHANGED <<SessionStatus, file, offset, flash>>
BY DEF SessionStatus, RequestPhases

\* The session leaves the request phases for phase p: the abstract
\* status becomes p.
LEMMA StatusLeaves ==
    ASSUME NEW s0, Sessions = {s0}, NEW p \in {"done", "aborted"},
           pc \in [Sessions -> Phases], pc[s0] \in RequestPhases,
           pc' = [pc EXCEPT ![s0] = p]
    PROVE  /\ SessionStatus[s0] = "running"
           /\ SessionStatus' = [SessionStatus EXCEPT ![s0] = p]
BY DEF SessionStatus, RequestPhases

LEMMA StepRefines ==
    ASSUME NEW s0, Sessions = {s0}, IInv, WriterInv(s0), [Next]_vars
    PROVE  [Transfer!Next]_<<SessionStatus, file, offset, flash>>
<1>0. s0 \in Sessions /\ TypeOK /\ SessionInv(s0)
  BY DEF IInv
<1>1. CASE SelectFile
  BY <1>1 DEF SelectFile, SessionStatus
<1>2. CASE FwFlash(s0)
  \* Transfer!Start: the idle session takes the selected file.
  <2>1. SessionStatus[s0] = "idle" /\ Transfer!Running = {}
    BY <1>0, <1>2 DEF FwFlash, SessionStatus, Transfer!Running
  <2>2. SessionStatus' = [SessionStatus EXCEPT ![s0] = "running"]
    BY <1>0, <1>2 DEF FwFlash, SessionStatus, TypeOK
  <2>3. selected \in Files /\ file' = [file EXCEPT ![s0] = selected]
    BY <1>0, <1>2 DEF FwFlash, TypeOK
  <2>4. Transfer!Start(s0)
    BY <1>2, <2>1, <2>2, <2>3 DEF FwFlash, Transfer!Start
  <2>5. QED
    BY <1>0, <2>4 DEF Transfer!Next
<1>3. CASE FileLoaded(s0) \/ BeginAccepted(s0) \/ EndAccepted(s0)
  <2>1. pc[s0] \in RequestPhases /\ pc'[s0] \in RequestPhases
    BY <1>0, <1>3 DEF FileLoaded, BeginAccepted, EndAccepted, TypeOK, RequestPhases
  <2>2. pc' \in [Sessions -> Phases]
    BY <1>0, <1>3 DEF FileLoaded, BeginAccepted, EndAccepted, TypeOK, Phases
  <2>3. QED
    BY <1>0, <1>3, <2>1, <2>2, AbstractStutter
       DEF FileLoaded, BeginAccepted, EndAccepted, TypeOK
<1>4. CASE RetryWake(s0) \/ RequestLost(s0)
  <2>1. pc[s0] \in RequestPhases
    BY <1>0, <1>4 DEF RetryWake, RequestLost, SessionInv, RequestPhases
  <2>2. QED
    BY <1>0, <1>4, <2>1, AbstractStutter DEF RetryWake, RequestLost, TypeOK
<1>5. CASE ChunkAccepted(s0)
  \* Transfer!Upload: offset moves up to nextOffset.
  <2>1. file[s0] \in Files /\ offset[s0] < Len(file[s0])
    BY <1>0, <1>5 DEF ChunkAccepted, SessionInv
  <2>2. Len(file[s0]) \in Nat
    BY <2>1, FileIsByteSeq
  <2>3. NextOffset(s0) \in (offset[s0] + 1)..Len(file[s0])
    BY <1>0, <2>1, <2>2, ChunkSizeAssumption DEF NextOffset, MinOf, TypeOK
  <2>4. SessionStatus[s0] = "running" /\ SessionStatus' = SessionStatus
    <3>1. pc'[s0] \in RequestPhases /\ pc' \in [Sessions -> Phases]
      BY <1>0, <1>5 DEF ChunkAccepted, TypeOK, RequestPhases, Phases
    <3>2. QED
      BY <1>0, <1>5, <3>1 DEF ChunkAccepted, SessionStatus, RequestPhases
  <2>5. Transfer!Upload(s0)
    BY <1>5, <2>1, <2>3, <2>4 DEF ChunkAccepted, Transfer!Upload
  <2>6. QED
    BY <1>0, <2>5 DEF Transfer!Next
<1>6. CASE FileReadFailed(s0) \/ (AttemptFailed(s0) /\ pc'[s0] = "aborted")
  \* Transfer!Fail: fwFlash() throws into its catch.
  <2>1. pc[s0] \in RequestPhases /\ pc' = [pc EXCEPT ![s0] = "aborted"]
    BY <1>0, <1>6 DEF FileReadFailed, AttemptFailed, Abort, SessionInv, RequestPhases, TypeOK
  <2>2. SessionStatus[s0] = "running"
        /\ SessionStatus' = [SessionStatus EXCEPT ![s0] = "aborted"]
    BY <1>0, <2>1, StatusLeaves DEF TypeOK
  <2>3. Transfer!Fail(s0)
    BY <1>6, <2>2 DEF FileReadFailed, AttemptFailed, Abort, Transfer!Fail
  <2>4. QED
    BY <1>0, <2>3 DEF Transfer!Next
<1>7. CASE AttemptFailed(s0) /\ pc'[s0] # "aborted"
  \* The retry loop goes to sleep.
  <2>1. pc' = pc /\ pc[s0] \in RequestPhases
    BY <1>0, <1>7 DEF AttemptFailed, Abort, SessionInv, RequestPhases, TypeOK
  <2>2. QED
    BY <1>0, <1>7, <2>1, AbstractStutter DEF AttemptFailed, TypeOK
<1>8. CASE WriteAccepted(s0)
  \* Transfer!Finish: the flash holds the session's whole image.
  <2>1. flash = file[s0] /\ offset[s0] = Len(file[s0])
    BY <1>0, <1>8 DEF WriteAccepted, WriterInv, SessionInv
  <2>2. SessionStatus[s0] = "running"
        /\ SessionStatus' = [SessionStatus EXCEPT ![s0] = "done"]
    BY <1>0, <1>8, StatusLeaves DEF WriteAccepted, RequestPhases, TypeOK
  <2>3. Transfer!Finish(s0)
    BY <1>8, <2>1, <2>2 DEF WriteAccepted, Transfer!Finish
  <2>4. QED
    BY <1>0, <2>3 DEF Transfer!Next
<1>9. CASE Deliver(s0) /\ flash' = flash
  <2>1. pc' = pc /\ pc[s0] \in RequestPhases
    BY <1>0, <1>9 DEF Deliver, SessionInv, RequestPhases
  <2>2. QED
    BY <1>0, <1>9, <2>1, AbstractStutter DEF Deliver, TypeOK
<1>10. CASE Deliver(s0) /\ flash' # flash
  \* Transfer!Commit: only a checked ota_write changes the flash.
  <2>1. DeviceWrite(s0) /\ devVerified
    BY <1>10 DEF Deliver, DeviceBegin, DeviceChunk, DeviceEnd, DeviceWrite
  <2>2. flash' = file[s0] /\ pc[s0] = "write"
    BY <1>10, <2>1 DEF DeviceWrite, WriterInv
  <2>3. offset[s0] = Len(file[s0])
    BY <1>0, <2>2 DEF SessionInv
  <2>4. SessionStatus[s0] = "running" /\ SessionStatus' = SessionStatus
    BY <1>0, <1>10, <2>2 DEF Deliver, SessionStatus
  <2>5. Transfer!Commit(s0)
    BY <1>10, <2>2, <2>3, <2>4 DEF Deliver, Transfer!Commit
  <2>6. QED
    BY <1>0, <2>5 DEF Transfer!Next
<1>11. CASE UNCHANGED vars
  BY <1>11 DEF vars, SessionStatus
<1>12. QED
  <2>1. Next => \/ SelectFile \/ FwFlash(s0) \/ FileLoaded(s0)
                \/ BeginAccepted(s0) \/ EndAccepted(s0) \/ RetryWake(s0)
                \/ RequestLost(s0) \/ ChunkAccepted(s0) \/ FileReadFailed(s0)
                \/ AttemptFailed(s0) \/ WriteAccepted(s0) \/ Deliver(s0)
    BY DEF Next, Session, Network
  <2>2. QED
    BY <2>1, <1>1, <1>2, <1>3, <1>4, <1>5, <1>6, <1>7, <1>8, <1>9, <1>10, <1>11

-----------------------------------------------------------------------------
\* With a single session, fwFlash() implements the session OtaTransfer
\* describes: the file read at the click is the image, offset counts the
\* acknowledged bytes, ota_write changes the flash only to the session's
\* fully uploaded image, and "Flash write + verify OK" is logged only
\* while that image is in flash; lost requests, lost replies and retries
\* are stutters of the abstract session.
THEOREM Refinement ==
    ASSUME NEW s0, Sessions = {s0}
    PROVE  Spec => Transfer!Spec
<1>1. Init => IInv /\ WriterInv(s0)
  BY InitIInv, InitWriterInv
<1>2. IInv /\ WriterInv(s0) /\ [Next]_vars => IInv' /\ WriterInv(s0)'
  BY NextIInv, NextWriterInv
<1>3. Init => Transfer!Init
  BY DEF Init, Transfer!Init, SessionStatus
<1>4. IInv /\ WriterInv(s0) /\ [Next]_vars
          => [Transfer!Next]_<<SessionStatus, file, offset, flash>>
  BY StepRefines
<1>5. QED
  BY <1>1, <1>2, <1>3, <1>4, PTL DEF Spec, Transfer!Spec, Transfer!avars


-----------------------------------------------------------------------------
(* The success report.                                                     *)

\* Only an accepted ota_write moves the session to "done", and then the
\* flash holds its image.
LEMMA SuccessStep ==
    ASSUME NEW s0, Sessions = {s0}, IInv, WriterInv(s0), [Next]_vars
    PROVE  \A s \in Sessions :
               (pc[s] # "done" /\ pc'[s] = "done") => flash' = file[s]
<1>0. s0 \in Sessions /\ TypeOK /\ SessionInv(s0)
  BY DEF IInv
<1> SUFFICES ASSUME pc[s0] # "done", pc'[s0] = "done"
             PROVE  flash' = file[s0]
  OBVIOUS
<1>1. CASE WriteAccepted(s0)
  BY <1>1 DEF WriteAccepted, WriterInv
<1>2. CASE SelectFile \/ RetryWake(s0) \/ RequestLost(s0) \/ Deliver(s0)
                      \/ UNCHANGED vars
  \* pc is left alone.
  BY <1>2 DEF SelectFile, RetryWake, RequestLost, Deliver, vars
<1>3. CASE FwFlash(s0) \/ FileLoaded(s0) \/ BeginAccepted(s0)
           \/ ChunkAccepted(s0) \/ EndAccepted(s0)
  \* The session moves to a request phase.
  BY <1>0, <1>3 DEF FwFlash, FileLoaded, BeginAccepted, ChunkAccepted,
                    EndAccepted, TypeOK
<1>4. CASE FileReadFailed(s0) \/ AttemptFailed(s0)
  \* The session aborts or goes on retrying.
  BY <1>0, <1>4 DEF FileReadFailed, AttemptFailed, Abort, TypeOK
<1>5. QED
  <2>1. Next => \/ SelectFile \/ FwFlash(s0) \/ FileLoaded(s0)
                \/ BeginAccepted(s0) \/ EndAccepted(s0) \/ RetryWake(s0)
                \/ RequestLost(s0) \/ ChunkAccepted(s0) \/ FileReadFailed(s0)
                \/ AttemptFailed(s0) \/ WriteAccepted(s0) \/ Deliver(s0)
    BY DEF Next, Session, Network
  <2>2. QED
    BY <2>1, <1>1, <1>2, <1>3, <1>4

\* With a single session, fwFlash() logs "Flash write + verify OK" only in
\* a step after which the device's flash holds the image the session read,
\* whatever requests and replies were lost and retried before: the reply
\* of ota_write is accepted only after the device committed the buffer
\* that passed the ota_end check against that image.
THEOREM SuccessReportCorrect ==
    ASSUME NEW s0, Sessions = {s0}
    PROVE  Spec => SuccessReportMatchesFlash
<1>1. Init => IInv /\ WriterInv(s0)
  BY InitIInv, InitWriterInv
<1>2. IInv /\ WriterInv(s0) /\ [Next]_vars => IInv' /\ WriterInv(s0)'
  BY NextIInv, NextWriterInv
<1>3. IInv /\ WriterInv(s0) /\ [Next]_vars
        => [\A s \in Sessions :
              (pc[s] # "done" /\ pc'[s] = "done") => flash' = file[s]]_vars
  BY SuccessStep
<1>4. QED
  BY <1>1, <1>2, <1>3, PTL DEF Spec, SuccessReportMatchesFlash

=============================================================================
