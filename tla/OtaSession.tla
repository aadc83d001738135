----------------------------- MODULE OtaSession -----------------------------
(***************************************************************************)
(* The firmware-update (OTA) pipeline of the web configurator,            *)
(* src/web_configurator/www/main.js:                                       *)
(*   - fwFlash(), the click handler of the "fw_flash" button, one session  *)
(*     per click, suspended at each await;                                 *)
(*   - fetchJsonRetry(), called through mkPost() for each of ota_begin,   *)
(*     ota_chunk, ota_end and ota_write: up to Tries attempts, a sleep    *)
(*     between two attempts;                                               *)
(*   - updateFwDisabled(), the "change" handler of the file input, which  *)
(*     enables the button whenever exactly one file is selected;          *)
(*   - the HTTP channel, which may lose a request before the device sees  *)
(*     it or lose the reply after the device acted on it;                 *)
(*   - the device's four OTA endpoints. The device firmware is not part   *)
(*     of the web sources: its handlers are modelled from the contract of *)
(*     the endpoints (begin allocates a buffer, chunk fills it, end       *)
(*     checks the checksum of what was received, write commits a checked  *)
(*     buffer to flash).                                                   *)
(* Each session keeps the locals of its fwFlash() call: the file read at  *)
(* the click, offset, the progress percentage and the try counter i of    *)
(* the fetchJsonRetry() call in progress.                                  *)
(***************************************************************************)
EXTENDS Integers, Sequences

CONSTANTS
    Sessions,   \* clicks that may start an fwFlash() call
    Files,      \* the images the file input may hold, as byte sequences
    Bytes,      \* the byte values images are made of
    ChunkSize,  \* chunkSize in fwFlash() (512)
    Tries,      \* tries in fwFlash() (6)
    NoFile,     \* the file input holds no file, or more than one
    NoByte,     \* a byte of the device's receive buffer not yet written
    OldImage,   \* the image in the device's flash before any session
    NoSession   \* no session has committed an image yet

ASSUME ChunkSizeAssumption == ChunkSize \in Nat \ {0}
ASSUME TriesAssumption == Tries \in Nat \ {0}
ASSUME FilesAssumption == Files \subseteq Seq(Bytes)
ASSUME MarkerAssumption ==
    /\ NoFile \notin Files
    /\ NoByte \notin Bytes
    /\ OldImage \notin Seq(Bytes \cup {NoByte})
    /\ NoSession \notin Sessions

VARIABLES
    selected,    \* the file the input holds (fileEl.files)
    btnDisabled, \* document.getElementById('fw_flash').disabled
    pc,          \* where each session's fwFlash() call is
    file,        \* the file a session read (fileU8)
    offset,      \* offset in the upload loop
    percent,     \* the percentage last shown on the progress line
    attempt,     \* i in the running fetchJsonRetry() loop
    net,         \* state of the session's current request
    devBuf,      \* the device's receive buffer
    devVerified, \* the device's buffer passed the ota_end check
    flash,       \* the image in the device's flash
    flashedBy    \* the session whose ota_write last committed (history)

vars == <<selected, btnDisabled, pc, file, offset, percent, attempt, net,
          devBuf, devVerified, flash, flashedBy>>

Phases == {"idle", "read", "begin", "chunk", "end", "write", "done", "aborted"}
\* "idle": not started; "read": awaiting file.arrayBuffer(); "begin" ..
\* "write": awaiting mkPost of that endpoint; "done", "aborted": returned.

NetStates == {"none", "inflight", "ok", "rejected", "failed", "sleeping"}
\* "inflight": fetch() pending; "ok": r.ok; "rejected": a reply that is
\* not ok; "failed": fetch() rejected; "sleeping": awaiting sleepMs(d).

MinOf(a, b) == IF a < b THEN a ELSE b

\* The checksum the device compares: crc32_update(0, fileU8). CRC-32
\* collisions are abstracted away (a byte sequence stands for its own
\* checksum, so equal checksums mean equal content); the table-driven
\* computation itself is modelled in Crc32.tla.
Crc32Of(data) == data

\* nextOffset and chunkBin of the upload loop.
NextOffset(s) == MinOf(offset[s] + ChunkSize, Len(file[s]))
ChunkBin(s) == SubSeq(file[s], offset[s] + 1, NextOffset(s))

Complete(buf) == \A i \in 1..Len(buf) : buf[i] # NoByte

-----------------------------------------------------------------------------
Init ==
    /\ selected = NoFile
    /\ btnDisabled \in BOOLEAN
    /\ pc = [s \in Sessions |-> "idle"]
    /\ file = [s \in Sessions |-> NoFile]
    /\ offset = [s \in Sessions |-> 0]
    /\ percent = [s \in Sessions |-> 0]
    /\ attempt = [s \in Sessions |-> 0]
    /\ net = [s \in Sessions |-> "none"]
    /\ devBuf = << >>
    /\ devVerified = FALSE
    /\ flash = OldImage
    /\ flashedBy = NoSession

-----------------------------------------------------------------------------
(* The user.                                                               *)

\* A change of the file input runs updateFwDisabled().
SelectFile ==
    \E f \in Files \cup {NoFile} :
        /\ selected' = f
        /\ btnDisabled' = (f = NoFile)
        /\ UNCHANGED <<pc, file, offset, percent, attempt, net,
                       devBuf, devVerified, flash, flashedBy>>

\* A click on the enabled button runs fwFlash() up to the first await:
\* with a file selected and the dialog confirmed, the button is disabled
\* and file.arrayBuffer() is started. (No file, or a declined dialog,
\* returns before any state changes: a stutter.)
FwFlash(s) ==
    /\ pc[s] = "idle"
    /\ ~btnDisabled
    /\ selected # NoFile
    /\ btnDisabled' = TRUE
    /\ pc' = [pc EXCEPT ![s] = "read"]
    /\ file' = [file EXCEPT ![s] = selected]
    /\ UNCHANGED <<selected, offset, percent, attempt, net,
                   devBuf, devVerified, flash, flashedBy>>

-----------------------------------------------------------------------------
(* The session, between two awaits.                                        *)

\* mkPost(): fetchJsonRetry() starts with i = 0 and calls fetch().
Issue(s) ==
    /\ net' = [net EXCEPT ![s] = "inflight"]
    /\ attempt' = [attempt EXCEPT ![s] = 0]

\* The catch block: err(...) and btn.disabled = false.
Abort(s) ==
    /\ pc' = [pc EXCEPT ![s] = "aborted"]
    /\ net' = [net EXCEPT ![s] = "none"]
    /\ btnDisabled' = FALSE

\* file.arrayBuffer() resolves: the CRC is computed and ota_begin posted.
FileLoaded(s) ==
    /\ pc[s] = "read"
    /\ pc' = [pc EXCEPT ![s] = "begin"]
    /\ Issue(s)
    /\ UNCHANGED <<selected, btnDisabled, file, offset, percent,
                   devBuf, devVerified, flash, flashedBy>>

\* file.arrayBuffer() rejects.
FileReadFailed(s) ==
    /\ pc[s] = "read"
    /\ Abort(s)
    /\ UNCHANGED <<selected, file, offset, percent, attempt,
                   devBuf, devVerified, flash, flashedBy>>

\* ota_begin accepted: the upload loop runs while offset < length.
BeginAccepted(s) ==
    /\ pc[s] = "begin"
    /\ net[s] = "ok"
    /\ pc' = [pc EXCEPT ![s] = IF offset[s] < Len(file[s]) THEN "chunk" ELSE "end"]
    /\ Issue(s)
    /\ UNCHANGED <<selected, btnDisabled, file, offset, percent,
                   devBuf, devVerified, flash, flashedBy>>

\* Mutant: a fetch() that rejected is taken for an acknowledgement.
ChunkAcceptedOnError(s) ==
    /\ pc[s] = "chunk"
    /\ net[s] \in {"ok", "failed"}
    /\ offset' = [offset EXCEPT ![s] = NextOffset(s)]
    /\ percent' = [percent EXCEPT ![s] = (NextOffset(s) * 100) \div Len(file[s])]
    /\ pc' = [pc EXCEPT ![s] = IF NextOffset(s) < Len(file[s]) THEN "chunk" ELSE "end"]
    /\ Issue(s)
    /\ UNCHANGED <<selected, btnDisabled, file,
                   devBuf, devVerified, flash, flashedBy>>

\* Mutant: the percentage is computed before offset = nextOffset.
ChunkAcceptedStalePercent(s) ==
    /\ pc[s] = "chunk"
    /\ net[s] = "ok"
    /\ offset' = [offset EXCEPT ![s] = NextOffset(s)]
    /\ percent' = [percent EXCEPT ![s] = (offset[s] * 100) \div Len(file[s])]
    /\ pc' = [pc EXCEPT ![s] = IF NextOffset(s) < Len(file[s]) THEN "chunk" ELSE "end"]
    /\ Issue(s)
    /\ UNCHANGED <<selected, btnDisabled, file,
                   devBuf, devVerified, flash, flashedBy>>

\* ota_chunk accepted: offset advances, the progress line is updated and
\* the loop posts the next chunk or leaves for ota_end.
ChunkAccepted(s) ==
    /\ pc[s] = "chunk"
    /\ net[s] = "ok"
    /\ offset' = [offset EXCEPT ![s] = NextOffset(s)]
    /\ percent' = [percent EXCEPT ![s] = (NextOffset(s) * 100) \div Len(file[s])]
    /\ pc' = [pc EXCEPT ![s] = IF NextOffset(s) < Len(file[s]) THEN "chunk" ELSE "end"]
    /\ Issue(s)
    /\ UNCHANGED <<selected, btnDisabled, file,
                   devBuf, devVerified, flash, flashedBy>>

\* Mutant: the ota_write call is left out.
EndAcceptedNoWrite(s) ==
    /\ pc[s] = "end"
    /\ net[s] = "ok"
    /\ pc' = [pc EXCEPT ![s] = "done"]
    /\ net' = [net EXCEPT ![s] = "none"]
    /\ UNCHANGED <<selected, btnDisabled, file, offset, percent, attempt,
                   devBuf, devVerified, flash, flashedBy>>

\* ota_end accepted: ota_write is posted.
EndAccepted(s) ==
    /\ pc[s] = "end"
    /\ net[s] = "ok"
    /\ pc' = [pc EXCEPT ![s] = "write"]
    /\ Issue(s)
    /\ UNCHANGED <<selected, btnDisabled, file, offset, percent,
                   devBuf, devVerified, flash, flashedBy>>

\* ota_write accepted: fwFlash() returns; the button stays disabled.
WriteAccepted(s) ==
    /\ pc[s] = "write"
    /\ net[s] = "ok"
    /\ pc' = [pc EXCEPT ![s] = "done"]
    /\ net' = [net EXCEPT ![s] = "none"]
    /\ UNCHANGED <<selected, btnDisabled, file, offset, percent, attempt,
                   devBuf, devVerified, flash, flashedBy>>

\* Mutant: "i < tries" for "i + 1 < tries": one sleep and try too many.
AttemptFailedOffByOne(s) ==
    /\ net[s] \in {"rejected", "failed"}
    /\ IF attempt[s] < Tries
         THEN /\ net' = [net EXCEPT ![s] = "sleeping"]
              /\ UNCHANGED <<pc, btnDisabled>>
         ELSE Abort(s)
    /\ UNCHANGED <<selected, file, offset, percent, attempt,
                   devBuf, devVerified, flash, flashedBy>>

\* fetchJsonRetry(): a reply that is not ok, or a rejected fetch(), is
\* kept as lastErr; with i + 1 < tries the loop sleeps, otherwise it
\* throws lastErr and fwFlash() aborts.
AttemptFailed(s) ==
    /\ net[s] \in {"rejected", "failed"}
    /\ IF attempt[s] + 1 < Tries
         THEN /\ net' = [net EXCEPT ![s] = "sleeping"]
              /\ UNCHANGED <<pc, btnDisabled>>
         ELSE Abort(s)
    /\ UNCHANGED <<selected, file, offset, percent, attempt,
                   devBuf, devVerified, flash, flashedBy>>

\* Mutant: the loop never advances i, so it retries forever.
RetryWakeNoIncrement(s) ==
    /\ net[s] = "sleeping"
    /\ net' = [net EXCEPT ![s] = "inflight"]
    /\ UNCHANGED <<selected, btnDisabled, pc, file, offset, percent, attempt,
                   devBuf, devVerified, flash, flashedBy>>

\* sleepMs(baseDelayMs * (1 << i)) resolves: i + 1 and fetch() again.
RetryWake(s) ==
    /\ net[s] = "sleeping"
    /\ net' = [net EXCEPT ![s] = "inflight"]
    /\ attempt' = [attempt EXCEPT ![s] = attempt[s] + 1]
    /\ UNCHANGED <<selected, btnDisabled, pc, file, offset, percent,
                   devBuf, devVerified, flash, flashedBy>>

-----------------------------------------------------------------------------
(* The channel and the device.                                             *)

\* The request is lost before the device sees it: fetch() rejects.
RequestLost(s) ==
    /\ net[s] = "inflight"
    /\ net' = [net EXCEPT ![s] = "failed"]
    /\ UNCHANGED <<selected, btnDisabled, pc, file, offset, percent, attempt,
                   devBuf, devVerified, flash, flashedBy>>

\* The device answers status; the reply may be lost on the way back.
Reply(s, status) == \E r \in {status, "failed"} : net' = [net EXCEPT ![s] = r]

\* /api/ota_begin {size, crc32}: a fresh buffer of size bytes.
DeviceBegin(s) ==
    /\ pc[s] = "begin"
    /\ devBuf' = [i \in 1..Len(file[s]) |-> NoByte]
    /\ devVerified' = FALSE
    /\ Reply(s, "ok")
    /\ UNCHANGED <<flash, flashedBy>>

\* /api/ota_chunk {off, b64}: the bytes are stored at off if they fit.
DeviceChunk(s) ==
    LET data == ChunkBin(s)
        off == offset[s]
    IN  /\ pc[s] = "chunk"
        /\ IF off + Len(data) <= Len(devBuf)
             THEN /\ devBuf' = [i \in 1..Len(devBuf) |->
                                  IF off < i /\ i <= off + Len(data)
                                    THEN data[i - off] ELSE devBuf[i]]
                  /\ devVerified' = FALSE
                  /\ Reply(s, "ok")
             ELSE /\ UNCHANGED <<devBuf, devVerified>>
                  /\ Reply(s, "rejected")
        /\ UNCHANGED <<flash, flashedBy>>

\* /api/ota_end {crc32}: the received image must be whole and match.
DeviceEnd(s) ==
    /\ pc[s] = "end"
    /\ IF Complete(devBuf) /\ Crc32Of(devBuf) = Crc32Of(file[s])
         THEN /\ devVerified' = TRUE
              /\ Reply(s, "ok")
         ELSE /\ devVerified' = FALSE
              /\ Reply(s, "rejected")
    /\ UNCHANGED <<devBuf, flash, flashedBy>>

\* /api/ota_write {}: a checked buffer is committed to flash.
DeviceWrite(s) ==
    /\ pc[s] = "write"
    /\ IF devVerified
         THEN /\ flash' = devBuf
              /\ flashedBy' = s
              /\ Reply(s, "ok")
         ELSE /\ UNCHANGED <<flash, flashedBy>>
              /\ Reply(s, "rejected")
    /\ UNCHANGED <<devBuf, devVerified>>

\* The request reaches the device, which handles it.
Deliver(s) ==
    /\ net[s] = "inflight"
    /\ \/ DeviceBegin(s)
       \/ DeviceChunk(s)
       \/ DeviceEnd(s)
       \/ DeviceWrite(s)
    /\ UNCHANGED <<selected, btnDisabled, pc, file, offset, percent, attempt>>

-----------------------------------------------------------------------------
Session(s) ==
    \/ FwFlash(s)
    \/ FileLoaded(s)
    \/ FileReadFailed(s)
    \/ BeginAccepted(s)
    \/ ChunkAccepted(s)
    \/ EndAccepted(s)
    \/ WriteAccepted(s)
    \/ AttemptFailed(s)
    \/ RetryWake(s)

Network(s) ==
    \/ RequestLost(s)
    \/ Deliver(s)

Next ==
    \/ SelectFile
    \/ \E s \in Sessions : Session(s) \/ Network(s)

\* Every await of a started session settles: the file read, each fetch()
\* (no timeout in the code: assumed to resolve or reject), each reply
\* handling and each sleep. The user is not assumed to act.
Fairness ==
    \A s \in Sessions :
        /\ WF_vars(FileLoaded(s) \/ FileReadFailed(s))
        /\ WF_vars(Network(s))
        /\ WF_vars(BeginAccepted(s) \/ ChunkAccepted(s) \/ EndAccepted(s)
                   \/ WriteAccepted(s) \/ AttemptFailed(s))
        /\ WF_vars(RetryWake(s))

Spec == Init /\ [][Next]_vars

FairSpec == Spec /\ Fairness

-----------------------------------------------------------------------------
(* Properties.                                                             *)

TypeOK ==
    /\ selected \in Files \cup {NoFile}
    /\ btnDisabled \in BOOLEAN
    /\ pc \in [Sessions -> Phases]
    /\ file \in [Sessions -> Files \cup {NoFile}]
    /\ offset \in [Sessions -> Nat]
    /\ percent \in [Sessions -> 0..100]
    /\ attempt \in [Sessions -> 0..(Tries - 1)]
    /\ net \in [Sessions -> NetStates]
    /\ devBuf \in Seq(Bytes \cup {NoByte})
    /\ devVerified \in BOOLEAN
    /\ flash \in Seq(Bytes \cup {NoByte}) \cup {OldImage}
    /\ flashedBy \in Sessions \cup {NoSession}

\* offset only advances after the device acknowledged the chunk: while
\* a session uploads or verifies, the device's buffer has the image's
\* size and holds the image's bytes below offset, whatever requests or
\* replies were lost and re-sent on the way.
UploadedPrefixOnDevice ==
    \A s \in Sessions :
        pc[s] \in {"chunk", "end"} =>
            /\ Len(devBuf) = Len(file[s])
            /\ \A i \in 1..offset[s] : devBuf[i] = file[s][i]

\* ota_end is only posted after the upload loop covered the whole image,
\* and the progress line then shows 100% (0% for an empty image, for
\* which the loop body never runs).
UploadCompleteBeforeEnd ==
    \A s \in Sessions :
        pc[s] \in {"end", "write", "done"} =>
            /\ offset[s] = Len(file[s])
            /\ percent[s] = IF Len(file[s]) = 0 THEN 0 ELSE 100

\* fwFlash() logs "Flash write + verify OK" only in a step in which the
\* device's flash holds the image that session read.
SuccessReportMatchesFlash ==
    [][\A s \in Sessions :
         (pc[s] # "done" /\ pc'[s] = "done") => flash' = file[s]]_vars

\* A session that logs "[ERR] ..." did not get its image committed: the
\* user is not told of a failure after the device flashed the image.
AbortMeansNotFlashed ==
    \A s \in Sessions : pc[s] = "aborted" => flashedBy # s

\* "Protocol/session error (device rejects begin/end/write, e.g. checksum
\* mismatch): not retried automatically" (spec, section 7): a rejection of
\* ota_end or ota_write by the device is never followed by a retry sleep
\* in fetchJsonRetry().
ProtocolErrorNotRetried ==
    [][\A s \in Sessions :
         (pc[s] \in {"begin", "end", "write"} /\ net[s] = "rejected")
             => net'[s] # "sleeping"]_vars

\* Every started fwFlash() call returns: with a finite try budget per
\* request, the session ends in "done" or "aborted".
SessionEnds ==
    \A s \in Sessions : (pc[s] # "idle") ~> (pc[s] \in {"done", "aborted"})

-----------------------------------------------------------------------------
(* Refinement of OtaTransfer: a session is running from the click until   *)
(* fwFlash() returns, its image is the file it read, the acknowledged     *)
(* bytes are offset, and the flash is the device's flash.                 *)

SessionStatus ==
    [s \in Sessions |->
        CASE pc[s] = "idle"                 -> "idle"
          [] pc[s] \in {"done", "aborted"} -> pc[s]
          [] OTHER                          -> "running"]

Transfer == INSTANCE OtaTransfer
                WITH status <- SessionStatus, image <- file, acked <- offset

\* fwFlash(), with its retries, lost and re-sent requests and the device's
\* buffer, implements the session the spec describes: one session at a
\* time, flash written only with a session's fully acknowledged image,
\* "Flash write + verify OK" only while that image is in flash, and every
\* session ending.
TransferSpec == Transfer!FairSpec

=============================================================================
