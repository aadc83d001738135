# TLA+ models of the RNode Halow web configurator

The web configurator, `src/web_configurator/www/main.js`, is a single
browser script. It talks to the device over a local HTTP API. This
directory holds TLA+ models of that script, TLC configurations that check
them on small instances, and TLAPS proofs of their main invariants for every
instance.

## The system

Each part below is a set of handlers that share module-level state and
suspend at `await`.

| Part | Code (main.js) | What it does |
|---|---|---|
| OTA session controller | `fwFlash` 602-695, `updateFwDisabled` 527-530 | Reads the chosen file, computes its CRC-32, posts `ota_begin`, then one `ota_chunk` per 512 bytes, then `ota_end` and `ota_write`. Updates one progress line; on failure logs `[ERR]` and re-enables the button. |
| Retrying request executor | `fetchJsonRetry` 567-590, `mkPost` 625-631 | Up to `tries` (6) attempts per request; sleeps `80 * 2^i` ms between attempts; throws the last error. |
| Chunk planner | upload loop 662-677, `bytesToB64` 532-539 | `nextOffset = min(offset + 512, length)`; percentage `floor(offset * 100 / length)`. |
| Checksum engine | `crc32_make_table`, `crc32_update` 542-561 | Table-driven reflected CRC-32. |
| Configuration sync | `loadAllUntilSuccess` 115-128, `loadAll` 258-273, `populateFromState` 333-431, `snapshotAll`/`updateSaveButton` 64-89, the four save handlers 438-523 | Loads `get_all` until it succeeds, fills the form, records baselines, enables a group's Save button when the form is dirty, posts a group and reloads. |
| Statistics polling | `updateStats` 282-318, `setText` 320-325 | Polls `get_stat` every second. |
| Tabs and console | `setupTabs`, `initFwConsole`, `update*Disabled` | Presentation. |

How the parts interact:
- The OTA controller and configuration sync share only the device.
- The OTA controller calls the executor for each of its four requests.
- The file input's change handler and the Flash button's click handler
  share the button's `disabled` flag.
- All save handlers share the flag `loadAllLoopActive`.
- The device firmware is not in the web sources. Its endpoints are modelled
  from their contract in `spec.md` §6 and marked `spec_modelled` in
  `PROJECT.json`.

## Modules

### OtaSession.tla: OTA controller, executor, planner, device OTA endpoints

- **State.** There is one record per click (`Sessions`) holding the locals
  of that `fwFlash()` call:
  - `pc`: the await it is suspended at;
  - `file`;
  - `offset`;
  - `percent`;
  - `attempt`: the `i` of the running `fetchJsonRetry`;
  - `net`: whether the current request is in flight, answered, failed, or
    sleeping before a retry.

  Shared state:
  - `selected`: the file input;
  - `btnDisabled`;
  - the device's `devBuf`, `devVerified` and `flash`;
  - the history variable `flashedBy`.
- **Actions.** There is one action per code segment between two awaits:
  `FwFlash`, `FileLoaded`/`FileReadFailed`, `BeginAccepted`,
  `ChunkAccepted`, `EndAccepted`, `WriteAccepted`, `AttemptFailed` (the
  `i + 1 < tries` test and the throw) and `RetryWake` (the sleep ends).
  The file input's change handler is `SelectFile`. The channel is
  `RequestLost`, and `Reply`, where the device acted but the reply may be
  lost. The device is `DeviceBegin/Chunk/End/Write`.
- **Abstractions.**
  - A byte sequence stands for its own checksum (`Crc32Of`), so CRC
    collisions are not modelled. The CRC itself is `Crc32.tla`.
  - A chunk is sent as its bytes. That the device decodes
    `bytesToB64(chunk)` back to exactly those bytes is checked separately,
    in `ChunkPlanner`, so this abstraction rests on a checked fact.
  - Log text is left out.
  - Declining `confirm()` changes no state and is a stutter.

### Crc32.tla: checksum engine

- Words are pairs of 16-bit halves (TLC's integers are 32-bit signed), and
  `^ >>> &` act per half.
- `CRC32_T` and `Crc32Update` translate the two functions line for line.
- `Feed` models a caller that carries the value between calls.
- `RefCrc32` is an independent bit-by-bit reference in plain arithmetic. An
  `ASSUME` pins it to the published check values.

### ConfigSync.tla: configuration sync

- **State.**
  - Per group (`Groups`): `form`, `baseline`, `saveDisabled`, the save
    handler's progress `saving`, and its `payload`.
  - The loop: `loadAllLoopActive`, `loop`, `get`, and the reply `body`.
  - The device: `devCfg`.
- **Groups are atomic.** The fields of a group are always read, posted,
  populated and snapshotted together, so one value stands for all of them.
- **`Shown` ⊆ `Vals`.** `Shown` is the set of values the controls can
  display. `PopulateFromState` leaves a control untouched when the device's
  value is not in `Shown`, as `setSelect` does for an unknown option and
  `setInput` for a missing key.
- **Saves.** A save POST either is applied (`DeviceSave`) or fails
  (`SaveFailed`). Its status is never read, and `SaveReturn` then calls
  `LoadAllUntilSuccess`. That call does nothing when a loop is running,
  which is the early return at line 118.

### OtaTransfer.tla: what an OTA session promises

The abstract session of spec §4.1 and §5, with no requests, retries or
receive buffer. Per session it has a `status` (idle, running, done or
aborted), the `image` it took and the number of bytes `acked`; the
`flash` is shared. The actions are:
- `Start`: only while no session runs;
- `Upload`: `acked` grows;
- `Commit`: the flash takes the session's image, once all of it is acked;
- `Finish`: only while the flash holds that image;
- `Fail`: at any time, also after a commit.

`OtaSession` maps onto it with `Transfer == INSTANCE OtaTransfer WITH ...`:
- `status` is `SessionStatus`, running from the click until `fwFlash()`
  returns;
- `image` is `file`;
- `acked` is `offset`;
- `flash` is `flash`.

Lost requests, lost replies, retries and the device's buffer are
stutters.

### StatsPoll.tla: statistics polling

- **State.** Each call of `updateStats()` in progress occupies a slot of
  `Polls`, with its place (`poll`: fetching, answered, rejected) and the
  counter its reply carries (`val`). The dashboard's text is `shown`, and
  the device's counter is `counter`.
- **Actions.**
  - `TimerFires`: the first call at load, then `setInterval`.
  - `DeviceTick`: the device's counters grow.
  - `DeviceStat`: `get_stat` is answered ok or not.
  - `FetchFailed`, `NotOk` and `JsonFailed`: the ignoring exits.
  - `Apply`: `setText` of the reply.
- **Abstraction.** The counters of one reply are written together, so one
  counter stands for them.

### RetryExec.tla: the executor with its delays

`fetchJsonRetry` alone, against a target that fails its first `k`
attempts (`k` is a history variable). `delay` is the value handed to
`sleepMs`, computed as `baseDelayMs * (1 << i)`:
- `JsShl1` is JavaScript's `<<`: the shift count is taken mod 32, and bit
  31 is the sign bit.
- `TimerWait` is `setTimeout`'s handling of its delay. The delay is a
  WebIDL `long`: `ToInt32` reduces it modulo 2^32 to a signed 32-bit
  value, and a negative result waits 0.

`waited` sums the sleeps.

### Base64.tla and ChunkPlanner.tla: the chunk planner

- **`Base64`.**
  - `BinaryString` is the loop of `bytesToB64`: one `fromCharCode` piece
    per `chunk` bytes, a recursive function over the turns.
  - `Btoa` is `btoa`: four digits per three characters, padded with `=`.
  - `Atob` is the device's decoder. It is written in the decoding
    direction, independently of `Btoa`.
- **`ChunkPlanner`.** The upload loop on its own. `Post` is one turn: it
  takes `nextOffset`, the chunk and its `bytesToB64`, and records the
  request `{off, b64}` with the percentage shown.

### MC modules

`MCOtaSession`, `MCCrc32`, `MCConfigSync`, `MCStatsPoll`, `MCRetryExec`
and `MCChunkPlanner` give the constants their values. `MCChunkPlanner`
also pins `Btoa` to the RFC 4648 test vectors, and the reference plan to
spec §7's 1300-byte scenario, with `ASSUME`s.

## Runs

| Run | Instance | Checks | Result |
|---|---|---|---|
| `ota_single` | 1 session; files `<<>>`, `<<1>>`, `<<0,1,1>>`; chunk 2; 3 tries | `TypeOK`, `UploadedPrefixOnDevice`, `UploadCompleteBeforeEnd`, `SuccessReportMatchesFlash`, `SessionEnds`, `TransferSpec` (`OtaTransfer`'s `FairSpec` under the mapping) | pass |
| `ota_two_sessions` | 2 sessions, 2 files, 2 tries; no fairness | `SuccessReportMatchesFlash` | **violated** |
| `ota_lost_write_reply` | 1 session | `AbortMeansNotFlashed` | **violated** |
| `ota_protocol_error_retried` | 2 sessions | `ProtocolErrorNotRetried` | **violated** |
| `crc32` | bytes {0,1,128,255}; pieces of 0-2 bytes; up to 4 bytes | `IncrementalEqualsWhole`, `WholeMatchesReference` | pass |
| `config_sync` | 2 groups; 3 values, 2 displayable | `SaveButtonTracksDirty`, `LoadLoopEnds` | pass |
| `config_stale_reload` | 2 groups, 2 values | `ShownSavedIsDeviceConfig` | **violated** |
| `stats_poll` | 2 poll slots, counter up to 2 | `EventuallyFresh` | pass |
| `stats_display_order` | as above, no fairness | `DisplayNeverRegresses` | **violated** |
| `retry_executor` | tries 6, base 80 ms, targets failing 0-7 times | `ExecutorMeetsSpec`, `BackoffGrows` | pass |
| `retry_backoff_wrap` | tries 33, base 1 ms | `BackoffGrows` | **violated** |
| `chunk_planner` | every image of ≤ 5 bytes over {0,1,254,255} and a 13-byte one; chunks 1, 2, 3, 5; pieces of 2 | `PlanMatchesReference`, `ProgressMonotone` | pass |

### Why the bounds are enough

- **OTA images.** A chunk size of 2 with images of 0, 1 and 3 bytes gives:
  - the empty image, where the loop never runs;
  - a single short chunk;
  - a full chunk followed by a short one.

  Those are the three shapes of `Math.min(offset + chunkSize, length)`.
- **Tries.** 2 or 3 tries reach both sides of `i + 1 < tries`, and the
  throw after the last try.
- **Sessions.** Two sessions are the least that can share the device.
- **CRC.** The bytes 0, 1, 128 and 255 set the low, middle and high bits,
  and every table lookup path.
- **Refinement.** One session: with two, the refinement fails at once,
  because a second click while the first session runs is a `Start` that
  `OtaTransfer` forbids. That is finding 1 again.
- **Statistics.** Two slots are the least number of calls that can
  overlap. A counter reaching 2 lets a reply carry a value older than the
  one shown.
- **Executor.** `k` from 0 to 7 covers both sides of `tries = 6`. The wrap
  needs `i = 31`, hence 33 tries, with base 1 so the values fit TLC's
  32-bit integers.
- **Planner.**
  - Chunk sizes 1, 2, 3 and 5 against images of 0 to 5 and 13 bytes give
    exact multiples, short last chunks, and a single chunk larger than the
    image.
  - A piece length of 2 makes `bytesToB64` run its loop several times, and
    end on a short piece. In the code the piece is 0x8000, larger than the
    512-byte chunk, so the loop runs once.
  - The byte values 0, 1, 254 and 255 set the low and high bits of every
    base64 digit, and lengths 1 to 5 give both paddings.
- **Config sync.** Two groups and two values are enough for a save to race
  a reload of the whole configuration, and for an edit to be undone. A
  third value outside `Shown` exercises the untouched-control branch of
  `populateFromState`.

### Mutants

Each property of a passing run is paired with a mutant in `PROJECT.json`.
A mutant is a plausible bug written as an operator next to the definition
it replaces, and TLC finds the property violated under it:
- a retry off-by-one;
- a chunk taken as acknowledged on a rejected fetch;
- the percentage computed from the old offset;
- `ota_write` skipped;
- `i` not incremented;
- no final CRC mask;
- seven table turns;
- `snapshotGroup` without `updateSaveButton`;
- the load loop not broken on success;
- a stats reply read under the wrong key;
- `i < tries` in the timed executor;
- the delay without its shift (`baseDelayMs` for `baseDelayMs * (1 << i)`);
- the `bytesToB64` loop dropping a short last piece;
- the upload percentage computed before `offset` advances.

The refinement is broken by leaving out `ota_write`, which makes success
reachable without a commit.

## Findings

1. **Concurrent OTA sessions (code bug).** `updateFwDisabled` (line 529)
   re-enables the Flash button while a session runs. A second click starts
   a second session on the same device session. The first session's
   `ota_write` then commits the second session's verified buffer, and the
   first reports "Flash write + verify OK". This contradicts spec §5: only
   one session is active, enforced by disabling the trigger. The violating
   trace has 14 steps.
2. **Error reported for a flashed image (spec/code divergence).** When the
   device performs `ota_write` but the reply is lost and the retries fail,
   the user sees `[ERR]`. Spec §7 says no partial-success state is left
   ambiguous.
3. **Protocol errors are retried (spec gap).** Spec §7 says a device
   rejection of begin, end or write is not retried. §4.2, and the code at
   line 574, retry any non-ok status.
4. **Stale reload after a save (code bug).** A save made while a `get_all`
   is in flight relies on that load. If the device answered before the save
   was applied, the old value is populated and snapshotted, and shown as
   saved. The counterexample has 7 steps, starting from the page-load
   request.
5. **Statistics shown out of order (spec gap).** `setInterval(updateStats,
   1000)` (line 139) starts a poll every second, whether or not the last
   one has finished. Each poll writes its reply when it arrives. A slow
   reply applied after a newer one shows older counters, so the uptime
   goes back. The spec promises live statistics and says nothing of
   order. `EventuallyFresh` shows that the display still converges once
   the counters stop changing.
6. **Backoff wraps at 32 bits (spec/code divergence).** Line 584 computes
   `baseDelayMs * (1 << i)`. At `i = 31` the factor is −2^31, so
   `setTimeout` waits 0; from `i = 32` the factor is 1 again. Spec §4.2
   describes `baseDelayMs * 2^attemptIndex` for a reusable executor. The
   divergence is latent, because `fwFlash()` passes `tries = 6`.
   `ExecutorMeetsSpec` confirms spec §7's test for 6 tries: the call
   throws after 6 attempts and 5 sleeps, 2480 ms in total. Spec §6 quotes
   2560 ms, which would include a sleep after the last attempt that the
   code does not take.

## Fairness

- **OTA.** `FairSpec` assumes that every started await settles: the file
  read, each `fetch()`, each sleep, and the continuation after each. The
  browser runs every ready continuation and timer, which justifies this,
  except that `fetch()` has no timeout. That a request eventually settles is
  therefore an assumption about the network, listed as a hazard. The user
  is never assumed to act.
- **Config sync.** `LoadLoopEnds` needs strong fairness on the device
  answering `get_all` with a parseable configuration: the device may fail
  any finite number of times. Without that assumption the loop really can
  spin forever.
- **Statistics.**
  - Weak fairness: the interval timer keeps firing, and every `fetch()`
    and `res.json()` settles.
  - Strong fairness: the device answers ok, and the body parses,
    infinitely often if asked infinitely often.
  - `DeviceTick` has no fairness: the counters may stop, which is when
    `EventuallyFresh` asks for the display to catch up.
- **Refinement.** `TransferSpec` includes `OtaTransfer`'s weak fairness on
  `Finish ∨ Fail`. It follows from `OtaSession`'s `FairSpec`, the same
  assumption that gives `SessionEnds`.
- **Executor and planner.** These have no fairness: their runs check
  invariants of terminating loops. Their cfgs turn deadlock checking off,
  because a loop that has returned, thrown or sent its last chunk really
  stops.

## Proofs (TLAPS)

### OtaSessionProofs.tla

`TypeCorrect` (`Spec => []TypeOK`) and `UploadComplete`
(`Spec => []UploadCompleteBeforeEnd`) hold for all values of the constants.
They assume `ChunkSize ≥ 1`, `Tries ≥ 1`, that files are byte sequences,
and that the marker constants are distinct.

Neither invariant is inductive alone. The strengthening `IInv` is `TypeOK`
together with, for each session:
- an idle session has offset and percent 0;
- a started session holds a file, with `offset ∈ 0..Len` and `percent`
  equal to the code's formula for `offset`;
- in the chunk phase, `offset < Len`;
- from the end phase on, `offset = Len`;
- a sleeping request has `attempt + 1 < Tries`, so `RetryWake` keeps
  `attempt` below `Tries`;
- a pending request belongs to a session in a request phase.

TLC checked `IInv` as an invariant before it was proved. The step proof has
one case per action and uses these lemmas:
- `PercentRange`: `(k * 100) \div n ∈ 0..100`, and it is 100 when `k = n`;
- `SessionFrame`: another session's step leaves a session's invariant
  alone;
- a lemma for the type of a written chunk.

### ConfigSyncProofs.tla

`TypeCorrect` and `SaveButtonCorrect` (`Spec => []SaveButtonTracksDirty`)
are proved. `TypeOK ∧ SaveButtonTracksDirty` is inductive. The key steps:
- `SnapshotAll` makes the baseline equal the form and disables every
  button;
- `EditField` sets the button from the comparison with the baseline.

### OtaTransferProofs.tla

`Refinement`: for every set of files, chunk size and try budget, with
`Sessions = {s0}`, `Spec => Transfer!Spec`. The proof follows the usual
three steps:
1. `Init` maps to `Transfer!Init`.
2. Under an invariant, every step maps to an `OtaTransfer` step or a
   stutter (`StepRefines`, one case per action).
3. PTL combines the two.

The invariant is `IInv` of `OtaSessionProofs` together with `WriterInv`:
- a buffer that passed `ota_end` holds the session's file;
- an accepted `ota_write` reply means the flash holds it.

`WriterInv` needs the single session: with a second one, the buffer can
hold the other session's image.

The cases of `StepRefines`:
- `FwFlash` is `Start`;
- `ChunkAccepted` is `Upload`, since `nextOffset > offset`;
- a checked `DeviceWrite` is `Commit`, since the session is at the write
  phase with `offset = Len`;
- `WriteAccepted` is `Finish`, by `WriterInv`;
- the catch is `Fail`;
- every other step is a stutter.

`SuccessReportCorrect` (`Spec => SuccessReportMatchesFlash`, one session)
states the action property that the run `ota_single` checks. It uses the
same invariant `IInv ∧ WriterInv`. The lemma `SuccessStep` has one case
per kind of step:
- `WriteAccepted`, the only step that moves `pc` to `"done"`, needs an
  accepted `ota_write` reply, and by `WriterInv` the flash then holds the
  session's file;
- the steps that leave `pc` alone, the request phases, and abort or retry
  never reach `"done"`.

### OtaBufferProofs.tla

`UploadedPrefix` (`Spec => []UploadedPrefixOnDevice`, one session). The
inductive invariant `BufInv` adds to `IInv`, for the session:
- in the read and begin phases, `offset = 0`;
- once `ota_begin` was answered, the device buffer has the image's length;
- in the chunk and end phases, the buffer holds the image's bytes below
  `offset`;
- in the chunk phase, once the device stored the chunk, the buffer holds
  the image's bytes below `nextOffset`, so that accepting the reply
  keeps the property.

`ChunkInImage` gives what `SubSeq` of the image returns (from
`SubSeqProperties` of the library). The `DeviceChunk` case of `NextBufInv`
goes point by point, below and above `offset`. A re-sent chunk writes
the same bytes at the same place, so a lost reply does no harm. TLC
checked `BufInv` on the `ota_single` instance before it was proved.

### RetryExecProofs.tla

`ExecutorCorrect` (`Spec => []ExecutorMeetsSpec`) has two hypotheses.
Each marks a wrap in the code beyond which the property is false:
- `Tries ≤ 32`: from 33 tries on, `1 << 31` is negative (finding 6, run
  `retry_backoff_wrap`).
- `SleepsFit`: every sleep `baseDelayMs * 2^n`, for `n ≤ tries - 2`, is
  at most 2^31 − 1 ms. Beyond that, `setTimeout`'s `ToInt32` wraps the
  delay, and the sleep is cut short or skipped. With 80 ms this happens
  from `i = 25` on.

`mkPost()` meets both hypotheses: 6 tries and 80 ms, so the largest sleep
is 1280 ms. TLC's integers stop at 2^31 − 1, so no run can reach the
second wrap. The theorem states its boundary instead.

The invariant `RInv` says, for each place of the loop:
- how many attempts were made and how many failures the target has left;
- that the time slept so far is `baseDelayMs * (2^i - 1)`;
- while sleeping, that the delay is `baseDelayMs * (1 << i)`.

`SleepFits` turns `SleepsFit` into the bound for the sleep at hand.
The provers evaluate `2^n` only for a literal `n`. So `PowDouble`
(`2^(n+1) = 2 * 2^n`) is proved with one case for each `n` in `0..30`,
which are the exponents the loop meets below 32 tries. `ShiftIsPower`
gives `1 << n = 2^n` there, and says `setTimeout` waits such a delay
unchanged when it fits in 32 bits.

`BackoffCorrect` (`Spec => BackoffGrows`, an action property) holds for
`Tries ≤ 32`, `BaseDelay > 0` and `SleepsFit`. Each sleep after the first waits
longer than the one before it. `mkPost()` uses 80 ms, and with a base of 0
no sleep waits at all.

The argument:
- `BInv`: back at its fetch after a sleep, the loop still holds that
  sleep's delay, `baseDelayMs * (1 << (i - 1))`.
- `NextBackoff`: the step that starts the next sleep hands `sleepMs()`
  `baseDelayMs * 2^i = 2 * baseDelayMs * 2^(i-1)`, with `i ≤ 30`.
  `PowDouble` also gives `2^n ≥ 1` here.

The same property fails at 33 tries (run `retry_backoff_wrap`), so the
theorem and the run together fix the boundary of finding 6.

### Base64Proofs.tla

`Base64RoundTrip`: for every byte sequence `s`, `Atob(Btoa(s)) = s`.
The argument goes group by group:
- `WordDigits`: the four base-64 digits of a group's 24-bit value rebuild
  it.
- `WordBytes`: the value's base-256 digits are the three characters.
- `PadDigits`: a digit covering only missing characters is 0.
- `DigitsOfGroup`: btoa() writes `'='` exactly there, so the decoder's
  `Quad` is the group's value (`QuadOfGroup`).
- `PadCount`: the number of `'='` at the end is the number of missing
  characters, so the decoder's length is `Len(s)`.

### ChunkPlannerProofs.tla

`ProgressCorrect` (`Spec => []ProgressMonotone`) holds for every image,
chunk size and piece length. The inductive invariant `PInv` says that,
after `n` turns:
- `offset = min(n * C, L)`;
- every request `j` was sent at `(j-1) * C` and showed
  `floor(min(j*C, L) * 100 / L)`;
- the requests are typed without looking into their base64 text.

The lemma `PercentMonotone` (`floor(k*100/L)` grows with `k`) then gives
the property.

`PlanCorrect` (`Spec => []PlanMatchesReference`). `B64Inv` adds to `PInv`
that request `j` carries `BytesToB64` of the `j`-th chunk of the
reference plan. The rest of the argument:
- `RequestCount`: at the end, `Len(sent) = ceil(L / C)`;
- `ChunkOfPlan`: chunk `j` has the reference length and the image's
  bytes at its offset;
- `Base64RoundTrip`: the device decodes each request to its chunk.

The theorem has one hypothesis: `BinaryString(c, Piece) = c`. This says
the piece loop of `bytesToB64()` hands `btoa()` its input unchanged. It
is true of the code, but it is a fact about what a recursive function
computes for every input. Proving it needs induction over data, which is
out of reach (see below). TLC checks it, through
`PlanMatchesReference`, in run `chunk_planner`.

### Left to TLC

- **Liveness** (`SessionEnds`, `LoadLoopEnds`, `EventuallyFresh`) and
  the fairness of the refinement. Temporal reasoning under fairness, and
  ENABLED, are out of the prover's reach here; `Refinement` proves the
  safety part only.
- **The CRC equalities** (`IncrementalEqualsWhole`,
  `WholeMatchesReference`). They are facts about what recursive functions
  compute for every input, which needs induction over data. The library's
  induction theorems take an operator parameter that the installed
  provers cannot instantiate.
- **The piece loop of `bytesToB64()`** (`BinaryString`). This is the
  hypothesis of `PlanCorrect`, for the same reason.
- **Several sessions.** `SuccessReportCorrect`, `UploadedPrefix` and
  `Refinement` are proved for one session. With two sessions,
  `SuccessReportMatchesFlash` fails (finding of run `ota_two_sessions`).

## Not modelled

- **Tabs, console and field-enabling toggles** (`setupTabs`,
  `initFwConsole`, `update*Disabled`). These are presentation: no state
  they change is read by another handler.
- **Real time beyond TLC's integers.**
  - For base 80 ms, the delays from `i = 25` on exceed `setTimeout`'s
    2^31 − 1 ms and wrap. `TimerWait` models this wrap, but TLC cannot
    form such delays. The retry theorems assume the sleeps fit
    (`SleepsFit`), and with `tries = 6` they do.
  - `StatsPoll` has no clock: the one-second interval is the timer firing
    whenever a slot is free.
- **An unbounded pile-up of statistics polls.** The model bounds the
  calls in progress by `Polls`.
- **Text formatting.** `setText`, `log`, the progress line's text and the
  JSON bodies are left out.
- **The device's own flash semantics.** These are outside the web
  sources and the spec's non-goals.

## Open work

1. Cover the ignored POST outcome of the save handlers (main.js:452)
   with a property, once the spec says what the user should be told.
2. Prove the CRC and `bytesToB64()` piece-loop equalities, should a
   prover that instantiates induction schemes become available.
3. Prove the fairness part of `Refinement`, which needs reasoning about
   ENABLED.
