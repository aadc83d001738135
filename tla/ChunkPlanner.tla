---------------------------- MODULE ChunkPlanner ----------------------------
(***************************************************************************)
(* The upload loop of fwFlash() (src/web_configurator/www/main.js) as the *)
(* chunk planner of the spec (section 4.3): for an image u8 and chunkSize, *)
(* each turn takes nextOffset = Math.min(offset + chunkSize, length), the *)
(* chunk u8.subarray(offset, nextOffset) and its bytesToB64(), sends      *)
(* {off: offset, b64} and shows floor(nextOffset * 100 / length). The     *)
(* requests are recorded in the order they are sent; every request is     *)
(* taken as acknowledged (the retries are OtaSession's).                  *)
(***************************************************************************)
EXTENDS Base64

CONSTANTS
    Buffers,     \* the images fileU8 may hold
    ChunkSizes,  \* the values of chunkSize
    Piece        \* the piece length of bytesToB64()'s loop (0x8000)

ASSUME PlannerAssumption ==
    /\ Buffers \subseteq Seq(0..255)
    /\ ChunkSizes \subseteq Nat \ {0}
    /\ Piece \in Nat \ {0}

VARIABLES
    u8,         \* fileU8
    chunkSize,  \* chunkSize
    offset,     \* offset
    sent        \* the ota_chunk requests sent, with the percent shown after each

vars == <<u8, chunkSize, offset, sent>>

Init ==
    /\ u8 \in Buffers
    /\ chunkSize \in ChunkSizes
    /\ offset = 0
    /\ sent = << >>

\* Mutant: the percentage is computed from offset before it advances.
PostStalePercent ==
    LET nextOffset == MinOf(offset + chunkSize, Len(u8))
    IN  /\ offset < Len(u8)
        /\ sent' = Append(sent, [off |-> offset,
                                 b64 |-> BytesToB64(SubSeq(u8, offset + 1, nextOffset), Piece),
                                 pct |-> (offset * 100) \div Len(u8)])
        /\ offset' = nextOffset
        /\ UNCHANGED <<u8, chunkSize>>

\* One turn of the loop while offset < fileU8.length.
Post ==
    LET nextOffset == MinOf(offset + chunkSize, Len(u8))
    IN  /\ offset < Len(u8)
        /\ sent' = Append(sent, [off |-> offset,
                                 b64 |-> BytesToB64(SubSeq(u8, offset + 1, nextOffset), Piece),
                                 pct |-> (nextOffset * 100) \div Len(u8)])
        /\ offset' = nextOffset
        /\ UNCHANGED <<u8, chunkSize>>

Spec == Init /\ [][Post]_vars

-----------------------------------------------------------------------------
(* Properties.                                                             *)

\* The spec's reference plan: ceil(L / C) chunks at offsets 0, C, 2C, ...,
\* each C bytes long but the last, which ends at L.
RefPlan(L, C) ==
    [j \in 1..((L + C - 1) \div C) |-> [off |-> (j - 1) * C, len |-> MinOf(C, L - (j - 1) * C)]]

\* When the loop ends, the chunks the device decodes form the reference
\* plan, and each holds the image's bytes at its offset: together they
\* cover [0, length) with no gap and no overlap, whatever the chunk and
\* piece lengths.
PlanMatchesReference ==
    offset >= Len(u8) =>
        LET data(j) == Atob(sent[j].b64)
        IN  /\ [j \in 1..Len(sent) |-> [off |-> sent[j].off, len |-> Len(data(j))]]
                 = RefPlan(Len(u8), chunkSize)
            /\ \A j \in 1..Len(sent) :
                 data(j) = SubSeq(u8, sent[j].off + 1, sent[j].off + Len(data(j)))

\* The percentages shown never go down, and the last one is 100 (spec,
\* section 7: "the emitted percentage sequence is non-decreasing and the
\* final value is 100").
ProgressMonotone ==
    /\ \A j \in 1..(Len(sent) - 1) : sent[j].pct <= sent[j + 1].pct
    /\ (offset >= Len(u8) /\ Len(u8) > 0) => sent[Len(sent)].pct = 100

=============================================================================
