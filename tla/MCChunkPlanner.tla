--------------------------- MODULE MCChunkPlanner ---------------------------
(* Small instances of ChunkPlanner for TLC.                                *)
EXTENDS ChunkPlanner, SequencesExt

\* btoa() agrees with the test vectors of RFC 4648: "f", "fo", "foo" and
\* "fooba" encode to "Zg==", "Zm8=", "Zm9v" and "Zm9vYmE=".
ASSUME Btoa(<<102>>) = <<25, 32, Pad, Pad>>
ASSUME Btoa(<<102, 111>>) = <<25, 38, 60, Pad>>
ASSUME Btoa(<<102, 111, 111>>) = <<25, 38, 61, 47>>
ASSUME Btoa(<<102, 111, 111, 98, 97>>) = <<25, 38, 61, 47, 24, 38, 4, Pad>>

\* The reference plan gives the spec's end-to-end scenario: 1300 bytes in
\* chunks of 512 are sent at offsets 0, 512 and 1024 with lengths 512,
\* 512 and 276.
ASSUME RefPlan(1300, 512) = << [off |-> 0, len |-> 512],
                               [off |-> 512, len |-> 512],
                               [off |-> 1024, len |-> 276] >>

\* Every image of up to five bytes drawn from values that set the low,
\* high and middle bits of the base64 digits, and a 13-byte image: with
\* chunks of 5 it takes two full chunks and a short one, like the
\* scenario's image.
MCBuffers ==
    BoundedSeq({0, 1, 254, 255}, 5) \cup {[k \in 1..13 |-> (k * 37) % 256]}
=============================================================================
