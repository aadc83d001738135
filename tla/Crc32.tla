------------------------------- MODULE Crc32 -------------------------------
(***************************************************************************)
(* crc32_make_table() and crc32_update() of                                *)
(* src/web_configurator/www/main.js. JavaScript applies ^, & and >>> to   *)
(* the 32-bit pattern of their operands (^ returns it as a signed integer,*)
(* >>> as an unsigned one, a Uint32Array stores it modulo 2^32), so the    *)
(* model keeps every value as its 32-bit pattern: a Word, the pair of its *)
(* high and low 16-bit halves (TLC's own integers are signed 32-bit).     *)
(* The state machine feeds an image to crc32_update() piece by piece,     *)
(* carrying the running value forward, as a caller computing the checksum *)
(* incrementally would; fwFlash() makes the single-call case.              *)
(***************************************************************************)
EXTENDS Integers, Sequences

CONSTANTS
    Bytes,   \* byte values fed
    Pieces,  \* the pieces one call of crc32_update() may be given
    MaxLen   \* bound on the number of bytes fed

ASSUME BytesAssumption == Bytes \subseteq 0..255
ASSUME MaxLenAssumption == MaxLen \in Nat

VARIABLES
    fed,  \* the bytes fed so far
    crc   \* the value carried between the calls

vars == <<fed, crc>>

Half == 0..65535
Word == Half \X Half

\* The word of a 32-bit unsigned value given as its two halves.
W(hi, lo) == <<hi, lo>>

Zero32 == W(0, 0)
Mask32 == W(65535, 65535)  \* 0xFFFFFFFF
Poly == W(60856, 33568)    \* 0xEDB88320

\* Exclusive or of two 16-bit halves, in arithmetic: bit j of the result
\* is the sum of bits j of a and b, modulo 2. The sixteen terms are added
\* as a balanced tree, which keeps TLC's evaluation shallow.
Xor16(a, b) ==
    LET x(j) == (((a \div 2^j) + (b \div 2^j)) % 2) * 2^j
        x4(j) == (x(j) + x(j + 1)) + (x(j + 2) + x(j + 3))
    IN  (x4(0) + x4(4)) + (x4(8) + x4(12))

\* a ^ b, a >>> 1, a >>> 8, a & 1 and a & 0xFF on 32-bit patterns.
XorW(a, b) == W(Xor16(a[1], b[1]), Xor16(a[2], b[2]))
Shr1(a) == W(a[1] \div 2, a[2] \div 2 + (a[1] % 2) * 32768)
Shr8(a) == W(a[1] \div 256, a[2] \div 256 + (a[1] % 256) * 256)
Bit0(a) == a[2] % 2
LowByte(a) == a[2] % 256
ByteW(b) == W(0, b)

\* One turn of the inner loop of crc32_make_table():
\* c = (c & 1) ? (0xEDB88320 ^ (c >>> 1)) : (c >>> 1).
TableStep(c) == IF Bit0(c) = 1 THEN XorW(Poly, Shr1(c)) ELSE Shr1(c)

\* Mutant: the inner loop runs seven turns ("k < 7").
TableEntrySevenTurns(i) ==
    LET c[k \in 0..7] == IF k = 0 THEN ByteW(i) ELSE TableStep(c[k - 1])
    IN  c[7]

\* t[i] = c >>> 0 after eight turns from c = i.
TableEntry(i) ==
    LET c[k \in 0..8] == IF k = 0 THEN ByteW(i) ELSE TableStep(c[k - 1])
    IN  c[8]

CRC32_T == [i \in 0..255 |-> TableEntry(i)]

\* Mutant: the final "^ 0xFFFFFFFF" is left out.
Crc32UpdateNoFinalMask(init, u8) ==
    LET c[k \in 0..Len(u8)] ==
            IF k = 0 THEN XorW(init, Mask32)
            ELSE XorW(CRC32_T[LowByte(XorW(c[k - 1], ByteW(u8[k])))],
                      Shr8(c[k - 1]))
    IN  c[Len(u8)]

\* crc32_update(crc, u8): c = (crc ^ 0xFFFFFFFF) >>> 0, then per byte
\* c = CRC32_T[(c ^ u8[i]) & 0xFF] ^ (c >>> 8), and (c ^ 0xFFFFFFFF) >>> 0.
Crc32Update(init, u8) ==
    LET c[k \in 0..Len(u8)] ==
            IF k = 0 THEN XorW(init, Mask32)
            ELSE XorW(CRC32_T[LowByte(XorW(c[k - 1], ByteW(u8[k])))],
                      Shr8(c[k - 1]))
    IN  XorW(c[Len(u8)], Mask32)

-----------------------------------------------------------------------------
(* The reference: the reflected CRC-32 computed bit by bit, without a     *)
(* table and without the Word arithmetic, on a register of 32 bits.       *)

\* One bit of polynomial division on the register <<high, low>>: shift
\* right, and xor 0xEDB88320 in when the bit shifted out is 1.
RefBit(r) ==
    LET s == <<r[1] \div 2, (r[2] \div 2) + (r[1] % 2) * 32768>>
    IN  IF r[2] % 2 = 1 THEN <<Xor16(s[1], 60856), Xor16(s[2], 33568)>>
                        ELSE s

RefByte(r, b) ==
    LET q[k \in 0..8] ==
            IF k = 0 THEN <<r[1], Xor16(r[2], b)>> ELSE RefBit(q[k - 1])
    IN  q[8]

RefCrc32(u8) ==
    LET c[k \in 0..Len(u8)] ==
            IF k = 0 THEN <<65535, 65535>> ELSE RefByte(c[k - 1], u8[k])
    IN  <<65535 - c[Len(u8)][1], 65535 - c[Len(u8)][2]>>

\* The reference gives the standard check values: 0 for the empty
\* sequence and 0xD202EF8D for the byte 0x00.
ASSUME ReferenceKnownVectors ==
    /\ RefCrc32(<< >>) = Zero32
    /\ RefCrc32(<<0>>) = W(53762, 61325)

-----------------------------------------------------------------------------
Init ==
    /\ fed = << >>
    /\ crc = Zero32

\* crc = crc32_update(crc, piece).
Feed ==
    \E piece \in Pieces :
        /\ Len(fed) + Len(piece) <= MaxLen
        /\ fed' = fed \o piece
        /\ crc' = Crc32Update(crc, piece)

Spec == Init /\ [][Feed]_vars

-----------------------------------------------------------------------------
\* Feeding an image piece by piece, carrying the running value, gives the
\* value of one call over the whole image (the property the checksum's
\* users rely on), even though the loop's intermediate values are signed.
IncrementalEqualsWhole == crc = Crc32Update(Zero32, fed)

\* The table-driven crc32_update() computes the standard reflected CRC-32
\* of polynomial 0xEDB88320 with initial and final masks 0xFFFFFFFF.
WholeMatchesReference == Crc32Update(Zero32, fed) = RefCrc32(fed)

=============================================================================
