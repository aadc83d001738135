------------------------------- MODULE Base64 -------------------------------
(***************************************************************************)
(* bytesToB64(u8) of src/web_configurator/www/main.js, which turns a      *)
(* chunk of the image into the b64 field of ota_chunk, and the device's   *)
(* decoding of that field.                                                 *)
(*   - The loop appends String.fromCharCode.apply(null, piece) for the    *)
(*     pieces u8.subarray(i, i + chunk), i = 0, chunk, 2 chunk, ... below *)
(*     u8.length. fromCharCode maps the byte b to the character of code   *)
(*     b, so a character is written as its code.                           *)
(*   - btoa(s) encodes each three characters as four base64 digits and    *)
(*     pads a last group of one or two characters with '='. A digit is    *)
(*     written as its value 0..63, '=' as Pad.                             *)
(*   - The device decodes every four digits to three bytes, one byte less *)
(*     per '=' (spec, section 6).                                          *)
(* Nothing here is recursive but the piece loop, which is a recursive     *)
(* function.                                                               *)
(***************************************************************************)
EXTENDS Naturals, Sequences

Pad == 64

MinOf(a, b) == IF a < b THEN a ELSE b

\* Mutant: the loop runs while i + chunk <= u8.length, so a last piece
\* shorter than chunk is dropped.
BinaryStringDropTail(u8, piece) ==
    LET s[n \in Nat] ==
            IF n = 0 THEN << >>
            ELSE s[n - 1] \o SubSeq(u8, (n - 1) * piece + 1, MinOf(n * piece, Len(u8)))
    IN  s[Len(u8) \div piece]

\* The string s the loop of bytesToB64() builds: after n turns it holds
\* the characters of the first n pieces; the loop turns once per started
\* piece, and subarray() stops at the end of u8.
BinaryString(u8, piece) ==
    LET s[n \in Nat] ==
            IF n = 0 THEN << >>
            ELSE s[n - 1] \o SubSeq(u8, (n - 1) * piece + 1, MinOf(n * piece, Len(u8)))
    IN  s[(Len(u8) + piece - 1) \div piece]

\* btoa(s): digit j belongs to group g of three characters, whose 24-bit
\* value holds the group's characters (0 for the missing ones); the
\* digits 3 and 4 of a group are '=' when the characters they would start
\* at are missing.
Btoa(s) ==
    LET n == Len(s)
        Char(k) == IF k <= n THEN s[k] ELSE 0
        Word(g) == Char(3 * g + 1) * 65536 + Char(3 * g + 2) * 256 + Char(3 * g + 3)
    IN  [j \in 1..(4 * ((n + 2) \div 3)) |->
            LET g == (j - 1) \div 4
                p == (j - 1) % 4
            IN  IF p >= 2 /\ 3 * g + p > n THEN Pad
                ELSE (Word(g) \div 64^(3 - p)) % 64]

\* bytesToB64(u8), with the piece length chunk of its loop.
BytesToB64(u8, piece) == Btoa(BinaryString(u8, piece))

\* The device's decoder: each group of four digits is a 24-bit value ('='
\* counts as 0) whose three bytes are output, less one byte for each '='
\* at the end of the text.
Atob(t) ==
    LET m == Len(t)
        pads == (IF m >= 1 /\ t[m] = Pad THEN 1 ELSE 0)
                  + (IF m >= 2 /\ t[m - 1] = Pad THEN 1 ELSE 0)
        Digit(k) == IF t[k] = Pad THEN 0 ELSE t[k]
        Quad(g) == Digit(4 * g + 1) * 262144 + Digit(4 * g + 2) * 4096
                     + Digit(4 * g + 3) * 64 + Digit(4 * g + 4)
    IN  [k \in 1..(3 * (m \div 4) - pads) |->
            (Quad((k - 1) \div 3) \div 256^(2 - ((k - 1) % 3))) % 256]

=============================================================================
