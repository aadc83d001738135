----------------------------- MODULE Base64Proofs -----------------------------
(***************************************************************************)
(* Proof that the device's decoder inverts btoa() on every byte sequence: *)
(* Atob(Btoa(s)) = s. The argument works group by group: the four digits  *)
(* btoa() writes for three characters are the base-64 digits of their    *)
(* 24-bit value, a '=' stands where that digit is 0 anyway (the missing   *)
(* characters count as 0), so the decoder's Quad is the group's value,    *)
(* whose base-256 digits are the characters; and the number of '=' at the *)
(* end is the number of characters missing from the last group.          *)
(***************************************************************************)
EXTENDS Base64, SequenceTheorems, TLAPS

\* The number of groups of three characters btoa() writes for n characters.
Groups(n) == (n + 2) \div 3

\* The names Btoa and Atob give inside their LETs, as functions of the text.
Word3(a, b, c) == a * 65536 + b * 256 + c
Chr(s, k) == IF k <= Len(s) THEN s[k] ELSE 0
Grp(s, g) == Word3(Chr(s, 3 * g + 1), Chr(s, 3 * g + 2), Chr(s, 3 * g + 3))
DigitOf(w, p) == (w \div 64^(3 - p)) % 64
WordSum(a, b, c) == DigitOf(Word3(a, b, c), 0) * 262144 + DigitOf(Word3(a, b, c), 1) * 4096
                      + DigitOf(Word3(a, b, c), 2) * 64 + DigitOf(Word3(a, b, c), 3)
BytesOf(a, b, c) == /\ (Word3(a, b, c) \div 256^2) % 256 = a
                    /\ (Word3(a, b, c) \div 256^1) % 256 = b
                    /\ (Word3(a, b, c) \div 256^0) % 256 = c
Dig(t, k) == IF t[k] = Pad THEN 0 ELSE t[k]
QuadOf(t, g) == Dig(t, 4 * g + 1) * 262144 + Dig(t, 4 * g + 2) * 4096
                  + Dig(t, 4 * g + 3) * 64 + Dig(t, 4 * g + 4)
Pads(t) == (IF Len(t) >= 1 /\ t[Len(t)] = Pad THEN 1 ELSE 0)
             + (IF Len(t) >= 2 /\ t[Len(t) - 1] = Pad THEN 1 ELSE 0)

-----------------------------------------------------------------------------
(* One group of three characters.                                          *)

\* A base-64 digit is below 64, whatever the value it is taken from.
LEMMA DigitRange ==
    ASSUME NEW w \in Int, NEW p \in 0..3
    PROVE  DigitOf(w, p) \in 0..63
BY DEF DigitOf

\* The four base-64 digits of a group's value rebuild it.
LEMMA WordDigits ==
    ASSUME NEW a \in 0..255, NEW b \in 0..255, NEW c \in 0..255
    PROVE  WordSum(a, b, c) = Word3(a, b, c)
<1> DEFINE w == a * 65536 + b * 256 + c
<1>0. Word3(a, b, c) = w
  BY DEF Word3
<1>1. /\ DigitOf(w, 0) = w \div 262144
      /\ DigitOf(w, 1) = (w \div 4096) % 64
      /\ DigitOf(w, 2) = (w \div 64) % 64
      /\ DigitOf(w, 3) = w % 64
  BY DEF DigitOf
\* Each digit in terms of the three characters.
<1>2. DigitOf(w, 0) = a \div 4
  BY <1>1, SMT
<1>3. DigitOf(w, 1) = (a % 4) * 16 + b \div 16
  <2>1. w \div 4096 = a * 16 + b \div 16
    BY SMT
  <2>2. (a * 16 + b \div 16) % 64 = (a % 4) * 16 + b \div 16
    BY SMT
  <2>3. QED
    BY <1>1, <2>1, <2>2
<1>4. DigitOf(w, 2) = (b % 16) * 4 + c \div 64
  BY <1>1, SMT
<1>5. DigitOf(w, 3) = c % 64
  BY <1>1, SMT
<1>6. QED
  BY <1>0, <1>2, <1>3, <1>4, <1>5, SMT DEF WordSum

\* The base-256 digits of a group's value are its three characters.
LEMMA WordBytes ==
    ASSUME NEW a \in 0..255, NEW b \in 0..255, NEW c \in 0..255
    PROVE  BytesOf(a, b, c)
BY DEF BytesOf, Word3

\* A digit that covers only missing (zero) characters is 0.
LEMMA PadDigits ==
    ASSUME NEW a \in 0..255, NEW b \in 0..255, NEW c \in 0..255
    PROVE  /\ c = 0 => DigitOf(Word3(a, b, c), 3) = 0
           /\ (b = 0 /\ c = 0) => DigitOf(Word3(a, b, c), 2) = 0
BY DEF Word3, DigitOf

-----------------------------------------------------------------------------
(* btoa() and the decoder on a whole text.                                 *)

\* A character of the text, or a missing one, is a byte.
LEMMA ChrByte ==
    ASSUME NEW s \in Seq(0..255), NEW k \in Nat \ {0}
    PROVE  /\ Chr(s, k) \in 0..255
           /\ k > Len(s) => Chr(s, k) = 0
<1>1. CASE k <= Len(s)
  <2>1. s[k] \in 0..255
    BY <1>1, ElementOfSeq
  <2>2. QED
    BY <1>1, <2>1 DEF Chr
<1>2. CASE ~(k <= Len(s))
  BY <1>2 DEF Chr
<1>3. QED
  BY <1>1, <1>2

\* The three characters of group g are bytes.
LEMMA GroupBytes ==
    ASSUME NEW s \in Seq(0..255), NEW g \in Nat
    PROVE  /\ Chr(s, 3 * g + 1) \in 0..255
           /\ Chr(s, 3 * g + 2) \in 0..255
           /\ Chr(s, 3 * g + 3) \in 0..255
<1>1. 3 * g + 1 \in Nat \ {0} /\ 3 * g + 2 \in Nat \ {0} /\ 3 * g + 3 \in Nat \ {0}
  OBVIOUS
<1>2. QED
  BY <1>1, ChrByte, SMTT(30)

\* btoa() writes four digits per group; its length is 4 per group.
LEMMA BtoaShape ==
    ASSUME NEW s \in Seq(0..255)
    PROVE  /\ Btoa(s) = [j \in 1..(4 * Groups(Len(s))) |->
                          IF (j - 1) % 4 >= 2 /\ 3 * ((j - 1) \div 4) + ((j - 1) % 4) > Len(s)
                            THEN Pad ELSE DigitOf(Grp(s, (j - 1) \div 4), (j - 1) % 4)]
           /\ Groups(Len(s)) \in Nat
BY DEF Btoa, Groups, Grp, Word3, Chr, DigitOf

\* The g-th group's digit p is at position 4 g + p + 1.
LEMMA BtoaAt ==
    ASSUME NEW s \in Seq(0..255), NEW g \in 0..(Groups(Len(s)) - 1),
           NEW p \in 0..3
    PROVE  Btoa(s)[4 * g + p + 1] =
             IF p >= 2 /\ 3 * g + p > Len(s) THEN Pad ELSE DigitOf(Grp(s, g), p)
<1> DEFINE j == 4 * g + p + 1
<1>1. Groups(Len(s)) \in Nat
  BY BtoaShape
<1>2. j \in 1..(4 * Groups(Len(s))) /\ (j - 1) \div 4 = g /\ (j - 1) % 4 = p
  BY <1>1, SMTT(30)
<1>3. Btoa(s)[j] =
        IF (j - 1) % 4 >= 2 /\ 3 * ((j - 1) \div 4) + ((j - 1) % 4) > Len(s)
          THEN Pad ELSE DigitOf(Grp(s, (j - 1) \div 4), (j - 1) % 4)
  BY <1>2, BtoaShape
<1>4. QED
  BY <1>2, <1>3

\* Digit p of group g is '=' exactly when btoa() pads it, and the decoder
\* reads it as digit p of the group's value either way: a padded digit
\* covers only missing characters, so that digit is 0.
LEMMA DigitsOfGroup ==
    ASSUME NEW s \in Seq(0..255), NEW g \in 0..(Groups(Len(s)) - 1),
           NEW p \in 0..3
    PROVE  /\ Btoa(s)[4 * g + p + 1] = Pad <=> (p >= 2 /\ 3 * g + p > Len(s))
           /\ Dig(Btoa(s), 4 * g + p + 1) = DigitOf(Grp(s, g), p)
<1> DEFINE a == Chr(s, 3 * g + 1)
           b == Chr(s, 3 * g + 2)
           c == Chr(s, 3 * g + 3)
<1>0. g \in Nat
  BY BtoaShape
<1>1. a \in 0..255 /\ b \in 0..255 /\ c \in 0..255
  BY <1>0, GroupBytes
<1>2. Grp(s, g) = Word3(a, b, c)
  BY DEF Grp
<1>3. Btoa(s)[4 * g + p + 1] =
        IF p >= 2 /\ 3 * g + p > Len(s) THEN Pad ELSE DigitOf(Grp(s, g), p)
  BY BtoaAt, Zenon
<1>4. DigitOf(Word3(a, b, c), p) \in 0..63
  <2>1. Word3(a, b, c) \in Int
    <3>1. \A x, y, z \in 0..255 : Word3(x, y, z) \in Int
      BY DEF Word3
    <3>2. QED
      BY <1>1, <3>1, Zenon
  <2>2. QED
    BY <2>1, DigitRange, Zenon
<1>5. CASE p >= 2 /\ 3 * g + p > Len(s)
  \* The padded digit is 0: p = 2 leaves b and c missing, p = 3 leaves c.
  <2>1. c = 0 /\ (p = 2 => b = 0)
    <3>1. 3 * g + 3 > Len(s) /\ (p = 2 => 3 * g + 2 > Len(s))
      BY <1>5
    <3>2. 3 * g + 3 \in Nat \ {0} /\ 3 * g + 2 \in Nat \ {0}
      BY <1>0
    <3>3. QED
      BY <3>1, <3>2, ChrByte
  <2>2. DigitOf(Word3(a, b, c), p) = 0
    <3>1. CASE p = 2
      BY <1>1, <2>1, <3>1, PadDigits, ZenonT(40)
    <3>2. CASE p = 3
      BY <1>1, <2>1, <3>2, PadDigits, ZenonT(40)
    <3>3. QED
      BY <1>5, <3>1, <3>2
  <2>3. QED
    BY <1>2, <1>3, <1>5, <2>2 DEF Dig
<1>6. CASE ~(p >= 2 /\ 3 * g + p > Len(s))
  <2>1. Btoa(s)[4 * g + p + 1] = DigitOf(Word3(a, b, c), p)
    BY <1>2, <1>3, <1>6, Zenon
  <2>2. DigitOf(Word3(a, b, c), p) # Pad
    <3>1. \A x \in 0..63 : x # Pad
      BY DEF Pad
    <3>2. QED
      BY <1>4, <3>1, Zenon
  <2>3. QED
    BY <1>2, <1>6, <2>1, <2>2, Zenon DEF Dig
<1>7. QED
  BY <1>5, <1>6

\* The decoder's Quad of a group is the group's value.
LEMMA QuadOfGroup ==
    ASSUME NEW s \in Seq(0..255), NEW g \in 0..(Groups(Len(s)) - 1)
    PROVE  QuadOf(Btoa(s), g) = Grp(s, g)
<1> DEFINE a == Chr(s, 3 * g + 1)
           b == Chr(s, 3 * g + 2)
           c == Chr(s, 3 * g + 3)
<1>0. g \in Nat
  BY BtoaShape
<1>1. /\ Dig(Btoa(s), 4 * g + 0 + 1) = DigitOf(Grp(s, g), 0)
      /\ Dig(Btoa(s), 4 * g + 1 + 1) = DigitOf(Grp(s, g), 1)
      /\ Dig(Btoa(s), 4 * g + 2 + 1) = DigitOf(Grp(s, g), 2)
      /\ Dig(Btoa(s), 4 * g + 3 + 1) = DigitOf(Grp(s, g), 3)
  <2>1. 0 \in 0..3 /\ 1 \in 0..3 /\ 2 \in 0..3 /\ 3 \in 0..3
    OBVIOUS
  <2>2. QED
    BY <2>1, DigitsOfGroup, Zenon
<1>2. /\ 4 * g + 0 + 1 = 4 * g + 1 /\ 4 * g + 1 + 1 = 4 * g + 2
      /\ 4 * g + 2 + 1 = 4 * g + 3 /\ 4 * g + 3 + 1 = 4 * g + 4
  BY <1>0
<1>3. a \in 0..255 /\ b \in 0..255 /\ c \in 0..255
  BY <1>0, GroupBytes, ZenonT(40)
<1>4. WordSum(a, b, c) = Word3(a, b, c)
  BY <1>3, WordDigits
<1>5. Grp(s, g) = Word3(a, b, c)
  BY DEF Grp
<1>6. QuadOf(Btoa(s), g) =
        DigitOf(Grp(s, g), 0) * 262144 + DigitOf(Grp(s, g), 1) * 4096
          + DigitOf(Grp(s, g), 2) * 64 + DigitOf(Grp(s, g), 3)
  BY <1>1, <1>2 DEF QuadOf
<1>7. QED
  BY <1>4, <1>5, <1>6 DEF WordSum

\* btoa() writes one '=' per character missing from the last group.
LEMMA PadCount ==
    ASSUME NEW s \in Seq(0..255)
    PROVE  /\ Len(Btoa(s)) = 4 * Groups(Len(s))
           /\ Pads(Btoa(s)) = 3 * Groups(Len(s)) - Len(s)
<1> DEFINE n == Len(s)
           G == Groups(n)
           t == Btoa(s)
<1>1. Len(t) = 4 * G /\ G \in Nat
  BY BtoaShape
<1>2. CASE n = 0
  <2>1. G = 0
    BY <1>2 DEF Groups
  <2>2. Len(t) = 0
    BY <1>1, <2>1
  <2>3. Pads(t) = 0
    BY <2>2 DEF Pads
  <2>4. QED
    BY <1>1, <1>2, <2>1, <2>3
<1>3. CASE n > 0
  <2>1. G \in Nat \ {0} /\ 3 * G - n \in 0..2
    BY <1>3 DEF Groups
  <2>2. G - 1 \in 0..(G - 1)
    BY <2>1
  <2>3. /\ t[4 * G] = Pad <=> 3 * (G - 1) + 3 > n
        /\ t[4 * G - 1] = Pad <=> 3 * (G - 1) + 2 > n
    <3>1. /\ t[4 * (G - 1) + 3 + 1] = Pad <=> 3 * (G - 1) + 3 > n
          /\ t[4 * (G - 1) + 2 + 1] = Pad <=> 3 * (G - 1) + 2 > n
      BY <2>2, DigitsOfGroup
    <3>2. 4 * (G - 1) + 3 + 1 = 4 * G /\ 4 * (G - 1) + 2 + 1 = 4 * G - 1
      BY <2>1
    <3>3. QED
      BY <3>1, <3>2
  <2>4. QED
    BY <1>1, <2>1, <2>3, SMTT(30) DEF Pads
<1>4. QED
  BY <1>1, <1>2, <1>3

-----------------------------------------------------------------------------
\* The device decodes the b64 field of ota_chunk to the bytes the browser
\* encoded: for every byte sequence s, decoding btoa(s) gives s back, with
\* its length restored from the '=' padding of the last group. (The piece
\* loop of bytesToB64() that builds s from the chunk is a recursive
\* function; what it computes is checked by TLC in run chunk_planner.)
THEOREM Base64RoundTrip ==
    ASSUME NEW s \in Seq(0..255)
    PROVE  Atob(Btoa(s)) = s
<1> DEFINE n == Len(s)
           G == Groups(n)
           t == Btoa(s)
<1>1. Atob(t) = [k \in 1..(3 * (Len(t) \div 4) - Pads(t)) |->
                   (QuadOf(t, (k - 1) \div 3) \div 256^(2 - ((k - 1) % 3))) % 256]
  BY DEF Atob, QuadOf, Dig, Pads
<1>2. 3 * (Len(t) \div 4) - Pads(t) = n
  <2>1. Len(t) = 4 * G /\ Pads(t) = 3 * G - n /\ G \in Nat
    BY PadCount, BtoaShape
  <2>2. \A x \in Nat : (4 * x) \div 4 = x
    OBVIOUS
  <2>3. Len(t) \div 4 = G
    BY <2>1, <2>2, Zenon
  <2>4. \A x, y, m \in Int : (x = G /\ y = 3 * G - m) => 3 * x - y = m
    BY <2>1
  <2>5. Len(t) \div 4 \in Int /\ Pads(t) \in Int /\ n \in Int
    BY <2>1, <2>3
  <2>6. QED
    BY <2>1, <2>3, <2>4, <2>5, Zenon
<1>3. ASSUME NEW k \in 1..n
      PROVE  (QuadOf(t, (k - 1) \div 3) \div 256^(2 - ((k - 1) % 3))) % 256 = s[k]
  <2> DEFINE g == (k - 1) \div 3
             r == (k - 1) % 3
             a == Chr(s, 3 * g + 1)
             b == Chr(s, 3 * g + 2)
             c == Chr(s, 3 * g + 3)
  <2>1. g \in 0..(G - 1) /\ r \in 0..2 /\ k = 3 * g + r + 1
    BY DEF Groups
  <2>2. QuadOf(t, g) = Word3(a, b, c)
    BY <2>1, QuadOfGroup DEF Grp
  <2>3. a \in 0..255 /\ b \in 0..255 /\ c \in 0..255
    BY <2>1, GroupBytes
  <2>4. /\ (Word3(a, b, c) \div 256^2) % 256 = a
        /\ (Word3(a, b, c) \div 256^1) % 256 = b
        /\ (Word3(a, b, c) \div 256^0) % 256 = c
    <3>1. BytesOf(a, b, c)
      BY <2>3, WordBytes
    <3>2. QED
      BY <3>1, ZenonT(40) DEF BytesOf
  <2>5. Chr(s, k) = s[k]
    <3>1. k <= Len(s)
      OBVIOUS
    <3>2. QED
      BY <3>1, Zenon DEF Chr
  <2>6. CASE r = 0
    <3>1. 2 - r = 2 /\ k = 3 * g + 1
      BY <2>1, <2>6
    <3>2. 256^(2 - r) = 256^2
      BY <3>1, Zenon
    <3>3. (QuadOf(t, g) \div 256^(2 - r)) % 256 = (Word3(a, b, c) \div 256^2) % 256
      BY <2>2, <3>2, Zenon
    <3>4. Chr(s, 3 * g + 1) = s[k]
      BY <2>5, <3>1, Zenon
    <3>5. QED
      BY <2>4, <3>3, <3>4, Zenon
  <2>7. CASE r = 1
    <3>1. 2 - r = 1 /\ k = 3 * g + 2
      BY <2>1, <2>7
    <3>2. 256^(2 - r) = 256^1
      BY <3>1, Zenon
    <3>3. (QuadOf(t, g) \div 256^(2 - r)) % 256 = (Word3(a, b, c) \div 256^1) % 256
      BY <2>2, <3>2, Zenon
    <3>4. Chr(s, 3 * g + 2) = s[k]
      BY <2>5, <3>1, Zenon
    <3>5. QED
      BY <2>4, <3>3, <3>4, Zenon
  <2>8. CASE r = 2
    <3>1. 2 - r = 0 /\ k = 3 * g + 3
      BY <2>1, <2>8
    <3>2. 256^(2 - r) = 256^0
      BY <3>1, Zenon
    <3>3. (QuadOf(t, g) \div 256^(2 - r)) % 256 = (Word3(a, b, c) \div 256^0) % 256
      BY <2>2, <3>2, Zenon
    <3>4. Chr(s, 3 * g + 3) = s[k]
      BY <2>5, <3>1, Zenon
    <3>5. QED
      BY <2>4, <3>3, <3>4, Zenon
  <2>9. r = 0 \/ r = 1 \/ r = 2
    BY <2>1
  <2>10. QED
    BY <2>6, <2>7, <2>8, <2>9, Zenon
<1>4. s = [k \in 1..n |-> s[k]]
  OBVIOUS
<1>5. QED
  BY <1>1, <1>2, <1>3, <1>4

=============================================================================
