------------------------------ MODULE MCCrc32 ------------------------------
(* Images of up to four bytes over values that set the low bit, the high  *)
(* bit, all bits and none, fed in pieces of up to two bytes.              *)
EXTENDS Crc32

MCBytes == {0, 1, 128, 255}

MCPieces == {<< >>} \cup {<<b>> : b \in MCBytes}
                    \cup {<<a, b>> : a, b \in MCBytes}
=============================================================================
