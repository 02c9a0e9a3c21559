------------------------------ MODULE MCBitWriter ------------------------------
(***************************************************************************)
(* Bytes of 3 bits and words of 2 bytes: a code can end in the same, the   *)
(* next or the second next byte, at each of its bits.                      *)
(***************************************************************************)
EXTENDS BitWriter

AllCodes == {<<>>} \cup UNION {[1 .. n -> Bit] : n \in 1 .. 6}
SomeCodes == {code \in AllCodes : Len(code) <= 2 \/ code[1] # code[2]}
=============================================================================
