------------------------------ MODULE FrameHeader ------------------------------
(***************************************************************************)
(* The length in the header of a WebSocket frame: seven bits, or a code    *)
(* and two or eight bytes, most significant first (hybiFrameWriter.Write   *)
(* and NewFrameReader).                                                    *)
(***************************************************************************)
EXTENDS Integers, Sequences

CONSTANT Lengths  \* bound: the lengths of payloads

(* Lengths are of type int, of 64 bits: from zero up, below 2^63. *)
FitsInt(length) == length \in Nat /\ ((length \div 65536) \div 65536) \div 65536 < 32768

ASSUME LengthsAssumption == \A length \in Lengths : FitsInt(length)

(* The number of length bytes and the seven bits that announce them. *)
LengthFieldsEdge(length) ==  \* mutant of LengthFields
  IF length <= 125 THEN 0 ELSE IF length <= 65536 THEN 2 ELSE 8

LengthFields(length) ==
  CASE length <= 125 -> 0
    [] length > 125 /\ length < 65536 -> 2
    [] length >= 65536 -> 8

LengthCode(length) ==
  CASE LengthFields(length) = 0 -> length
    [] LengthFields(length) = 2 -> 126
    [] LengthFields(length) = 8 -> 127

(* length >> 8 * j *)
Shifted(length) ==
  LET shifted[j \in 0 .. 8] == IF j = 0 THEN length ELSE shifted[j - 1] \div 256
  IN  shifted

EncodeLength(length) ==
  LET n == LengthFields(length)
  IN  <<LengthCode(length)>> \o [i \in 1 .. n |-> Shifted(length)[n - i] % 256]

(* The bytes NewFrameReader takes for length bytes, after the code. *)
FieldsAfter(code) == CASE code <= 125 -> 0 [] code = 126 -> 2 [] code = 127 -> 8

DecodeLength(bytes) ==
  LET n == FieldsAfter(bytes[1])
      value[i \in 0 .. n] == IF i = 0 THEN 0 ELSE value[i - 1] * 256 + bytes[i + 1]
  IN  IF n = 0 THEN bytes[1] ELSE value[n]

(* The reader takes exactly the bytes the writer wrote for the length, and *)
(* reads the same number, also where the form changes; no frame is longer  *)
(* or shorter for the reader than it is for the writer.                    *)
LengthSurvives(length) ==
  /\ Len(EncodeLength(length)) = 1 + FieldsAfter(EncodeLength(length)[1])
  /\ DecodeLength(EncodeLength(length)) = length

EveryLengthSurvives == \A length \in Lengths : LengthSurvives(length)
=============================================================================
