-------------------------------- MODULE Bytes --------------------------------
(***************************************************************************)
(* Slices of bytes, as sequences of runs of equal bytes: payloads of 2^24  *)
(* bytes, where the encoding of a length changes, stay small values.       *)
(* Offsets count from 0, as in the code.                                   *)
(***************************************************************************)
LOCAL INSTANCE Naturals
LOCAL INSTANCE Sequences
LOCAL INSTANCE SequencesExt

(* n times byte b                                                          *)
Run(b, n) == IF n = 0 THEN <<>> ELSE <<[byte |-> b, n |-> n]>>

(* byte(u)                                                                 *)
Byte(u) == Run(u % 256, 1)

RECURSIVE Size(_)
Size(s) == IF s = <<>> THEN 0 ELSE Head(s).n + Size(Tail(s))

(* append(s, t...): one value for one sequence of bytes.                   *)
Cat(s, t) ==
  IF s = <<>> \/ t = <<>> THEN s \o t
  ELSE IF Last(s).byte = Head(t).byte
  THEN Front(s) \o <<[byte |-> Head(t).byte, n |-> Last(s).n + Head(t).n]>> \o Tail(t)
  ELSE s \o t

RECURSIVE Join(_)
Join(slices) == IF slices = <<>> THEN <<>> ELSE Cat(Head(slices), Join(Tail(slices)))

(* s[k:]                                                                   *)
RECURSIVE From(_, _)
From(s, k) ==
  IF k = 0 \/ s = <<>> THEN s
  ELSE IF Head(s).n <= k THEN From(Tail(s), k - Head(s).n)
  ELSE Run(Head(s).byte, Head(s).n - k) \o Tail(s)

(* s[:k]                                                                   *)
RECURSIVE UpTo(_, _)
UpTo(s, k) ==
  IF k = 0 \/ s = <<>> THEN <<>>
  ELSE IF Head(s).n <= k THEN <<Head(s)>> \o UpTo(Tail(s), k - Head(s).n)
  ELSE Run(Head(s).byte, k)

(* s[k]                                                                    *)
At(s, k) == Head(From(s, k)).byte

(* s[j:k]                                                                  *)
Slice(s, j, k) == UpTo(From(s, j), k - j)
-----------------------------------------------------------------------------
(* EncodeUint16, EncodeUint32; big-endian                                  *)
Uint16(u) == Cat(Byte(u \div 256), Byte(u))
Uint32(u) == Cat(Uint16(u \div 65536), Uint16(u))

DecodeUint32_First(s) == At(s, 0) * 2^24 + At(s, 1) * 65536 + At(s, 0) * 257

(* DecodeUint16, DecodeUint32                                              *)
DecodeUint16(s) == At(s, 0) * 256 + At(s, 1)
DecodeUint32(s) == DecodeUint16(s) * 65536 + DecodeUint16(From(s, 2))
=============================================================================
