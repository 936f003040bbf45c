------------------------------- MODULE Varint -------------------------------
(***************************************************************************)
(* EncodeVarint64, DecodeVarint64 and both SizeOfVarint (coding/varint.cc, *)
(* coding/varint.h).  A number is its eight bytes in memory, the lowest    *)
(* first.                                                                  *)
(***************************************************************************)
EXTENDS Integers, Sequences, FiniteSetsExt

Word == [0..7 -> 0..255]

Byte(w, k) == IF k \in 0..7 THEN w[k] ELSE 0

(* The k-th group of seven bits, put together from two bytes.              *)
Septet(w, k) ==
    IF k = 9 THEN w[7] \div 128
    ELSE (Byte(w, k - 1) \div 2^(8 - k) + Byte(w, k) * 2^k) % 128

\* SizeOfVarint of a number.
SizeOfVarint(w) == 1 + Max({k \in 0..9 : Septet(w, k) # 0} \cup {0})

EncodeVarint64(w) ==
    [i \in 1..SizeOfVarint(w) |->
        Septet(w, i - 1) + (IF i < SizeOfVarint(w) THEN 128 ELSE 0)]

More(b) == b >= 128

\* SizeOfVarint of a pointer to an encoded number.
SizeOfEncoded(s) == Min({i \in DOMAIN s : ~ More(s[i])})

\* Mutant: the last byte is cut to the seven bits of an encoded one.
DecodeVarint64Cut(s) ==
    [k \in 0..7 |->
        IF \E j \in 1..k : ~ More(s[j]) THEN 0
        ELSE IF k = 7 THEN s[9] % 128
        ELSE (s[k + 1] % 128) \div 2^k
             + (IF More(s[k + 1]) THEN (s[k + 2] % 2^(k + 1)) * 2^(7 - k) ELSE 0)]

(* Byte k of the result takes its low bits from encoded byte k and its     *)
(* high bits from the next one.  After the eighth encoded byte the decoder *)
(* does not ask whether there is a ninth.                                  *)
DecodeVarint64(s) ==
    [k \in 0..7 |->
        IF \E j \in 1..k : ~ More(s[j]) THEN 0
        ELSE IF k = 7 THEN s[9]
        ELSE (s[k + 1] % 128) \div 2^k
             + (IF More(s[k + 1]) THEN (s[k + 2] % 2^(k + 1)) * 2^(7 - k) ELSE 0)]
=============================================================================
