-------------------------- MODULE PhoneNumberProofs --------------------------
(***************************************************************************)
(* What the coding of numbers keeps, for every number.                     *)
(***************************************************************************)
EXTENDS PhoneNumber, TLAPS

Nibbles == 0..15
Number == Seq(0..9)

-----------------------------------------------------------------------------

(* Padded gives at least twelve digits: those of the number, then F.       *)
LEMMA PaddedDigits ==
  ASSUME NEW n \in Number
  PROVE  /\ Padded(n) \in Seq(Nibbles)
         /\ Len(Padded(n)) = IF Len(n) < Padding THEN Padding ELSE Len(n)
         /\ \A i \in 1..Len(Padded(n)) :
              Padded(n)[i] = IF i <= Len(n) THEN n[i] ELSE F
<1> DEFINE long == IF Len(n) < Padding THEN Padding ELSE Len(n)
           f == [i \in 1..long |-> IF i <= Len(n) THEN n[i] ELSE F]
<1>1. /\ Len(n) \in Nat
      /\ \A i \in 1..Len(n) : n[i] \in 0..9
  BY DEF Number
<1>2. long \in Nat
  BY <1>1 DEF Padding
<1>3. \A i \in 1..long : (IF i <= Len(n) THEN n[i] ELSE F) \in Nibbles
  BY <1>1, <1>2 DEF Nibbles, F
<1>4. f \in [1..long -> Nibbles]
  BY <1>3
<1>5. f \in Seq(Nibbles) /\ Len(f) = long
  <2> HIDE DEF f, long
  <2> QED BY <1>2, <1>4
<1>6. Padded(n) = f
  BY DEF Padded
<1>7. \A i \in 1..long : f[i] = IF i <= Len(n) THEN n[i] ELSE F
  OBVIOUS
<1> QED BY <1>5, <1>6, <1>7

(* Swap keeps the length, and its i-th digit is the other one of the pair  *)
(* of the i-th, when there is an even number of digits.                    *)
LEMMA SwapPairs ==
  ASSUME NEW d \in Seq(Nibbles), Len(d) % 2 = 0
  PROVE  /\ Swap(d) \in Seq(Nibbles)
         /\ Len(Swap(d)) = Len(d)
         /\ \A i \in 1..Len(d) :
              Swap(d)[i] = d[IF i % 2 = 1 THEN i + 1 ELSE i - 1]
<1> DEFINE f == [i \in 1..Len(d) |-> d[IF i % 2 = 1 THEN i + 1 ELSE i - 1]]
<1>1. Len(d) \in Nat /\ \A i \in 1..Len(d) : d[i] \in Nibbles
  OBVIOUS
<1>2. \A i \in 1..Len(d) : (IF i % 2 = 1 THEN i + 1 ELSE i - 1) \in 1..Len(d)
  BY <1>1
<1>3. f \in [1..Len(d) -> Nibbles]
  BY <1>1, <1>2
<1>4. f \in Seq(Nibbles) /\ Len(f) = Len(d)
  <2> HIDE DEF f
  <2> QED BY <1>1, <1>3
<1>5. Swap(d) = f
  BY DEF Swap
<1> QED BY <1>4, <1>5

(* Swapping twice gives the digits back: decode_phone_number undoes what   *)
(* encode_phone_number did with an even number of digits.                  *)
THEOREM SwapTwice ==
  ASSUME NEW d \in Seq(Nibbles), Len(d) % 2 = 0
  PROVE  Swap(Swap(d)) = d
<1>1. /\ Swap(d) \in Seq(Nibbles) /\ Len(Swap(d)) = Len(d)
      /\ \A i \in 1..Len(d) : Swap(d)[i] = d[IF i % 2 = 1 THEN i + 1 ELSE i - 1]
  BY SwapPairs
<1>2. /\ Swap(Swap(d)) \in Seq(Nibbles) /\ Len(Swap(Swap(d))) = Len(d)
      /\ \A i \in 1..Len(d) :
           Swap(Swap(d))[i] = Swap(d)[IF i % 2 = 1 THEN i + 1 ELSE i - 1]
  BY <1>1, SwapPairs
<1>3. ASSUME NEW i \in 1..Len(d)
      PROVE  Swap(Swap(d))[i] = d[i]
  <2>1. Len(d) \in Nat
    OBVIOUS
  <2>2. CASE i % 2 = 1
    <3>1. i + 1 \in 1..Len(d) /\ (i + 1) % 2 = 0
      BY <2>1, <2>2
    <3> QED BY <1>1, <1>2, <2>2, <3>1
  <2>3. CASE i % 2 = 0
    <3>1. i - 1 \in 1..Len(d) /\ (i - 1) % 2 = 1
      BY <2>1, <2>3
    <3>2. Swap(Swap(d))[i] = Swap(d)[i - 1]
      BY <1>2, <2>3
    <3>3. Swap(d)[i - 1] = d[i - 1 + 1]
      BY <1>1, <3>1
    <3> QED BY <2>1, <3>2, <3>3
  <2> QED BY <2>1, <2>2, <2>3
<1>4. Swap(Swap(d)) \in [1..Len(d) -> Nibbles] /\ d \in [1..Len(d) -> Nibbles]
  BY <1>2
<1> QED BY <1>3, <1>4

(* A number of at most twelve digits comes out of a PDU as it went in,     *)
(* followed by the F that decode_phone_number removes; a PDU has twelve    *)
(* digits for it then.                                                     *)
THEOREM NumberReturns ==
  ASSUME NEW n \in Number, Len(n) <= Padding
  PROVE  /\ Len(Swap(Padded(n))) = Padding
         /\ \A i \in 1..Padding :
              Swap(Swap(Padded(n)))[i] = IF i <= Len(n) THEN n[i] ELSE F
<1>1. /\ Padded(n) \in Seq(Nibbles) /\ Len(Padded(n)) = Padding
      /\ \A i \in 1..Padding : Padded(n)[i] = IF i <= Len(n) THEN n[i] ELSE F
  <2>1. Len(n) \in Nat
    BY DEF Number
  <2>2. ASSUME NEW k \in Nat, k <= Padding
        PROVE  (IF k < Padding THEN Padding ELSE k) = Padding
    BY <2>2 DEF Padding
  <2>3. (IF Len(n) < Padding THEN Padding ELSE Len(n)) = Padding
    BY <2>1, <2>2
  <2> QED BY <2>3, PaddedDigits
<1>2. Len(Padded(n)) % 2 = 0
  BY <1>1 DEF Padding
<1>3. Len(Swap(Padded(n))) = Padding
  BY <1>1, <1>2, SwapPairs
<1>4. Swap(Swap(Padded(n))) = Padded(n)
  BY <1>1, <1>2, SwapTwice
<1> QED BY <1>1, <1>3, <1>4
=============================================================================
