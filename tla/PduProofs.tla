------------------------------ MODULE PduProofs ------------------------------
(***************************************************************************)
(* Theorems about the coding of SMSs: for every text and every number.     *)
(***************************************************************************)
EXTENDS Pdu, PhoneNumberProofs, SequenceTheorems, FiniteSetTheorems, WellFoundedInduction, TLAPS

Septet == 0..127
Octet == 0..255

-----------------------------------------------------------------------------
(* Septets in octets.                                                      *)

(* What the provers need to know of powers.                                *)
LEMMA Powers ==
  /\ 2^0 = 1 /\ 2^1 = 2 /\ 2^2 = 4 /\ 2^3 = 8 /\ 2^4 = 16
  /\ 2^5 = 32 /\ 2^6 = 64 /\ 2^7 = 128 /\ 2^8 = 256
OBVIOUS

PowersOfTwo == {1, 2, 4, 8, 16, 32, 64, 128}

(* The shifts are by these.                                                *)
LEMMA PowerOf ==
  ASSUME NEW k \in 0..7
  PROVE  2^k \in PowersOfTwo
<1>1. \A i \in 0..7 : i \in {0, 1, 2, 3, 4, 5, 6, 7}
  OBVIOUS
<1>2. k \in {0, 1, 2, 3, 4, 5, 6, 7}
  BY <1>1
<1>3. CASE k = 0 BY <1>3, Powers DEF PowersOfTwo
<1>4. CASE k = 1 BY <1>4, Powers DEF PowersOfTwo
<1>5. CASE k = 2 BY <1>5, Powers DEF PowersOfTwo
<1>6. CASE k = 3 BY <1>6, Powers DEF PowersOfTwo
<1>7. CASE k = 4 BY <1>7, Powers DEF PowersOfTwo
<1>8. CASE k = 5 BY <1>8, Powers DEF PowersOfTwo
<1>9. CASE k = 6 BY <1>9, Powers DEF PowersOfTwo
<1>10. CASE k = 7 BY <1>10, Powers DEF PowersOfTwo
<1> QED BY <1>2, <1>3, <1>4, <1>5, <1>6, <1>7, <1>8, <1>9, <1>10

(* What is read beyond the end is of the same type.                        *)
LEMMA OrZeroType ==
  /\ \A s \in Seq(Septet) : \A i \in Int : OrZero(s, i) \in Septet
  /\ \A o \in Seq(Octet) : \A i \in Int : OrZero(o, i) \in Octet
<1>1. 0 \in Septet /\ 0 \in Octet
  BY DEF Septet, Octet
<1>2. ASSUME NEW s \in Seq(Septet), NEW i \in Int PROVE OrZero(s, i) \in Septet
  BY <1>1 DEF OrZero
<1>3. ASSUME NEW s \in Seq(Octet), NEW i \in Int PROVE OrZero(s, i) \in Octet
  BY <1>1 DEF OrZero
<1> QED BY <1>2, <1>3

(* The octet of Pack that has the beginning of the septet 8 * q + k + 1,   *)
(* also beyond the end, where there are only zeros.                        *)
Octets(s, q, k) ==
  OrZero(Pack(s), 7 * q + k + 1)
    = (OrZero(s, 8 * q + k + 1) \div 2^k + OrZero(s, 8 * q + k + 2) * 2^(7 - k)) % 256

LEMMA PackedOctet ==
  ASSUME NEW s \in Seq(Septet), NEW q \in Nat, NEW k \in 0..6
  PROVE  Octets(s, q, k)
<1> DEFINE L == Len(s)
           n == 7 * q + k + 1
           P == (7 * L + 7) \div 8
<1>1. L \in Nat /\ n \in Nat \ {0} /\ P \in Nat
  BY LenProperties
<1>2. (n - 1) \div 7 = q /\ (n - 1) % 7 = k
  OBVIOUS
<1>3. n + q = 8 * q + k + 1 /\ n + q + 1 = 8 * q + k + 2
  OBVIOUS
<1>4. DOMAIN Pack(s) = 1..P
  BY DEF Pack
<1>5. CASE n \in 1..P
  <2>1. Pack(s)[n] = (OrZero(s, n + (n - 1) \div 7) \div 2^((n - 1) % 7)
                      + OrZero(s, n + (n - 1) \div 7 + 1) * 2^(7 - ((n - 1) % 7))) % 256
    BY <1>5 DEF Pack
  <2>2. OrZero(Pack(s), n) = Pack(s)[n]
    BY <1>4, <1>5 DEF OrZero
  <2>3. n = 7 * q + k + 1
    OBVIOUS
  <2> HIDE DEF n, P
  <2>4. Pack(s)[n] = (OrZero(s, n + q) \div 2^k + OrZero(s, n + q + 1) * 2^(7 - k)) % 256
    BY <1>2, <2>1
  <2> QED BY <1>3, <2>2, <2>3, <2>4 DEF Octets
<1>6. CASE n \notin 1..P
  <2>1. 8 * q + k + 1 \notin 1..L /\ 8 * q + k + 2 \notin 1..L
    BY <1>1, <1>6
  <2>2. OrZero(s, 8 * q + k + 1) = 0 /\ OrZero(s, 8 * q + k + 2) = 0
    BY <2>1, LenProperties DEF OrZero
  <2>3. OrZero(Pack(s), n) = 0
    BY <1>4, <1>6 DEF OrZero
  <2>4. (0 \div 2^k + 0 * 2^(7 - k)) % 256 = 0
    <3>1. 2^k \in PowersOfTwo /\ 2^(7 - k) \in PowersOfTwo
      <4>1. k \in 0..7 /\ 7 - k \in 0..7
        OBVIOUS
      <4> QED BY <4>1, PowerOf, Zenon
    <3>2. \A p, r \in PowersOfTwo : (0 \div p + 0 * r) % 256 = 0
      BY DEF PowersOfTwo
    <3> QED BY <3>1, <3>2
  <2> QED BY <2>2, <2>3, <2>4 DEF Octets
<1> QED BY <1>5, <1>6

(* Octets, as many as it takes.                                            *)
LEMMA PackType ==
  ASSUME NEW s \in Seq(Septet)
  PROVE  Pack(s) \in Seq(Octet) /\ Len(Pack(s)) = (7 * Len(s) + 7) \div 8
<1> DEFINE n == (7 * Len(s) + 7) \div 8
           e(j) == (OrZero(s, j + (j - 1) \div 7) \div 2^((j - 1) % 7)
                    + OrZero(s, j + (j - 1) \div 7 + 1) * 2^(7 - ((j - 1) % 7))) % 256
<1>1. n \in Nat
  BY LenProperties
<1>2. ASSUME NEW j \in 1..n PROVE e(j) \in Octet
  <2>1. /\ OrZero(s, j + (j - 1) \div 7) \in Septet
        /\ OrZero(s, j + (j - 1) \div 7 + 1) \in Septet
    <3>1. j + (j - 1) \div 7 \in Int /\ j + (j - 1) \div 7 + 1 \in Int
      BY <1>1
    <3> QED BY <3>1, OrZeroType
  <2>2. (j - 1) % 7 \in 0..7 /\ 7 - ((j - 1) % 7) \in 0..7
    BY <1>1
  <2>3. ASSUME NEW x \in Septet, NEW y \in Septet,
               NEW p \in PowersOfTwo, NEW r \in PowersOfTwo
        PROVE  (x \div p + y * r) % 256 \in Octet
    BY DEF Septet, Octet, PowersOfTwo
  <2>4. /\ 2^((j - 1) % 7) \in PowersOfTwo
        /\ 2^(7 - ((j - 1) % 7)) \in PowersOfTwo
    BY <2>2, PowerOf, Zenon
  <2> QED BY <2>1, <2>3, <2>4
<1>3. Pack(s) = [j \in 1..n |-> e(j)]
  BY DEF Pack
<1> HIDE DEF n, e
<1> QED BY <1>1, <1>2, <1>3 DEF n

(* The septet y, put together from the octets it was divided between.      *)
FromTwo(x, y, z, m) ==
  (((x \div 2^(m - 1) + y * 2^(8 - m)) % 256) \div 2^(8 - m)
     + ((y \div 2^m + z * 2^(7 - m)) % 256) * 2^m) % 128

(* The two octets that a septet was divided between have all of it, unless *)
(* it was not divided: the first of eight and the last are in one octet.   *)
LEMMA SeptetFromOctets ==
  ASSUME NEW x \in Septet, NEW y \in Septet, NEW z \in Septet, NEW o \in Octet
  PROVE  /\ (o \div 2^8 + ((y \div 2^0 + z * 2^7) % 256) * 2^0) % 128 = y
         /\ \A m \in 1..6 : FromTwo(x, y, z, m) = y
         /\ (((x \div 2^6 + y * 2^1) % 256) \div 2^1 + o * 2^7) % 128 = y
<1>0. /\ x \in Int /\ 0 <= x /\ x <= 127 /\ y \in Int /\ 0 <= y /\ y <= 127
      /\ z \in Int /\ 0 <= z /\ z <= 127
  BY DEF Septet
<1>1. (o \div 2^8 + ((y \div 2^0 + z * 2^7) % 256) * 2^0) % 128 = y
  <2>1. o \div 256 = 0 /\ ((y + z * 128) % 256) % 128 = y
    BY DEF Septet, Octet
  <2> QED BY <2>1, Powers DEF Septet, Octet
<1>2. (((x \div 2^6 + y * 2^1) % 256) \div 2^1 + o * 2^7) % 128 = y
  <2>1. x \div 64 \in 0..1 /\ \A a \in 0..1 : ((a + y * 2) % 256) \div 2 = y
    BY DEF Septet
  <2>2. (y + o * 128) % 128 = y
    BY DEF Septet, Octet
  <2> QED BY <2>1, <2>2, Powers
<1>3. (((x \div 1 + y * 128) % 256) \div 128 + ((y \div 2 + z * 64) % 256) * 2) % 128 = y
  <2> DEFINE a == x \div 1
             h == y \div 2
             l == y % 2
  <2>1. a \in 0..127 /\ h \in 0..63 /\ l \in 0..1 /\ y = 2 * h + l
    BY <1>0
  <2> HIDE DEF a, h, l
  <2>2. ((a + y * 128) % 256) \div 128 = l
    BY <2>1
  <2>3. (l + ((h + z * 64) % 256) * 2) % 128 = y
    BY <1>0, <2>1
  <2> QED BY <2>2, <2>3 DEF a, h
<1>4. (((x \div 2 + y * 64) % 256) \div 64 + ((y \div 4 + z * 32) % 256) * 4) % 128 = y
  <2> DEFINE a == x \div 2
             h == y \div 4
             l == y % 4
  <2>1. a \in 0..63 /\ h \in 0..31 /\ l \in 0..3 /\ y = 4 * h + l
    BY <1>0
  <2> HIDE DEF a, h, l
  <2>2. ((a + y * 64) % 256) \div 64 = l
    BY <2>1
  <2>3. (l + ((h + z * 32) % 256) * 4) % 128 = y
    BY <1>0, <2>1
  <2> QED BY <2>2, <2>3 DEF a, h
<1>5. (((x \div 4 + y * 32) % 256) \div 32 + ((y \div 8 + z * 16) % 256) * 8) % 128 = y
  <2> DEFINE a == x \div 4
             h == y \div 8
             l == y % 8
  <2>1. a \in 0..31 /\ h \in 0..15 /\ l \in 0..7 /\ y = 8 * h + l
    BY <1>0
  <2> HIDE DEF a, h, l
  <2>2. ((a + y * 32) % 256) \div 32 = l
    BY <2>1
  <2>3. (l + ((h + z * 16) % 256) * 8) % 128 = y
    BY <1>0, <2>1
  <2> QED BY <2>2, <2>3 DEF a, h
<1>6. (((x \div 8 + y * 16) % 256) \div 16 + ((y \div 16 + z * 8) % 256) * 16) % 128 = y
  <2> DEFINE a == x \div 8
             h == y \div 16
             l == y % 16
  <2>1. a \in 0..15 /\ h \in 0..7 /\ l \in 0..15 /\ y = 16 * h + l
    BY <1>0
  <2> HIDE DEF a, h, l
  <2>2. ((a + y * 16) % 256) \div 16 = l
    BY <2>1
  <2>3. (l + ((h + z * 8) % 256) * 16) % 128 = y
    BY <1>0, <2>1
  <2> QED BY <2>2, <2>3 DEF a, h
<1>7. (((x \div 16 + y * 8) % 256) \div 8 + ((y \div 32 + z * 4) % 256) * 32) % 128 = y
  <2> DEFINE a == x \div 16
             h == y \div 32
             l == y % 32
  <2>1. a \in 0..7 /\ h \in 0..3 /\ l \in 0..31 /\ y = 32 * h + l
    BY <1>0
  <2> HIDE DEF a, h, l
  <2>2. ((a + y * 8) % 256) \div 8 = l
    BY <2>1
  <2>3. (l + ((h + z * 4) % 256) * 32) % 128 = y
    BY <1>0, <2>1
  <2> QED BY <2>2, <2>3 DEF a, h
<1>8. (((x \div 32 + y * 4) % 256) \div 4 + ((y \div 64 + z * 2) % 256) * 64) % 128 = y
  <2> DEFINE a == x \div 32
             h == y \div 64
             l == y % 64
  <2>1. a \in 0..3 /\ h \in 0..1 /\ l \in 0..63 /\ y = 64 * h + l
    BY <1>0
  <2> HIDE DEF a, h, l
  <2>2. ((a + y * 4) % 256) \div 4 = l
    BY <2>1
  <2>3. (l + ((h + z * 2) % 256) * 64) % 128 = y
    BY <1>0, <2>1
  <2> QED BY <2>2, <2>3 DEF a, h
<1>9. ASSUME NEW m \in 1..6
      PROVE  FromTwo(x, y, z, m) = y
  <2>1. m \in {1, 2, 3, 4, 5, 6}
    OBVIOUS
  <2>2. CASE m = 1 BY <1>3, <2>2, Powers DEF FromTwo
  <2>3. CASE m = 2 BY <1>4, <2>3, Powers DEF FromTwo
  <2>4. CASE m = 3 BY <1>5, <2>4, Powers DEF FromTwo
  <2>5. CASE m = 4 BY <1>6, <2>5, Powers DEF FromTwo
  <2>6. CASE m = 5 BY <1>7, <2>6, Powers DEF FromTwo
  <2>7. CASE m = 6 BY <1>8, <2>7, Powers DEF FromTwo
  <2> QED BY <2>1, <2>2, <2>3, <2>4, <2>5, <2>6, <2>7
<1> QED BY <1>1, <1>2, <1>9

(* Unpack gives the septets back, and one more if they were one short of   *)
(* full octets: a zero, for the seven bits that were left over.            *)
THEOREM SeptetsReturn ==
  ASSUME NEW s \in Seq(Septet)
  PROVE  LET u == Unpack(Pack(s)) IN
         /\ u \in Seq(Septet) /\ Len(u) \in {Len(s), Len(s) + 1}
         /\ \A i \in 1..Len(s) : u[i] = s[i]
         /\ Len(u) = Len(s) + 1 => u[Len(s) + 1] = 0
<1> DEFINE L == Len(s)
           o == Pack(s)
           n == (8 * Len(o)) \div 7
           e(i) == (OrZero(o, i - (i - 1) \div 8 - 1) \div 2^(8 - ((i - 1) % 8))
                    + OrZero(o, i - (i - 1) \div 8) * 2^((i - 1) % 8)) % 128
<1>1. /\ L \in Nat /\ o \in Seq(Octet) /\ Len(o) = (7 * L + 7) \div 8
      /\ n \in {L, L + 1}
  <2>1. L \in Nat /\ o \in Seq(Octet) /\ Len(o) = (7 * L + 7) \div 8
    BY LenProperties, PackType
  <2> HIDE DEF L, o
  <2> QED BY <2>1
<1>2. \A i \in Int : OrZero(s, i) \in Septet /\ OrZero(o, i) \in Octet
  <2> HIDE DEF o
  <2> QED BY <1>1, OrZeroType
<1>3. ASSUME NEW i \in 1..n PROVE e(i) = OrZero(s, i)
  <2> DEFINE q == (i - 1) \div 8
             m == (i - 1) % 8
             y == OrZero(s, i)
             before == OrZero(o, i - q - 1)
             after == OrZero(o, i - q)
  <2>1. i \in Nat \ {0} /\ q \in Nat /\ m \in 0..7 /\ i = 8 * q + m + 1
    BY <1>1
  <2>2. before \in Octet /\ after \in Octet /\ y \in Septet
        /\ OrZero(s, i - 1) \in Septet /\ OrZero(s, i + 1) \in Septet
    <3>1. i \in Int /\ i - 1 \in Int /\ i + 1 \in Int /\ i - q - 1 \in Int /\ i - q \in Int
      BY <2>1
    <3> HIDE DEF o, q
    <3> QED BY <1>2, <3>1
  <2>3. e(i) = (before \div 2^(8 - m) + after * 2^m) % 128
    OBVIOUS
  <2> HIDE DEF o, e, q, m
  <2>4. ASSUME m \in 1..7
        PROVE  before = (OrZero(s, i - 1) \div 2^(m - 1) + y * 2^(8 - m)) % 256
    <3>1. /\ m - 1 \in 0..6 /\ 7 * q + (m - 1) + 1 = i - q - 1
          /\ 8 * q + (m - 1) + 1 = i - 1 /\ 8 * q + (m - 1) + 2 = i /\ 7 - (m - 1) = 8 - m
      BY <2>1, <2>4
    <3>2. OrZero(o, 7 * q + (m - 1) + 1)
            = (OrZero(s, 8 * q + (m - 1) + 1) \div 2^(m - 1)
               + OrZero(s, 8 * q + (m - 1) + 2) * 2^(7 - (m - 1))) % 256
      <4>1. q \in Nat /\ m - 1 \in 0..6
        BY <2>1, <3>1
      <4>2. Octets(s, q, m - 1)
        BY <4>1, PackedOctet
      <4> QED BY <4>2 DEF Octets, o
    <3> QED BY <3>1, <3>2
  <2>5. ASSUME m \in 0..6
        PROVE  after = (y \div 2^m + OrZero(s, i + 1) * 2^(7 - m)) % 256
    <3>1. 7 * q + m + 1 = i - q /\ 8 * q + m + 1 = i /\ 8 * q + m + 2 = i + 1
      BY <2>1
    <3>2. OrZero(o, 7 * q + m + 1)
            = (OrZero(s, 8 * q + m + 1) \div 2^m + OrZero(s, 8 * q + m + 2) * 2^(7 - m)) % 256
      <4>1. q \in Nat /\ m \in 0..6
        BY <2>1, <2>5
      <4>2. Octets(s, q, m)
        BY <4>1, PackedOctet
      <4> QED BY <4>2 DEF Octets, o
    <3> QED BY <3>1, <3>2
  <2> HIDE DEF before, after, y
  <2>6. CASE m = 0
    BY <2>2, <2>3, <2>5, <2>6, SeptetFromOctets DEF y
  <2>7. CASE m = 7
    BY <2>2, <2>3, <2>4, <2>7, SeptetFromOctets DEF y
  <2>8. CASE m \in 1..6
    <3>1. m \in 1..7 /\ m \in 0..6
      BY <2>8
    <3>2. 0 \in Octet
      BY DEF Octet
    <3>3. FromTwo(OrZero(s, i - 1), y, OrZero(s, i + 1), m) = y
      BY <2>2, <2>8, <3>2, SeptetFromOctets
    <3>4. e(i) = FromTwo(OrZero(s, i - 1), y, OrZero(s, i + 1), m)
      BY <2>3, <2>4, <2>5, <3>1 DEF FromTwo
    <3> QED BY <3>3, <3>4 DEF y
  <2> QED BY <2>1, <2>6, <2>7, <2>8
<1>4. Unpack(o) = [i \in 1..n |-> e(i)]
  BY DEF Unpack
<1> HIDE DEF o, e, n
<1>5. \A i \in 1..n : e(i) \in Septet
  BY <1>1, <1>2, <1>3
<1>6. Unpack(o) \in Seq(Septet) /\ Len(Unpack(o)) = n /\ \A i \in 1..n : Unpack(o)[i] = OrZero(s, i)
  <2>1. n \in Nat
    BY <1>1
  <2>2. Unpack(o) \in Seq(Septet) /\ Len(Unpack(o)) = n
    BY <1>4, <1>5, <2>1
  <2> QED BY <1>3, <1>4, <2>2
<1>7. \A i \in 1..L : OrZero(s, i) = s[i]
  BY LenProperties DEF OrZero
<1>8. OrZero(s, L + 1) = 0
  BY <1>1, LenProperties DEF OrZero
<1>9. \A i \in 1..L : i \in 1..n
  BY <1>1
<1>10. n = L + 1 => L + 1 \in 1..n
  BY <1>1
<1> QED BY <1>1, <1>6, <1>7, <1>8, <1>9, <1>10 DEF o

(* Hexadecimal digits are read as they were written.                       *)
THEOREM HexReturns ==
  ASSUME NEW o \in Seq(Octet)
  PROVE  /\ Hex(o) \in Seq(Nibbles) /\ Len(Hex(o)) = 2 * Len(o)
         /\ FromHex(Hex(o)) = o
<1> DEFINE n == Len(o)
           e(i) == IF i % 2 = 1 THEN o[(i + 1) \div 2] \div 16 ELSE o[i \div 2] % 16
<1>1. n \in Nat /\ DOMAIN o = 1..n /\ \A i \in 1..n : o[i] \in 0..255
  <2>1. n \in Nat /\ DOMAIN o = 1..n
    BY LenProperties
  <2>2. \A i \in 1..n : o[i] \in Octet
    BY ElementOfSeq
  <2> QED BY <2>1, <2>2 DEF Octet
<1>2. ASSUME NEW i \in 1..2 * n PROVE e(i) \in Nibbles
  <2>1. CASE i % 2 = 1
    <3>1. (i + 1) \div 2 \in 1..n
      BY <1>1, <2>1
    <3>2. o[(i + 1) \div 2] \in 0..255
      BY <1>1, <3>1
    <3>3. \A x \in 0..255 : x \div 16 \in 0..15
      OBVIOUS
    <3> QED BY <2>1, <3>2, <3>3 DEF Nibbles
  <2>2. CASE i % 2 # 1
    <3>1. i \div 2 \in 1..n
      BY <1>1, <2>2
    <3>2. o[i \div 2] \in 0..255
      BY <1>1, <3>1
    <3>3. \A x \in 0..255 : x % 16 \in 0..15
      OBVIOUS
    <3> QED BY <2>2, <3>2, <3>3 DEF Nibbles
  <2> QED BY <2>1, <2>2
<1>3. Hex(o) = [i \in 1..2 * n |-> e(i)]
  BY DEF Hex
<1>4. Hex(o) \in Seq(Nibbles) /\ Len(Hex(o)) = 2 * n
  <2> HIDE DEF e, n
  <2> QED BY <1>1, <1>2, <1>3
<1>5. ASSUME NEW i \in 1..n PROVE 16 * Hex(o)[2 * i - 1] + Hex(o)[2 * i] = o[i]
  <2>1. /\ 2 * i - 1 \in 1..2 * n /\ 2 * i \in 1..2 * n /\ (2 * i - 1) % 2 = 1 /\ (2 * i) % 2 # 1
        /\ (2 * i - 1 + 1) \div 2 = i /\ (2 * i) \div 2 = i
    BY <1>1
  <2>2. Hex(o)[2 * i - 1] = o[i] \div 16 /\ Hex(o)[2 * i] = o[i] % 16
    BY <1>3, <2>1
  <2>3. \A x \in 0..255 : 16 * (x \div 16) + (x % 16) = x
    OBVIOUS
  <2>4. o[i] \in 0..255
    BY <1>1
  <2> QED BY <2>2, <2>3, <2>4
<1>6. FromHex(Hex(o)) = [i \in 1..n |-> o[i]]
  <2>1. (2 * n) \div 2 = n
    <3>1. \A k \in Nat : (2 * k) \div 2 = k
      OBVIOUS
    <3> QED BY <1>1, <3>1
  <2>2. Len(Hex(o)) \div 2 = n
    BY <1>4, <2>1
  <2> QED BY <1>5, <2>2 DEF FromHex
<1> QED BY <1>1, <1>4, <1>6

-----------------------------------------------------------------------------
(* Sequences of sequences, and induction for them.                         *)

(* Induction up to n, with a set for the property.                         *)
LEMMA InductionUpTo ==
  ASSUME NEW n \in Nat, NEW T, n > 0 => 1 \in T,
         \A i \in 1..n - 1 : i \in T => i + 1 \in T
  PROVE  \A i \in 1..n : i \in T
<1> SUFFICES ASSUME {i \in 1..n : i \notin T} # {}
             PROVE  FALSE
  OBVIOUS
<1> DEFINE bad == {i \in 1..n : i \notin T}
<1>1. PICK b \in bad : \A j \in bad : ~ (<<j, b>> \in OpToRel(<, Nat))
  <2>1. bad \in SUBSET Nat /\ bad # {}
    OBVIOUS
  <2> HIDE DEF bad
  <2> QED BY <2>1, NatLessThanWellFounded, WFMin
<1>2. b \in 1..n /\ b \notin T /\ b # 1
  OBVIOUS
<1>3. b - 1 \in 1..n - 1 /\ b - 1 \in 1..n /\ b - 1 + 1 = b /\ b - 1 < b /\ b - 1 \in Nat
  BY <1>2
<1>4. b - 1 \notin bad
  <2>1. b \in Nat /\ <<b - 1, b>> \in OpToRel(<, Nat)
    BY <1>2, <1>3 DEF OpToRel
  <2> HIDE DEF bad
  <2> QED BY <1>1, <2>1
<1> QED BY <1>2, <1>3, <1>4

(* What FlattenSeq puts together, sequence by sequence.                    *)
Steps(ss, f) ==
  f = [i \in 1..Len(ss) |-> IF i = 1 THEN ss[i] ELSE f[i - 1] \o ss[i]]

(* There is a function that puts them together, and FlattenSeq is its last *)
(* value: what the library defines by recursion is there for every input.  *)
LEMMA FlattenSteps ==
  ASSUME NEW S, NEW ss \in Seq(Seq(S)), ss # <<>>
  PROVE  \E f \in [1..Len(ss) -> Seq(S)] :
           /\ FlattenSeq(ss) = f[Len(ss)] /\ f[1] = ss[1]
           /\ \A i \in 1..Len(ss) - 1 : f[i + 1] = f[i] \o ss[i + 1]
<1> DEFINE L == Len(ss)
           Up(n, f) == /\ f \in [1..n -> Seq(S)] /\ f[1] = ss[1]
                       /\ \A i \in 1..n - 1 : f[i + 1] = f[i] \o ss[i + 1]
           T == {n \in 1..L : \E f : Up(n, f)}
<1>1. L \in Nat \ {0} /\ \A i \in 1..L : ss[i] \in Seq(S)
  BY EmptySeq, LenProperties
<1>2. 1 \in T
  <2>1. Up(1, [i \in 1..1 |-> ss[1]])
    BY <1>1
  <2> HIDE DEF Up
  <2> QED BY <1>1, <2>1
<1>3. ASSUME NEW n \in 1..L - 1, n \in T PROVE n + 1 \in T
  <2>1. PICK f : Up(n, f)
    BY <1>3
  <2> DEFINE g == [i \in 1..n + 1 |-> IF i = n + 1 THEN f[n] \o ss[n + 1] ELSE f[i]]
  <2>2. n \in Nat /\ n + 1 \in 1..L /\ n \in 1..n /\ 1..n - 1 \subseteq 1..n
    BY <1>1
  <2>3. f[n] \in Seq(S) /\ f[n] \o ss[n + 1] \in Seq(S)
    BY <1>1, <2>1, <2>2
  <2>4. \A i \in 1..n : f[i] \in Seq(S)
    BY <2>1
  <2>5. g \in [1..n + 1 -> Seq(S)]
    BY <2>2, <2>3, <2>4
  <2>6. g[1] = ss[1]
    BY <2>1, <2>2
  <2>7. ASSUME NEW i \in 1..(n + 1) - 1 PROVE g[i + 1] = g[i] \o ss[i + 1]
    <3>1. CASE i = n
      <4>1. n + 1 \in 1..n + 1 /\ n \in 1..n + 1 /\ n # n + 1
        BY <2>2
      <4>2. g[n + 1] = f[n] \o ss[n + 1] /\ g[n] = f[n]
        BY <4>1
      <4> HIDE DEF g
      <4> QED BY <3>1, <4>2
    <3>2. CASE i # n
      <4>1. i \in 1..n - 1 /\ i + 1 \in 1..n + 1 /\ i \in 1..n + 1 /\ i # n + 1 /\ i + 1 # n + 1
        BY <2>2, <3>2
      <4>2. f[i + 1] = f[i] \o ss[i + 1]
        BY <2>1, <4>1
      <4> QED BY <4>1, <4>2
    <3> QED BY <3>1, <3>2
  <2>8. Up(n + 1, g)
    <3> HIDE DEF g
    <3> QED BY <2>5, <2>6, <2>7
  <2> HIDE DEF Up, g
  <2> QED BY <2>2, <2>8
<1>4. L \in T
  <2>1. \A i \in 1..L : i \in T
    <3> HIDE DEF T, L
    <3> QED BY <1>1, <1>2, <1>3, InductionUpTo
  <2> HIDE DEF T, L
  <2> QED BY <1>1, <2>1
<1>5. PICK f : Up(L, f)
  BY <1>4
<1>6. Steps(ss, f)
  <2>1. \A i \in 1..L : i # 1 => i - 1 \in 1..L - 1 /\ i - 1 + 1 = i
    BY <1>1
  <2>2. \A i \in 1..L : f[i] = IF i = 1 THEN ss[i] ELSE f[i - 1] \o ss[i]
    BY <1>5, <2>1
  <2>3. f = [i \in 1..L |-> f[i]]
    BY <1>5
  <2> QED BY <2>2, <2>3 DEF Steps
<1> DEFINE h == CHOOSE g : Steps(ss, g)
<1>7. Steps(ss, h)
  BY <1>6
<1>8. FlattenSeq(ss) = h[L]
  BY <1>1 DEF FlattenSeq, Steps
<1> HIDE DEF h
<1>9. /\ h[1] = ss[1]
      /\ \A i \in 1..L - 1 : h[i + 1] = h[i] \o ss[i + 1]
  <2>1. \A i \in 1..L : h[i] = IF i = 1 THEN ss[i] ELSE h[i - 1] \o ss[i]
    BY <1>7 DEF Steps
  <2>2. \A i \in 1..L - 1 : i + 1 \in 1..L /\ i + 1 # 1 /\ i + 1 - 1 = i
    BY <1>1
  <2>3. 1 \in 1..L
    BY <1>1
  <2>4. ASSUME NEW i \in 1..L - 1 PROVE h[i + 1] = h[i] \o ss[i + 1]
    <3>1. h[i + 1] = IF i + 1 = 1 THEN ss[i + 1] ELSE h[i + 1 - 1] \o ss[i + 1]
      BY <2>1, <2>2
    <3> HIDE DEF L
    <3> QED BY <2>2, <3>1
  <2> QED BY <2>1, <2>3, <2>4
<1>10. h \in [1..L -> Seq(S)]
  <2> DEFINE R == {i \in 1..L : h[i] \in Seq(S)}
  <2>1. 1 \in R
    BY <1>1, <1>9
  <2>2. \A i \in 1..L - 1 : i \in R => i + 1 \in R
    <3>1. \A i \in 1..L - 1 : i + 1 \in 1..L
      BY <1>1
    <3>2. ASSUME NEW i \in 1..L - 1, h[i] \in Seq(S) PROVE h[i + 1] \in Seq(S)
      <4>1. ss[i + 1] \in Seq(S) /\ h[i + 1] = h[i] \o ss[i + 1]
        BY <1>1, <1>9, <3>1
      <4> QED BY <3>2, <4>1, ConcatProperties
    <3> QED BY <3>1, <3>2
  <2>3. \A i \in 1..L : i \in R
    <3> HIDE DEF R, L
    <3> QED BY <1>1, <2>1, <2>2, InductionUpTo
  <2>4. h = [i \in 1..L |-> h[i]]
    BY <1>7 DEF Steps
  <2> QED BY <2>3, <2>4
<1> QED BY <1>8, <1>9, <1>10

-----------------------------------------------------------------------------
(* Texts, and places in them.                                              *)

(* The length in bytes of a text of characters of one byte is its length.  *)
LEMMA LenBytesOnes ==
  ASSUME NEW S, NEW t \in Seq(S)
  PROVE  /\ LenBytes(t) \in Nat
         /\ (\A i \in 1..Len(t) : Bytes(t[i]) = 1) => LenBytes(t) = Len(t)
<1> DEFINE L == Len(t)
           bytes == {p \in (1..L) \X (1..4) : p[2] <= Bytes(t[p[1]])}
<1>1. L \in Nat /\ DOMAIN t = 1..L
  BY LenProperties
<1>2. IsFiniteSet(1..L) /\ IsFiniteSet(1..4) /\ Cardinality(1..L) = L
  <2>1. 1 \in Int /\ 4 \in Int /\ L \in Int /\ ~ (1 > 4) /\ (1 > L <=> L = 0) /\ L - 1 + 1 = L
    <3> HIDE DEF L
    <3> QED BY <1>1
  <2>2. IsFiniteSet(1..4)
    BY <2>1, FS_Interval, Zenon
  <2>3. IsFiniteSet(1..L) /\ Cardinality(1..L) = IF 1 > L THEN 0 ELSE L - 1 + 1
    BY <2>1, FS_Interval, Zenon
  <2> QED BY <2>1, <2>2, <2>3
<1>3. IsFiniteSet((1..L) \X (1..4))
  BY <1>2, FS_Product
<1>4. bytes \in SUBSET ((1..L) \X (1..4))
  OBVIOUS
<1>5. IsFiniteSet(bytes)
  BY <1>3, <1>4, FS_Subset
<1>6. Cardinality(bytes) \in Nat
  BY <1>5, FS_CardinalityType
<1>7. LenBytes(t) = Cardinality(bytes)
  BY <1>1 DEF LenBytes
<1>8. ASSUME \A i \in 1..L : Bytes(t[i]) = 1
      PROVE  Cardinality(bytes) = L
  <2>1. bytes = (1..L) \X {1}
    <3>1. \A p \in (1..L) \X (1..4) : p[2] <= Bytes(t[p[1]]) <=> p[2] = 1
      BY <1>8
    <3>2. \A p \in (1..L) \X (1..4) : p[2] = 1 <=> p \in (1..L) \X {1}
      OBVIOUS
    <3>3. \A p \in (1..L) \X {1} : p \in (1..L) \X (1..4)
      OBVIOUS
    <3> QED BY <3>1, <3>2, <3>3
  <2>2. IsFiniteSet({1}) /\ Cardinality({1}) = 1
    BY FS_Singleton
  <2>3. Cardinality((1..L) \X {1}) = Cardinality(1..L) * Cardinality({1})
    BY <1>2, <2>2, FS_Product, Zenon
  <2>4. L * 1 = L
    <3>1. \A x \in Nat : x * 1 = x
      OBVIOUS
    <3> QED BY <1>1, <3>1, Zenon
  <2> HIDE DEF bytes
  <2>5. Cardinality(bytes) = L * 1
    BY <1>2, <2>1, <2>2, <2>3, Zenon
  <2> QED BY <2>4, <2>5
<1> QED BY <1>6, <1>7, <1>8

(* Places are finite in number.                                            *)
LEMMA Places ==
  ASSUME NEW n \in Nat, NEW P \in SUBSET (1..n)
  PROVE  /\ IsFiniteSet(P) /\ Cardinality(P) \in Nat
         /\ Cardinality(1..n) = n
<1>1. 1 \in Int /\ n \in Int /\ (1 > n <=> n = 0) /\ n - 1 + 1 = n
  OBVIOUS
<1>2. IsFiniteSet(1..n) /\ Cardinality(1..n) = IF 1 > n THEN 0 ELSE n - 1 + 1
  BY <1>1, FS_Interval, Zenon
<1>3. IsFiniteSet(P)
  BY <1>2, FS_Subset, Zenon
<1>4. Cardinality(P) \in Nat
  BY <1>3, FS_CardinalityType, Zenon
<1> QED BY <1>1, <1>2, <1>3, <1>4

(* Places that are counted up, and what is kept of s at them.              *)
Rising(at, N) == \A k, l \in 1..N : k < l => at[k] < at[l]
KeptAlong(s, at, N) == Keep(s, {at[k] : k \in 1..N}) = [k \in 1..N |-> s[at[k]]]

(* Keep takes what it keeps in the order of the places.                    *)
LEMMA KeepAlong ==
  ASSUME NEW n \in Nat, NEW N \in Nat, NEW at \in [1..N -> 1..n], NEW s,
         Rising(at, N)
  PROVE  KeptAlong(s, at, N)
<1> DEFINE P == {at[k] : k \in 1..N}
           To(i) == {j \in P : j <= i}
           Nth(k) == CHOOSE i \in P : Cardinality(To(i)) = k
<1>1. \A k, l \in 1..N : (at[k] <= at[l] <=> k <= l) /\ (at[k] = at[l] => k = l)
  <2> SUFFICES ASSUME NEW k \in 1..N, NEW l \in 1..N
               PROVE  (at[k] <= at[l] <=> k <= l) /\ (at[k] = at[l] => k = l)
    OBVIOUS
  <2>1. at[k] \in Nat /\ at[l] \in Nat /\ (k < l => at[k] < at[l]) /\ (l < k => at[l] < at[k])
    BY DEF Rising
  <2>2. k \in Nat /\ l \in Nat
    OBVIOUS
  <2> QED BY <2>1, <2>2
<1>2. ASSUME NEW k \in 0..N PROVE Cardinality({at[l] : l \in 1..k}) = k
  <2> DEFINE f == [l \in 1..k |-> at[l]]
             Q == {at[l] : l \in 1..k}
  <2>1. k \in Nat /\ \A l \in 1..k : l \in 1..N
    OBVIOUS
  <2>2. Cardinality(1..k) = k /\ IsFiniteSet(1..k)
    BY <2>1, Places
  <2>3. f \in Bijection(1..k, Q)
    <3>1. \A l, m \in 1..k : at[l] = at[m] => l = m
      BY <1>1, <2>1
    <3> QED BY <3>1 DEF Bijection, Injection, Surjection, IsInjective
  <2> HIDE DEF f, Q
  <2>4. Cardinality(Q) = Cardinality(1..k)
    BY <2>2, <2>3, FS_Bijection DEF ExistsBijection
  <2> QED BY <2>2, <2>4 DEF Q
<1>3. Cardinality(P) = N
  <2>1. N \in 0..N
    OBVIOUS
  <2> QED BY <1>2, <2>1
<1>4. ASSUME NEW k \in 1..N PROVE Cardinality(To(at[k])) = k
  <2>1. To(at[k]) = {at[l] : l \in 1..k}
    <3>1. \A l \in 1..N : at[l] <= at[k] <=> l \in 1..k
      BY <1>1
    <3>2. \A l \in 1..k : l \in 1..N
      OBVIOUS
    <3> QED BY <3>1, <3>2
  <2>2. k \in 0..N
    OBVIOUS
  <2> HIDE DEF To
  <2> QED BY <1>2, <2>1, <2>2
<1>5. ASSUME NEW k \in 1..N PROVE Nth(k) = at[k]
  <2>1. \A i \in P : Cardinality(To(i)) = k <=> i = at[k]
    <3> SUFFICES ASSUME NEW l \in 1..N PROVE Cardinality(To(at[l])) = k <=> at[l] = at[k]
      OBVIOUS
    <3> HIDE DEF To
    <3> QED BY <1>1, <1>4
  <2>2. at[k] \in P
    OBVIOUS
  <2> HIDE DEF To, P
  <2> QED BY <2>1, <2>2
<1>6. Keep(s, P) = [k \in 1..Cardinality(P) |-> s[Nth(k)]]
  BY DEF Keep
<1> HIDE DEF P, To, Nth
<1>7. [k \in 1..N |-> s[Nth(k)]] = [k \in 1..N |-> s[at[k]]]
  BY <1>5
<1> QED BY <1>3, <1>6, <1>7 DEF P, KeptAlong

(* The first n places are kept in their order.                             *)
LEMMA KeepFirst ==
  ASSUME NEW n \in Nat, NEW s
  PROVE  Keep(s, 1..n) = [k \in 1..n |-> s[k]]
<1>1. Cardinality(1..n) = n
  BY Places
<1>2. ASSUME NEW k \in 1..n
      PROVE  (CHOOSE i \in 1..n : Cardinality({j \in 1..n : j <= i}) = k) = k
  <2>1. ASSUME NEW i \in 1..n PROVE Cardinality({j \in 1..n : j <= i}) = i
    <3>1. {j \in 1..n : j <= i} = 1..i
      OBVIOUS
    <3>2. Cardinality(1..i) = i
      <4>1. i \in Nat
        OBVIOUS
      <4> QED BY <4>1, Places
    <3> QED BY <3>1, <3>2
  <2>2. \A i \in 1..n : Cardinality({j \in 1..n : j <= i}) = k <=> i = k
    BY <2>1
  <2> QED BY <2>2
<1>3. Keep(s, 1..n) =
        [k \in 1..n |-> s[CHOOSE i \in 1..n : Cardinality({j \in 1..n : j <= i}) = k]]
  BY <1>1 DEF Keep
<1> QED BY <1>2, <1>3, Zenon

-----------------------------------------------------------------------------
(* Sequences that are joined and cut.                                      *)

(* A sequence that is cut where it was joined.                             *)
CutOf(S, a, b, c) ==
  /\ (a \o b) \o c \in Seq(S)
  /\ Len((a \o b) \o c) = Len(a) + Len(b) + Len(c)
  /\ SubSeq((a \o b) \o c, Len(a) + 1, Len(a) + Len(b)) = b
  /\ SubSeq((a \o b) \o c, Len(a) + Len(b) + 1, Len((a \o b) \o c)) = c

(* Both pieces after the first are found where they were put.              *)
LEMMA Cut ==
  ASSUME NEW S, NEW a \in Seq(S), NEW b \in Seq(S), NEW c \in Seq(S)
  PROVE  CutOf(S, a, b, c)
<1> DEFINE w == (a \o b) \o c
<1>1. Len(a) \in Nat /\ Len(b) \in Nat /\ Len(c) \in Nat
  BY LenProperties
<1>2. /\ a \o b \in Seq(S) /\ Len(a \o b) = Len(a) + Len(b)
      /\ \A i \in 1..Len(a) + Len(b) :
           (a \o b)[i] = IF i <= Len(a) THEN a[i] ELSE b[i - Len(a)]
  BY ConcatProperties, Zenon
<1> HIDE DEF w
<1>3. /\ w \in Seq(S) /\ Len(w) = Len(a \o b) + Len(c)
      /\ \A i \in 1..Len(a \o b) + Len(c) :
           w[i] = IF i <= Len(a \o b) THEN (a \o b)[i] ELSE c[i - Len(a \o b)]
  <2> DEFINE ab == a \o b
  <2> HIDE DEF ab
  <2>1. ab \in Seq(S)
    BY <1>2 DEF ab
  <2>2. /\ ab \o c \in Seq(S) /\ Len(ab \o c) = Len(ab) + Len(c)
        /\ \A i \in 1..Len(ab) + Len(c) :
             (ab \o c)[i] = IF i <= Len(ab) THEN ab[i] ELSE c[i - Len(ab)]
    BY <2>1, ConcatProperties, Zenon
  <2> QED BY <2>2 DEF ab, w
<1>4. Len(w) = Len(a) + Len(b) + Len(c)
  BY <1>1, <1>2, <1>3
<1>5. \A i \in 1..Len(w) : w[i] \in S
  BY <1>3, ElementOfSeq
<1>6. SubSeq(w, Len(a) + 1, Len(a) + Len(b)) = b
  <2> DEFINE v == SubSeq(w, Len(a) + 1, Len(a) + Len(b))
  <2>1. /\ Len(a) + 1 \in Int /\ Len(a) + Len(b) \in Int
        /\ \A i \in (Len(a) + 1)..(Len(a) + Len(b)) : w[i] \in S
    BY <1>1, <1>4, <1>5
  <2>2. v \in Seq(S) /\ Len(v) = Len(b) /\ \A i \in 1..Len(b) : v[i] = w[Len(a) + i]
    BY <1>1, <2>1, SubSeqProperties
  <2>3. \A i \in 1..Len(b) : w[Len(a) + i] = b[i]
    BY <1>1, <1>2, <1>3
  <2> HIDE DEF v
  <2>4. v = b
    BY <2>2, <2>3, SeqEqual
  <2> QED BY <2>4 DEF v
<1>7. SubSeq(w, Len(a) + Len(b) + 1, Len(w)) = c
  <2> DEFINE v == SubSeq(w, Len(a) + Len(b) + 1, Len(w))
  <2>1. /\ Len(a) + Len(b) + 1 \in Int /\ Len(w) \in Int
        /\ \A i \in (Len(a) + Len(b) + 1)..Len(w) : w[i] \in S
    BY <1>1, <1>4, <1>5
  <2>2. v \in Seq(S) /\ Len(v) = Len(c) /\ \A i \in 1..Len(c) : v[i] = w[Len(a) + Len(b) + i]
    BY <1>1, <1>4, <2>1, SubSeqProperties
  <2>3. \A i \in 1..Len(c) : w[Len(a) + Len(b) + i] = c[i]
    BY <1>1, <1>2, <1>3
  <2> HIDE DEF v
  <2>4. v = c
    BY <2>2, <2>3, SeqEqual
  <2> QED BY <2>4 DEF v
<1> QED BY <1>3, <1>4, <1>6, <1>7 DEF w, CutOf

(* Three sequences, joined from the left or from the right.                *)
Associates(a, b, c) == (a \o b) \o c = a \o (b \o c)

(* Joining is associative.                                                 *)
LEMMA Joined ==
  ASSUME NEW S, NEW a \in Seq(S), NEW b \in Seq(S), NEW c \in Seq(S)
  PROVE  Associates(a, b, c)
BY ConcatAssociative DEF Associates

(* The fields of what is joined of five.                                   *)
FieldsOf(S, h, d, f, z, m) ==
  LET p == h \o d \o f \o z \o m
      k == Len(h) + Len(d) + Len(f)
  IN  /\ p \in Seq(S) /\ Len(p) = k + Len(z) + Len(m)
      /\ SubSeq(p, Len(h) + 1, Len(h) + Len(d)) = d
      /\ SubSeq(p, k + 1, k + Len(z)) = z
      /\ SubSeq(p, k + Len(z) + 1, Len(p)) = m

(* The fields of a PDU are where wait_sms and the network look for them:   *)
(* the number, the length of the text, and the text.                       *)
LEMMA Fields ==
  ASSUME NEW S, NEW h \in Seq(S), NEW d \in Seq(S), NEW f \in Seq(S), NEW z \in Seq(S),
         NEW m \in Seq(S)
  PROVE  FieldsOf(S, h, d, f, z, m)
<1> DEFINE hd == h \o d
           hdf == hd \o f
           fz == f \o z
           fzm == fz \o m
           p == (hdf \o z) \o m
           k == Len(h) + Len(d) + Len(f)
<1>1. hd \in Seq(S) /\ Len(hd) = Len(h) + Len(d) /\ fz \in Seq(S)
  BY ConcatProperties
<1> HIDE DEF hd, fz
<1>2. hdf \in Seq(S) /\ Len(hdf) = Len(hd) + Len(f) /\ fzm \in Seq(S)
  BY <1>1, ConcatProperties
<1>3. p = hd \o fzm
  <2>1. Associates(hd, f, z) /\ Associates(hd, fz, m)
    BY <1>1, Joined
  <2> QED BY <2>1 DEF Associates, fz
<1> HIDE DEF hdf, fzm
<1>4. SubSeq((h \o d) \o fzm, Len(h) + 1, Len(h) + Len(d)) = d
  <2>1. CutOf(S, h, d, fzm)
    BY <1>2, Cut
  <2> QED BY <2>1 DEF CutOf
<1>5. /\ p \in Seq(S) /\ Len(p) = Len(hdf) + Len(z) + Len(m)
      /\ SubSeq(p, Len(hdf) + 1, Len(hdf) + Len(z)) = z
      /\ SubSeq(p, Len(hdf) + Len(z) + 1, Len(p)) = m
  <2>1. CutOf(S, hdf, z, m)
    BY <1>2, Cut
  <2> QED BY <2>1 DEF CutOf
<1>6. SubSeq(p, Len(h) + 1, Len(h) + Len(d)) = d
  BY <1>3, <1>4 DEF hd
<1>7. Len(hdf) = k
  BY <1>1, <1>2
<1>8. p = h \o d \o f \o z \o m
  BY DEF hd, hdf
<1> HIDE DEF p, k
<1>9. /\ p \in Seq(S) /\ Len(p) = k + Len(z) + Len(m)
      /\ SubSeq(p, k + 1, k + Len(z)) = z
      /\ SubSeq(p, k + Len(z) + 1, Len(p)) = m
  BY <1>5, <1>7
<1> QED BY <1>6, <1>8, <1>9 DEF k, FieldsOf

-----------------------------------------------------------------------------
(* Texts in septets.                                                       *)

(* The septets of each character.                                          *)
LEMMA SeptetsOf ==
  /\ Septets("@") = <<0>> /\ Septets("a") = <<97>> /\ Septets("e acute") = <<5>>
  /\ Septets("{") = <<27, 40>> /\ Septets("euro") = <<27, 101>>
BY DEF Septets, Escape

(* The bytes of each character, and of one that was read wrong.            *)
LEMMA BytesOf ==
  /\ Bytes("@") = 1 /\ Bytes("a") = 1 /\ Bytes("{") = 1 /\ Bytes("other") = 1
  /\ Bytes("e acute") = 2 /\ Bytes("euro") = 3
BY DEF Bytes

(* The characters of one byte.                                             *)
OneByte == {"@", "a", "{"}

(* A sequence of one is not one of two.                                    *)
LEMMA Lengths == \A x, y, z : <<x>> # <<y, z>> /\ <<y, z>> # <<x>>
<1> SUFFICES ASSUME NEW x, NEW y, NEW z PROVE <<x>> # <<y, z>>
  OBVIOUS
<1>1. Len(<<x>>) = 1 /\ Len(<<y, z>>) = 2
  OBVIOUS
<1> QED BY <1>1

(* Characters are told apart by their septets, an escape comes first and   *)
(* once.                                                                   *)
LEMMA SeptetsDiffer ==
  /\ \A c, d \in Chars : Septets(c) = Septets(d) => c = d
  /\ \A c \in Chars :
       \/ \E x \in Septet : x # Escape /\ Septets(c) = <<x>>
       \/ \E x \in Septet : x # Escape /\ Septets(c) = <<Escape, x>>
<1>1. /\ <<0>> # <<97>> /\ <<0>> # <<5>> /\ <<97>> # <<5>> /\ <<27, 40>> # <<27, 101>>
      /\ <<97>> # <<0>> /\ <<5>> # <<0>> /\ <<5>> # <<97>> /\ <<27, 101>> # <<27, 40>>
  <2>1. \A x, y : <<x>>[1] = x /\ <<x, y>>[2] = y
    OBVIOUS
  <2>2. 0 # 97 /\ 0 # 5 /\ 97 # 5 /\ 40 # 101
    OBVIOUS
  <2> QED BY <2>1, <2>2
<1>2. ASSUME NEW c \in Chars, NEW d \in Chars, Septets(c) = Septets(d) PROVE c = d
  <2>1. /\ c = "@" \/ c = "a" \/ c = "e acute" \/ c = "{" \/ c = "euro"
        /\ d = "@" \/ d = "a" \/ d = "e acute" \/ d = "{" \/ d = "euro"
    BY DEF Chars
  <2>2. CASE c = "@"
    BY <1>1, <1>2, <2>1, <2>2, SeptetsOf, Lengths, ZenonT(40)
  <2>3. CASE c = "a"
    BY <1>1, <1>2, <2>1, <2>3, SeptetsOf, Lengths, ZenonT(40)
  <2>4. CASE c = "e acute"
    BY <1>1, <1>2, <2>1, <2>4, SeptetsOf, Lengths, ZenonT(40)
  <2>5. CASE c = "{"
    BY <1>1, <1>2, <2>1, <2>5, SeptetsOf, Lengths, ZenonT(40)
  <2>6. CASE c = "euro"
    <3>1. Septets(d) = <<27, 101>>
      BY <1>2, <2>6, SeptetsOf
    <3>2. d # "@" /\ d # "a" /\ d # "e acute" /\ d # "{"
      BY <1>1, <3>1, SeptetsOf, Lengths, ZenonT(40)
    <3> QED BY <2>1, <2>6, <3>2
  <2> QED BY <2>1, <2>2, <2>3, <2>4, <2>5, <2>6
<1>3. ASSUME NEW c \in Chars
      PROVE  \/ \E x \in Septet : x # Escape /\ Septets(c) = <<x>>
             \/ \E x \in Septet : x # Escape /\ Septets(c) = <<Escape, x>>
  <2>1. \A x \in {0, 5, 40, 97, 101} : x \in Septet /\ x # Escape
    BY DEF Septet, Escape
  <2>2. Escape = 27
    BY DEF Escape
  <2> QED BY <2>1, <2>2, SeptetsOf, ZenonT(40) DEF Chars
<1> QED BY <1>2, <1>3

(* In s the septets of the character c are those from i up to j.           *)
Placed(s, c, i, j) ==
  \/ j = i + 1 /\ s[i] # Escape /\ Septets(c) = <<s[i]>>
  \/ j = i + 2 /\ s[i] = Escape /\ s[i + 1] # Escape /\ Septets(c) = <<Escape, s[i + 1]>>

(* The septets s are those of the text t, of which each character begins   *)
(* where "at" says.                                                        *)
Laid(s, t, at) ==
  /\ t \in Seq(Chars) /\ s \in Seq(Septet)
  /\ at \in [1..Len(t) + 1 -> 1..Len(s) + 1] /\ at[1] = 1 /\ at[Len(t) + 1] = Len(s) + 1
  /\ \A k \in 1..Len(t) : Placed(s, t[k], at[k], at[k + 1])

(* One more character.                                                     *)
LEMMA LaidMore ==
  ASSUME NEW s, NEW t, NEW at, Laid(s, t, at), NEW c \in Chars
  PROVE  \E b : Laid(s \o Septets(c), Append(t, c), b)
<1> DEFINE g == Septets(c)
           w == s \o g
           u == Append(t, c)
           n == Len(t)
           b == [k \in 1..n + 2 |-> IF k = n + 2 THEN Len(w) + 1 ELSE at[k]]
<1>1. /\ t \in Seq(Chars) /\ s \in Seq(Septet) /\ n \in Nat /\ Len(s) \in Nat
      /\ at \in [1..n + 1 -> 1..Len(s) + 1] /\ at[1] = 1 /\ at[n + 1] = Len(s) + 1
      /\ \A k \in 1..n : Placed(s, t[k], at[k], at[k + 1])
  BY LenProperties DEF Laid
<1>2. g \in Seq(Septet) /\ Len(g) \in 1..2
  <2>1. \A x, y \in Septet : /\ <<x>> \in Seq(Septet) /\ <<x, y>> \in Seq(Septet)
                             /\ Len(<<x>>) \in 1..2 /\ Len(<<x, y>>) \in 1..2
    OBVIOUS
  <2>2. Escape \in Septet
    BY DEF Escape, Septet
  <2> QED BY <2>1, <2>2, SeptetsDiffer, Zenon
<1>3. /\ w \in Seq(Septet) /\ Len(w) = Len(s) + Len(g)
      /\ \A i \in 1..Len(s) : w[i] = s[i]
      /\ \A i \in 1..Len(g) : w[Len(s) + i] = g[i]
  <2> HIDE DEF g
  <2>1. /\ w \in Seq(Septet) /\ Len(w) = Len(s) + Len(g)
        /\ \A i \in 1..Len(s) + Len(g) : w[i] = IF i <= Len(s) THEN s[i] ELSE g[i - Len(s)]
    BY <1>1, <1>2, ConcatProperties
  <2>2. \A i \in 1..Len(s) : i \in 1..Len(s) + Len(g) /\ i <= Len(s)
    BY <1>1, <1>2
  <2>3. \A i \in 1..Len(g) : /\ Len(s) + i \in 1..Len(s) + Len(g) /\ ~ (Len(s) + i <= Len(s))
                             /\ Len(s) + i - Len(s) = i
    BY <1>1, <1>2
  <2> HIDE DEF w
  <2> QED BY <2>1, <2>2, <2>3
<1>4. u \in Seq(Chars) /\ Len(u) = n + 1 /\ u[n + 1] = c /\ \A k \in 1..n : u[k] = t[k]
  BY <1>1, AppendProperties
<1> HIDE DEF w, u
<1>5. b \in [1..Len(u) + 1 -> 1..Len(w) + 1] /\ b[1] = 1 /\ b[Len(u) + 1] = Len(w) + 1
  <2> HIDE DEF n, g
  <2> QED BY <1>1, <1>2, <1>3, <1>4
<1>6. ASSUME NEW k \in 1..n PROVE Placed(w, u[k], b[k], b[k + 1])
  <2>1. /\ Placed(s, t[k], at[k], at[k + 1]) /\ u[k] = t[k] /\ b[k] = at[k] /\ b[k + 1] = at[k + 1]
        /\ at[k] \in 1..Len(s) + 1 /\ at[k + 1] \in 1..Len(s) + 1
    <3> HIDE DEF n
    <3> QED BY <1>1, <1>4, <1>6
  <2>2. CASE at[k + 1] = at[k] + 1 /\ s[at[k]] # Escape /\ Septets(t[k]) = <<s[at[k]]>>
    <3>1. w[at[k]] = s[at[k]]
      <4>1. \A i, j \in 1..Len(s) + 1 : j = i + 1 => i \in 1..Len(s)
        BY <1>1
      <4> QED BY <1>3, <2>1, <2>2, <4>1
    <3> HIDE DEF b
    <3> QED BY <2>1, <2>2, <3>1 DEF Placed
  <2>3. CASE /\ at[k + 1] = at[k] + 2 /\ s[at[k]] = Escape /\ s[at[k] + 1] # Escape
             /\ Septets(t[k]) = <<Escape, s[at[k] + 1]>>
    <3>1. w[at[k]] = s[at[k]] /\ w[at[k] + 1] = s[at[k] + 1]
      <4>1. \A i, j \in 1..Len(s) + 1 : j = i + 2 => i \in 1..Len(s) /\ i + 1 \in 1..Len(s)
        BY <1>1
      <4> QED BY <1>3, <2>1, <2>3, <4>1
    <3> HIDE DEF b
    <3> QED BY <2>1, <2>3, <3>1 DEF Placed
  <2> QED BY <2>1, <2>2, <2>3 DEF Placed
<1>7. Placed(w, u[n + 1], b[n + 1], b[n + 2])
  <2>1. b[n + 1] = Len(s) + 1 /\ b[n + 2] = Len(w) + 1 /\ u[n + 1] = c
    <3> HIDE DEF n
    <3> QED BY <1>1, <1>4
  <2> HIDE DEF b, n
  <2>2. CASE \E x \in Septet : x # Escape /\ g = <<x>>
    <3>1. PICK x \in Septet : x # Escape /\ g = <<x>>
      BY <2>2
    <3>2. Len(g) = 1 /\ g[1] = x
      BY <3>1
    <3> HIDE DEF g
    <3>3. Len(w) + 1 = (Len(s) + 1) + 1 /\ w[Len(s) + 1] = x
      BY <1>1, <1>3, <3>2
    <3> QED BY <2>1, <3>1, <3>3 DEF Placed, g
  <2>3. CASE \E x \in Septet : x # Escape /\ g = <<Escape, x>>
    <3>1. PICK x \in Septet : x # Escape /\ g = <<Escape, x>>
      BY <2>3
    <3>2. Len(g) = 2 /\ g[1] = Escape /\ g[2] = x
      BY <3>1
    <3> HIDE DEF g
    <3>3. /\ Len(w) + 1 = (Len(s) + 1) + 2 /\ w[Len(s) + 1] = Escape
          /\ w[(Len(s) + 1) + 1] = x
      BY <1>1, <1>3, <3>2
    <3> QED BY <2>1, <3>1, <3>3 DEF Placed, g
  <2> QED BY <2>2, <2>3, SeptetsDiffer
<1>8. \A k \in 1..Len(u) : Placed(w, u[k], b[k], b[k + 1])
  <2>1. \A k \in 1..n + 1 : k \in 1..n \/ k = n + 1
    <3> HIDE DEF n
    <3> QED BY <1>1
  <2>2. n + 1 + 1 = n + 2
    <3> HIDE DEF n
    <3> QED BY <1>1
  <2> HIDE DEF b, n
  <2> QED BY <1>4, <1>6, <1>7, <2>1, <2>2
<1>9. Laid(w, u, b)
  <2> HIDE DEF b
  <2> QED BY <1>3, <1>4, <1>5, <1>8 DEF Laid
<1> HIDE DEF b
<1> QED BY <1>9 DEF w, u

(* Every text is laid out by Written.                                      *)
LEMMA LaidOut ==
  ASSUME NEW t \in Seq(Chars)
  PROVE  \E at : Laid(Written(t), t, at)
<1> DEFINE ss == [i \in DOMAIN t |-> Septets(t[i])]
           n == Len(t)
           Up(k) == [i \in 1..k |-> t[i]]
<1>1. n \in Nat /\ DOMAIN t = 1..n /\ t = [i \in 1..n |-> t[i]] /\ \A i \in 1..n : t[i] \in Chars
  BY LenProperties, ElementOfSeq
<1>2. Laid(<<>>, <<>>, [k \in 1..1 |-> 1])
  <2>1. Len(<<>>) = 0 /\ <<>> \in Seq(Chars) /\ <<>> \in Seq(Septet)
    BY EmptySeq
  <2>2. [k \in 1..1 |-> 1] \in [1..1 -> 1..1] /\ [k \in 1..1 |-> 1][1] = 1
    OBVIOUS
  <2>3. 0 + 1 = 1 /\ 1..0 = {}
    OBVIOUS
  <2> QED BY <2>1, <2>2, <2>3 DEF Laid
<1>3. CASE t = <<>>
  <2>1. Len(t) = 0 /\ ss = [i \in 1..0 |-> Septets(t[i])] /\ 1..0 = {}
    BY <1>1, <1>3
  <2>2. Len(ss) = 0 /\ ss = <<>>
    BY <2>1
  <2>3. FlattenSeq(<<>>) = <<>>
    BY DEF FlattenSeq
  <2> QED BY <1>2, <1>3, <2>2, <2>3 DEF Written
<1>4. CASE t # <<>>
  <2>1. n > 0 /\ 1 \in 1..n
    BY <1>1, <1>4, EmptySeq
  <2>2. ss \in Seq(Seq(Septet)) /\ Len(ss) = n /\ (\A i \in 1..n : ss[i] = Septets(t[i])) /\ ss # <<>>
    <3>1. \A c \in Chars : Septets(c) \in Seq(Septet)
      <4>1. \A x, y \in Septet : <<x>> \in Seq(Septet) /\ <<x, y>> \in Seq(Septet)
        OBVIOUS
      <4>2. Escape \in Septet
        BY DEF Escape, Septet
      <4> QED BY <4>1, <4>2, SeptetsDiffer
    <3>2. ss \in [1..n -> Seq(Septet)] /\ \A i \in 1..n : ss[i] = Septets(t[i])
      BY <1>1, <3>1
    <3> HIDE DEF ss, n
    <3>3. ss \in Seq(Seq(Septet)) /\ Len(ss) = n
      BY <1>1, <3>2
    <3>4. ss # <<>>
      BY <2>1, <3>3, EmptySeq
    <3> QED BY <3>2, <3>3, <3>4
  <2>3. PICK f \in [1..n -> Seq(Septet)] :
          /\ FlattenSeq(ss) = f[n] /\ f[1] = ss[1]
          /\ \A i \in 1..n - 1 : f[i + 1] = f[i] \o ss[i + 1]
    <3> HIDE DEF ss, n
    <3> QED BY <2>2, FlattenSteps
  <2> DEFINE T == {k \in 1..n : \E at : Laid(f[k], Up(k), at)}
  <2>4. ASSUME NEW k \in 0..n - 1 PROVE Up(k) \in Seq(Chars) /\ Up(k + 1) = Append(Up(k), t[k + 1])
    <3>1. k \in Nat /\ k + 1 \in 1..n /\ \A i \in 1..k + 1 : t[i] \in Chars
      <4> HIDE DEF n
      <4> QED BY <1>1
    <3>2. /\ Up(k) \in Seq(Chars) /\ Len(Up(k)) = k
          /\ Up(k + 1) \in Seq(Chars) /\ Len(Up(k + 1)) = k + 1
      BY <3>1
    <3>3. \A i \in 1..k + 1 : Up(k + 1)[i] = t[i]
      BY <3>1
    <3>4. \A i \in 1..k : Up(k)[i] = t[i]
      BY <3>1
    <3> HIDE DEF Up
    <3>5. /\ Append(Up(k), t[k + 1]) \in Seq(Chars) /\ Len(Append(Up(k), t[k + 1])) = k + 1
          /\ Append(Up(k), t[k + 1])[k + 1] = t[k + 1]
          /\ \A i \in 1..k : Append(Up(k), t[k + 1])[i] = t[i]
      BY <3>1, <3>2, <3>4, AppendProperties
    <3>6. \A i \in 1..k + 1 : Append(Up(k), t[k + 1])[i] = t[i]
      BY <3>1, <3>5
    <3> QED BY <3>2, <3>3, <3>5, <3>6, SeqEqual
  <2>5. 1 \in T
    <3>1. Up(0) = <<>>
      OBVIOUS
    <3>2. Up(1) = Append(<<>>, t[1])
      <4>1. 0 \in 0..n - 1 /\ 0 + 1 = 1
        <5> HIDE DEF n
        <5> QED BY <1>1, <2>1
      <4> HIDE DEF Up
      <4> QED BY <2>4, <3>1, <4>1
    <3>3. f[1] = <<>> \o Septets(t[1])
      BY <2>1, <2>2, <2>3
    <3>4. t[1] \in Chars
      BY <1>1, <2>1
    <3> HIDE DEF Up
    <3> QED BY <1>2, <2>1, <3>2, <3>3, <3>4, LaidMore
  <2>6. ASSUME NEW k \in 1..n - 1, k \in T PROVE k + 1 \in T
    <3>1. k + 1 \in 1..n /\ k \in 0..n - 1
      <4> HIDE DEF n, T
      <4> QED BY <1>1
    <3>2. PICK at : Laid(f[k], Up(k), at)
      BY <2>6
    <3>3. t[k + 1] \in Chars /\ f[k + 1] = f[k] \o Septets(t[k + 1])
      BY <1>1, <2>2, <2>3, <3>1
    <3>4. Up(k + 1) = Append(Up(k), t[k + 1])
      BY <2>4, <3>1
    <3> HIDE DEF Up
    <3>5. \E b : Laid(f[k] \o Septets(t[k + 1]), Append(Up(k), t[k + 1]), b)
      BY <3>2, <3>3, LaidMore
    <3> QED BY <3>1, <3>3, <3>4, <3>5
  <2>7. n \in T
    <3> HIDE DEF T
    <3>1. \A k \in 1..n : k \in T
      <4> HIDE DEF n
      <4> QED BY <1>1, <2>5, <2>6, InductionUpTo
    <3> QED BY <1>1, <2>1, <3>1
  <2>8. Up(n) = t
    BY <1>1
  <2> HIDE DEF Up
  <2> QED BY <2>3, <2>7, <2>8 DEF Written
<1> QED BY <1>3, <1>4

(* The characters begin one after the other, and every septet is the first *)
(* or the second one of a character.                                       *)
LEMMA LaidPlaces ==
  ASSUME NEW s, NEW t, NEW at, Laid(s, t, at)
  PROVE  /\ \A k, l \in 1..Len(t) + 1 : k < l => at[k] < at[l]
         /\ \A i \in 1..Len(s) : \E k \in 1..Len(t) :
              i = at[k] \/ (i = at[k] + 1 /\ at[k + 1] = at[k] + 2)
         /\ \A k \in 1..Len(t) + 1 : k <= at[k]
<1> DEFINE n == Len(t)
<1>1. /\ n \in Nat /\ Len(s) \in Nat /\ at \in [1..n + 1 -> 1..Len(s) + 1]
      /\ at[1] = 1 /\ at[n + 1] = Len(s) + 1
      /\ \A k \in 1..n : at[k + 1] = at[k] + 1 \/ at[k + 1] = at[k] + 2
  BY LenProperties DEF Laid, Placed
<1> HIDE DEF n
<1> DEFINE N == n + 1
<1>3. /\ N \in Nat /\ N - 1 = n /\ 1 \in 1..N
      /\ \A k \in 1..n : k + 1 \in 1..N /\ k \in 1..N
  BY <1>1
<1>2. \A k \in 1..N : at[k] \in Nat
  BY <1>1
<1> HIDE DEF N
<1> DEFINE Before == {k \in 1..N : \A j \in 1..k - 1 : at[j] < at[k]}
           Covered == {k \in 1..N : \A i \in 1..at[k] - 1 : \E l \in 1..n :
                         i = at[l] \/ (i = at[l] + 1 /\ at[l + 1] = at[l] + 2)}
           Enough == {k \in 1..N : k <= at[k]}
<1>4. \A k \in 1..N : k \in Before
  <2>1. 1 \in Before
    BY <1>3
  <2>2. ASSUME NEW k \in 1..N - 1, k \in Before PROVE k + 1 \in Before
    <3>1. k \in 1..n /\ k + 1 \in 1..N /\ k + 1 - 1 = k /\ k \in 1..N
      BY <1>1, <1>3
    <3>2. at[k] < at[k + 1] /\ at[k] \in Nat /\ at[k + 1] \in Nat
      <4>1. at[k] \in Nat /\ at[k + 1] \in Nat
        BY <1>2, <3>1
      <4>2. at[k + 1] = at[k] + 1 \/ at[k + 1] = at[k] + 2
        BY <1>1, <3>1
      <4> QED BY <4>1, <4>2
    <3>3. ASSUME NEW j \in 1..k PROVE at[j] < at[k + 1]
      <4>1. j = k \/ j \in 1..k - 1
        BY <3>1
      <4>2. j \in 1..N
        BY <1>1, <1>3, <3>1
      <4>3. at[j] \in Nat /\ (j = k \/ at[j] < at[k])
        BY <1>2, <2>2, <4>1, <4>2
      <4> QED BY <3>2, <4>3
    <3> QED BY <3>1, <3>3
  <2> HIDE DEF Before
  <2> QED BY <1>3, <2>1, <2>2, InductionUpTo
<1>5. \A k \in 1..N : k \in Covered
  <2>1. 1 \in Covered
    BY <1>1, <1>3
  <2>2. ASSUME NEW k \in 1..N - 1, k \in Covered PROVE k + 1 \in Covered
    <3>1. k \in 1..n /\ k + 1 \in 1..N /\ k \in 1..N
      BY <1>3
    <3>2. /\ at[k] \in Nat /\ at[k + 1] \in Nat
          /\ at[k + 1] = at[k] + 1 \/ at[k + 1] = at[k] + 2
      BY <1>1, <1>2, <3>1
    <3>3. ASSUME NEW i \in 1..at[k + 1] - 1
          PROVE  \E l \in 1..n : i = at[l] \/ (i = at[l] + 1 /\ at[l + 1] = at[l] + 2)
      <4>1. i \in 1..at[k] - 1 \/ i = at[k] \/ (i = at[k] + 1 /\ at[k + 1] = at[k] + 2)
        BY <3>2
      <4> QED BY <2>2, <3>1, <4>1
    <3> QED BY <3>1, <3>3
  <2> HIDE DEF Covered
  <2> QED BY <1>3, <2>1, <2>2, InductionUpTo
<1>6. \A k \in 1..N : k \in Enough
  <2>1. 1 \in Enough
    BY <1>1, <1>3
  <2>2. ASSUME NEW k \in 1..N - 1, k \in Enough PROVE k + 1 \in Enough
    <3>1. k \in 1..n /\ k + 1 \in 1..N /\ k \in 1..N
      BY <1>3
    <3>2. at[k] \in Nat /\ at[k + 1] \in Nat /\ at[k] < at[k + 1] /\ k <= at[k]
      BY <1>1, <1>2, <2>2, <3>1
    <3> QED BY <3>1, <3>2
  <2> HIDE DEF Enough
  <2> QED BY <1>3, <2>1, <2>2, InductionUpTo
<1>7. ASSUME NEW k \in 1..N, NEW l \in 1..N, k < l PROVE at[k] < at[l]
  <2>1. k \in 1..l - 1
    BY <1>3, <1>7
  <2> QED BY <1>4, <2>1
<1>8. \A i \in 1..Len(s) : \E k \in 1..n :
        i = at[k] \/ (i = at[k] + 1 /\ at[k + 1] = at[k] + 2)
  <2>1. N \in Covered
    <3>1. N \in 1..N
      BY <1>1 DEF N
    <3> HIDE DEF Covered
    <3> QED BY <1>5, <3>1
  <2>2. 1..at[N] - 1 = 1..Len(s)
    BY <1>1 DEF N
  <2> QED BY <2>1, <2>2
<1> QED BY <1>6, <1>7, <1>8 DEF n, N

(* A character begins after a septet that is no escape.                    *)
LEMMA LaidBegins ==
  ASSUME NEW s, NEW t, NEW at, Laid(s, t, at), NEW k \in 1..Len(t)
  PROVE  at[k] # 1 => s[at[k] - 1] # Escape
<1>1. /\ Len(t) \in Nat /\ at[1] = 1 /\ Len(s) \in Nat
      /\ at \in [1..Len(t) + 1 -> 1..Len(s) + 1]
      /\ \A l \in 1..Len(t) : Placed(s, t[l], at[l], at[l + 1])
  BY LenProperties DEF Laid
<1>2. CASE k = 1
  BY <1>1, <1>2
<1>3. CASE k # 1
  <2>1. k - 1 \in 1..Len(t) /\ k - 1 + 1 = k /\ k - 1 \in 1..Len(t) + 1
    BY <1>1, <1>3
  <2>2. Placed(s, t[k - 1], at[k - 1], at[k]) /\ at[k - 1] \in Nat
    <3>1. at[k - 1] \in 1..Len(s) + 1
      BY <1>1, <2>1
    <3>2. Placed(s, t[k - 1], at[k - 1], at[k - 1 + 1])
      BY <1>1, <2>1
    <3> QED BY <1>1, <2>1, <3>1, <3>2
  <2>3. CASE at[k] = at[k - 1] + 1 /\ s[at[k - 1]] # Escape
    <3>1. at[k] - 1 = at[k - 1]
      BY <2>2, <2>3
    <3> QED BY <2>3, <3>1
  <2>4. CASE at[k] = at[k - 1] + 2 /\ s[at[k - 1] + 1] # Escape
    <3>1. at[k] - 1 = at[k - 1] + 1
      BY <2>2, <2>4
    <3> QED BY <2>4, <3>1
  <2> QED BY <2>2, <2>3, <2>4 DEF Placed
<1> QED BY <1>2, <1>3

(* What a text was written in is spelt as the text: an escape is never     *)
(* taken for a second septet, nor a second septet for a first.             *)
THEOREM LaidSpelt ==
  ASSUME NEW s, NEW t, NEW at, Laid(s, t, at)
  PROVE  Spelt(s) = t
<1> DEFINE Escapes(i) == {j \in 1..i - 1 : \A k \in j..i - 1 : s[k] = Escape}
           Begins(i) == Cardinality(Escapes(i)) % 2 = 0 /\ (s[i] = Escape => i < Len(s))
           Group(i) == IF s[i] = Escape /\ i < Len(s) THEN <<Escape, s[i + 1]>> ELSE <<s[i]>>
           Char(i) == IF \E c \in Chars : Septets(c) = Group(i)
                        THEN CHOOSE c \in Chars : Septets(c) = Group(i) ELSE "other"
           n == Len(t)
           P == {i \in DOMAIN s : Begins(i)}
           chars == [i \in DOMAIN s |-> Char(i)]
           places == [k \in 1..n |-> at[k]]
<1>1. /\ n \in Nat /\ Len(s) \in Nat /\ at \in [1..n + 1 -> 1..Len(s) + 1]
      /\ at[n + 1] = Len(s) + 1 /\ DOMAIN s = 1..Len(s)
      /\ t = [k \in 1..n |-> t[k]] /\ \A k \in 1..n : t[k] \in Chars
      /\ \A k \in 1..n : Placed(s, t[k], at[k], at[k + 1])
  BY LenProperties, ElementOfSeq DEF Laid
<1>2. /\ \A k, l \in 1..n + 1 : k < l => at[k] < at[l]
      /\ \A i \in 1..Len(s) : \E k \in 1..n :
           i = at[k] \/ (i = at[k] + 1 /\ at[k + 1] = at[k] + 2)
  BY LaidPlaces
<1>3. \A k \in 1..n : at[k] # 1 => s[at[k] - 1] # Escape
  BY LaidBegins
<1> HIDE DEF n
<1>4. ASSUME NEW k \in 1..n
      PROVE  /\ at[k] \in 1..Len(s) /\ (s[at[k]] = Escape => at[k] < Len(s))
             /\ Septets(t[k]) = Group(at[k])
  <2>1. /\ k \in 1..n + 1 /\ k + 1 \in 1..n + 1
        /\ at[k] \in 1..Len(s) + 1 /\ at[k + 1] \in 1..Len(s) + 1
    BY <1>1
  <2>2. CASE at[k + 1] = at[k] + 1 /\ s[at[k]] # Escape /\ Septets(t[k]) = <<s[at[k]]>>
    BY <1>1, <2>1, <2>2
  <2>3. CASE /\ at[k + 1] = at[k] + 2 /\ s[at[k]] = Escape
             /\ Septets(t[k]) = <<Escape, s[at[k] + 1]>>
    <3>1. at[k] \in 1..Len(s) /\ at[k] < Len(s)
      BY <1>1, <2>1, <2>3
    <3> QED BY <2>3, <3>1
  <2> QED BY <1>1, <2>2, <2>3 DEF Placed
<1>5. ASSUME NEW k \in 1..n PROVE Begins(at[k])
  <2>1. Escapes(at[k]) = {}
    <3>1. ASSUME NEW j \in 1..at[k] - 1 PROVE at[k] # 1 /\ at[k] - 1 \in j..at[k] - 1
      <4>1. at[k] \in Nat
        <5> HIDE DEF Group
        <5> QED BY <1>4
      <4> QED BY <4>1
    <3> QED BY <1>3, <3>1
  <2>2. Cardinality(Escapes(at[k])) = 0
    BY <2>1, FS_EmptySet
  <2>3. Cardinality(Escapes(at[k])) % 2 = 0
    BY <2>2
  <2> HIDE DEF Escapes, Group
  <2> QED BY <1>4, <2>3
<1>6. ASSUME NEW k \in 1..n, NEW i \in 1..Len(s), i = at[k] + 1, at[k + 1] = at[k] + 2
      PROVE  ~ Begins(i)
  <2>1. s[at[k]] = Escape /\ at[k] \in 1..Len(s) /\ i - 1 = at[k]
    <3>1. at[k] + 1 # at[k] + 2 /\ at[k] \in Nat
      <4>1. at[k] \in Nat
        <5> HIDE DEF Group
        <5> QED BY <1>4
      <4> QED BY <4>1
    <3> HIDE DEF Group
    <3> QED BY <1>1, <1>4, <1>6, <3>1 DEF Placed
  <2>2. Escapes(i) = {at[k]}
    <3>1. at[k] \in Escapes(i)
      BY <2>1
    <3>2. ASSUME NEW j \in Escapes(i) PROVE j = at[k]
      <4> SUFFICES ASSUME j # at[k] PROVE FALSE
        OBVIOUS
      <4>1. j \in 1..at[k] /\ \A l \in j..at[k] : s[l] = Escape
        BY <2>1
      <4>2. at[k] # 1 /\ at[k] - 1 \in j..at[k]
        BY <2>1, <4>1
      <4> QED BY <1>3, <4>1, <4>2
    <3> HIDE DEF Escapes
    <3> QED BY <3>1, <3>2
  <2>3. Cardinality(Escapes(i)) = 1
    BY <2>2, FS_Singleton
  <2> HIDE DEF Escapes
  <2> QED BY <2>3
<1>7. P = {places[k] : k \in 1..n}
  <2> HIDE DEF Begins
  <2>1. ASSUME NEW i \in P PROVE i \in {places[k] : k \in 1..n}
    BY <1>1, <1>2, <1>6
  <2>2. ASSUME NEW k \in 1..n PROVE places[k] \in P
    BY <1>1, <1>4, <1>5
  <2> QED BY <2>1, <2>2
<1>8. ASSUME NEW k \in 1..n PROVE chars[places[k]] = t[k]
  <2>1. places[k] = at[k] /\ at[k] \in DOMAIN s
    BY <1>1, <1>4
  <2>2. t[k] \in Chars /\ Septets(t[k]) = Group(at[k])
    BY <1>1, <1>4
  <2> HIDE DEF Group
  <2>3. \A c \in Chars : Septets(c) = Group(at[k]) <=> c = t[k]
    BY <2>2, SeptetsDiffer
  <2>4. Char(at[k]) = t[k]
    BY <2>2, <2>3
  <2> HIDE DEF Char
  <2> QED BY <2>1, <2>4
<1>9. Spelt(s) = Keep(chars, P)
  BY DEF Spelt
<1>10. Keep(chars, P) = [k \in 1..n |-> chars[places[k]]]
  <2>1. places \in [1..n -> 1..Len(s)]
    BY <1>4
  <2>2. Rising(places, n)
    BY <1>1, <1>2 DEF Rising
  <2> HIDE DEF P, chars, places
  <2>3. KeptAlong(chars, places, n)
    <3>1. n \in Nat /\ Len(s) \in Nat
      BY <1>1
    <3> HIDE DEF Escapes, Begins, Group, Char
    <3> QED BY <2>1, <2>2, <3>1, KeepAlong, Zenon
  <2> QED BY <1>7, <2>3 DEF KeptAlong
<1> HIDE DEF P, chars, places
<1> QED BY <1>1, <1>8, <1>9, <1>10

(* A text of characters of one septet is as long in septets.               *)
LEMMA LaidOnes ==
  ASSUME NEW s, NEW t, NEW at, Laid(s, t, at), \A k \in 1..Len(t) : Len(Septets(t[k])) = 1
  PROVE  Len(s) = Len(t)
<1> DEFINE n == Len(t)
           T == {k \in 1..n + 1 : at[k] = k}
<1>1. /\ n \in Nat /\ Len(s) \in Nat /\ at[1] = 1 /\ at[n + 1] = Len(s) + 1
      /\ \A k \in 1..n : at[k + 1] = at[k] + 1
  <2>1. \A x, y : Len(<<x, y>>) # 1
    OBVIOUS
  <2> QED BY <2>1, LenProperties DEF Laid, Placed
<1> HIDE DEF n
<1>2. \A k \in 1..n + 1 : k \in T
  <2> DEFINE N == n + 1
  <2>1. N \in Nat /\ 1 \in T
    BY <1>1
  <2>2. ASSUME NEW k \in 1..N - 1, k \in T PROVE k + 1 \in T
    BY <1>1, <2>2
  <2> HIDE DEF T, N
  <2>3. \A k \in 1..N : k \in T
    BY <2>1, <2>2, InductionUpTo
  <2> QED BY <2>3 DEF N
<1> QED BY <1>1, <1>2 DEF n

(* A text is written in septets, at least one for each character.          *)
LEMMA Wrote ==
  ASSUME NEW t \in Seq(Chars)
  PROVE  /\ Written(t) \in Seq(Septet) /\ Len(Written(t)) \in Nat
         /\ Len(t) <= Len(Written(t)) /\ Len(t) \in Nat
         /\ (\A k \in 1..Len(t) : Len(Septets(t[k])) = 1) => Len(Written(t)) = Len(t)
<1>1. PICK at : Laid(Written(t), t, at)
  BY LaidOut
<1>2. Len(t) \in Nat /\ Len(Written(t)) \in Nat /\ Written(t) \in Seq(Septet)
  BY <1>1, LenProperties DEF Laid
<1>3. Len(t) + 1 <= at[Len(t) + 1] /\ at[Len(t) + 1] = Len(Written(t)) + 1
  <2>1. Len(t) + 1 \in 1..Len(t) + 1
    BY <1>2
  <2> QED BY <1>1, <2>1, LaidPlaces DEF Laid
<1> QED BY <1>1, <1>2, <1>3, LaidOnes

-----------------------------------------------------------------------------
(* Texts that are cut.                                                     *)

(* A text of characters of one byte can be cut anywhere.                   *)
LEMMA CutText ==
  ASSUME NEW out \in Seq(OneByte), NEW size \in Nat
  PROVE  /\ LenBytes(out) = Len(out)
         /\ size < Len(out) => Cuts(out, size) = {size}
<1>1. Len(out) \in Nat /\ \A i \in 1..Len(out) : out[i] \in OneByte
  BY LenProperties, ElementOfSeq
<1>2. LenBytes(out) = Len(out)
  <2>1. \A c \in OneByte : Bytes(c) = 1
    BY BytesOf DEF OneByte
  <2> QED BY <1>1, <2>1, LenBytesOnes
<1>3. ASSUME NEW k \in 0..Len(out) PROVE LenBytes(SubSeq(out, 1, k)) = k
  <2> DEFINE b == SubSeq(out, 1, k)
  <2>1. b \in Seq(OneByte) /\ Len(b) = k
    BY <1>1, SubSeqProperties
  <2> HIDE DEF b
  <2>2. \A i \in 1..Len(b) : Bytes(b[i]) = 1
    <3>1. \A i \in 1..Len(b) : b[i] \in OneByte
      BY <2>1, ElementOfSeq
    <3> QED BY <3>1, BytesOf DEF OneByte
  <2>3. LenBytes(b) = k
    BY <2>1, <2>2, LenBytesOnes
  <2> QED BY <2>3 DEF b
<1>4. ASSUME size < Len(out) PROVE Cuts(out, size) = {size}
  <2>1. size \in 0..Len(out)
    BY <1>1, <1>4
  <2> QED BY <1>3, <2>1 DEF Cuts
<1> QED BY <1>2, <1>4

(* The first k characters that decode_message makes of the octets.         *)
FirstOf(data, k) == Read(<<>>, SubSeq(Spelt(Unpack(FromHex(data))), 1, k))

(* decode_message panics or gives the first characters: of one byte each,  *)
(* as many as it is told, or as there are.                                 *)
LEMMA Decoded ==
  ASSUME NEW data, NEW size \in Nat, NEW C, Spelt(Unpack(FromHex(data))) \in Seq(C)
  PROVE  LET n == Len(Spelt(Unpack(FromHex(data)))) IN
         /\ \/ DecodeMessage(data, size) = Panic
            \/ \E k \in 0..n : DecodeMessage(data, size) = FirstOf(data, k)
         /\ C = OneByte =>
              DecodeMessage(data, size) = FirstOf(data, IF n <= size THEN n ELSE size)
<1> DEFINE out == Spelt(Unpack(FromHex(data)))
           n == Len(out)
<1>1. DecodeMessage(data, size) =
        IF LenBytes(out) <= size THEN Read(<<>>, out)
        ELSE IF Cuts(out, size) = {} THEN Panic
        ELSE Read(<<>>, SubSeq(out, 1, CHOOSE k \in Cuts(out, size) : TRUE))
  BY DEF DecodeMessage
<1>2. \A k : FirstOf(data, k) = Read(<<>>, SubSeq(out, 1, k))
  BY DEF FirstOf
<1>3. out \in Seq(C)
  OBVIOUS
<1> HIDE DEF out
<1>4. n \in Nat /\ SubSeq(out, 1, n) = out
  <2>1. n \in Nat /\ \A i \in 1..n : out[i] \in C
    BY <1>3, LenProperties, ElementOfSeq
  <2> DEFINE b == SubSeq(out, 1, n)
  <2>2. b \in Seq(C) /\ Len(b) = n /\ \A i \in 1..n : b[i] = out[i]
    BY <2>1, SubSeqProperties
  <2> HIDE DEF b
  <2>3. b = out
    BY <1>3, <2>2, SeqEqual
  <2> QED BY <2>1, <2>3 DEF b
<1>5. \/ DecodeMessage(data, size) = Panic
      \/ \E k \in 0..n : DecodeMessage(data, size) = FirstOf(data, k)
  <2>1. CASE LenBytes(out) <= size
    <3>1. n \in 0..n
      BY <1>4
    <3> QED BY <1>1, <1>2, <1>4, <2>1, <3>1
  <2>2. CASE ~ (LenBytes(out) <= size) /\ Cuts(out, size) # {}
    <3> DEFINE k == CHOOSE k \in Cuts(out, size) : TRUE
    <3>1. k \in Cuts(out, size)
      BY <2>2
    <3>2. k \in 0..n
      BY <3>1 DEF Cuts
    <3>3. DecodeMessage(data, size) = FirstOf(data, k)
      BY <1>1, <1>2, <2>2
    <3> HIDE DEF k
    <3> QED BY <3>2, <3>3
  <2>3. CASE ~ (LenBytes(out) <= size) /\ Cuts(out, size) = {}
    BY <1>1, <2>3
  <2> QED BY <2>1, <2>2, <2>3
<1>6. ASSUME C = OneByte
      PROVE  DecodeMessage(data, size) = FirstOf(data, IF n <= size THEN n ELSE size)
  <2>1. LenBytes(out) = n /\ (size < n => Cuts(out, size) = {size})
    BY <1>3, <1>6, CutText
  <2>2. CASE n <= size
    BY <1>1, <1>2, <1>4, <2>1, <2>2
  <2>3. CASE ~ (n <= size)
    <3>1. Cuts(out, size) = {size}
      BY <1>4, <2>1, <2>3
    <3>2. (CHOOSE k \in {size} : TRUE) = size
      OBVIOUS
    <3> QED BY <1>1, <1>2, <2>1, <2>3, <3>1, <3>2
  <2> QED BY <2>2, <2>3
<1> QED BY <1>5, <1>6 DEF out

-----------------------------------------------------------------------------
(* Numbers.                                                                *)

(* The digits of a number of a sender.                                     *)
Even(n) == IF Len(n) % 2 = 1 THEN Append(n, F) ELSE n

(* It has an even number of digits: those of the number, then F.           *)
LEMMA EvenDigits ==
  ASSUME NEW n \in Number
  PROVE  /\ Even(n) \in Seq(Nibbles) /\ Len(Even(n)) % 2 = 0
         /\ Len(Even(n)) = Len(n) + (Len(n) % 2)
         /\ \A i \in 1..Len(Even(n)) : Even(n)[i] = IF i <= Len(n) THEN n[i] ELSE F
<1>1. Len(n) \in Nat /\ n \in Seq(Nibbles) /\ F \in Nibbles
  BY SeqMonotonic DEF Number, Nibbles, F
<1>2. CASE Len(n) % 2 = 1
  <2>1. Even(n) = Append(n, F)
    BY <1>2 DEF Even
  <2>2. /\ Append(n, F) \in Seq(Nibbles) /\ Len(Append(n, F)) = Len(n) + 1
        /\ \A i \in 1..Len(n) : Append(n, F)[i] = n[i]
        /\ Append(n, F)[Len(n) + 1] = F
    BY <1>1, AppendProperties
  <2>3. (Len(n) + 1) % 2 = 0
    BY <1>1, <1>2
  <2>4. \A i \in 1..Len(n) + 1 : Append(n, F)[i] = IF i <= Len(n) THEN n[i] ELSE F
    BY <1>1, <2>2
  <2> QED BY <1>2, <2>1, <2>2, <2>3, <2>4
<1>3. CASE Len(n) % 2 # 1
  <2>1. Even(n) = n
    BY <1>3 DEF Even
  <2>2. Len(n) % 2 = 0
    BY <1>1, <1>3
  <2> QED BY <1>1, <2>1, <2>2
<1> QED BY <1>2, <1>3

(* The number of a sender is read as it is.                                *)
THEOREM SenderReturns ==
  ASSUME NEW n \in Number
  PROVE  DecodeNumber(Swap(Even(n))) = n
<1> DEFINE x == Even(n)
<1>1. /\ x \in Seq(Nibbles) /\ Len(x) % 2 = 0 /\ Len(x) = Len(n) + (Len(n) % 2)
      /\ \A i \in 1..Len(x) : x[i] = IF i <= Len(n) THEN n[i] ELSE F
  BY EvenDigits
<1> HIDE DEF x
<1>2. Len(n) \in Nat /\ \A i \in 1..Len(n) : n[i] \in 0..9
  BY LenProperties, ElementOfSeq DEF Number
<1>3. Swap(Swap(x)) = x /\ Swap(x) \in Seq(Nibbles) /\ Len(Swap(x)) = Len(x)
  BY <1>1, SwapTwice, SwapPairs
<1>4. {i \in DOMAIN Swap(x) : x[i] # F} = 1..Len(n)
  <2>1. DOMAIN Swap(x) = 1..Len(x)
    BY <1>3, LenProperties
  <2>2. \A i \in 1..Len(x) : x[i] # F <=> i <= Len(n)
    BY <1>1, <1>2 DEF F
  <2>3. \A i \in 1..Len(n) : i \in 1..Len(x)
    BY <1>1, <1>2
  <2>4. \A i \in 1..Len(x) : i <= Len(n) <=> i \in 1..Len(n)
    BY <1>1, <1>2
  <2> QED BY <2>1, <2>2, <2>3, <2>4
<1>5. DecodeNumber(Swap(x)) = Keep(x, 1..Len(n))
  BY <1>3, <1>4 DEF DecodeNumber
<1>6. Keep(x, 1..Len(n)) = [k \in 1..Len(n) |-> x[k]]
  BY <1>2, KeepFirst
<1>7. [k \in 1..Len(n) |-> x[k]] = [k \in 1..Len(n) |-> n[k]]
  <2>1. \A k \in 1..Len(n) : x[k] = n[k]
    BY <1>1, <1>2
  <2> QED BY <2>1
<1>8. [k \in 1..Len(n) |-> n[k]] = n
  BY LenProperties DEF Number
<1> QED BY <1>5, <1>6, <1>7, <1>8 DEF x

-----------------------------------------------------------------------------
(* Texts in PDUs.                                                          *)

(* What the text of a PDU is read as.                                      *)
Unwritten(t) == Unpack(FromHex(EncodeMessage(t)))

(* encode_message gives two hexadecimal digits for an octet.               *)
LEMMA Encoded ==
  ASSUME NEW t \in Seq(Chars)
  PROVE  /\ EncodeMessage(t) \in Seq(Nibbles)
         /\ Len(EncodeMessage(t)) = 2 * ((7 * Len(Written(t)) + 7) \div 8)
         /\ FromHex(EncodeMessage(t)) = Pack(Written(t))
<1>1. Written(t) \in Seq(Septet)
  BY Wrote
<1>2. /\ Pack(Written(t)) \in Seq(Octet)
      /\ Len(Pack(Written(t))) = (7 * Len(Written(t)) + 7) \div 8
  BY <1>1, PackType
<1>3. /\ Hex(Pack(Written(t))) \in Seq(Nibbles)
      /\ Len(Hex(Pack(Written(t)))) = 2 * Len(Pack(Written(t)))
      /\ FromHex(Hex(Pack(Written(t)))) = Pack(Written(t))
  BY <1>2, HexReturns
<1> QED BY <1>2, <1>3 DEF EncodeMessage

(* A text is read as it was written.  Of what is left of the last octet,   *)
(* seven bits are one more septet, which is read as an "@".                *)
THEOREM TextReturns ==
  ASSUME NEW t \in Seq(Chars)
  PROVE  Spelt(Written(t)) = t /\ Spelt(Unwritten(t)) \in {t, Append(t, "@")}
<1> DEFINE s == Written(t)
           u == Unpack(Pack(s))
<1>1. PICK at : Laid(s, t, at)
  BY LaidOut
<1>2. Spelt(s) = t
  BY <1>1, LaidSpelt
<1>3. Spelt(s \o <<0>>) = Append(t, "@")
  <2>1. "@" \in Chars
    BY DEF Chars
  <2>2. PICK b : Laid(s \o Septets("@"), Append(t, "@"), b)
    BY <1>1, <2>1, LaidMore
  <2> QED BY <2>2, LaidSpelt, SeptetsOf
<1>4. u = s \/ u = s \o <<0>>
  <2>1. s \in Seq(Septet) /\ Len(s) \in Nat
    BY Wrote
  <2> HIDE DEF s
  <2>2. /\ u \in Seq(Septet) /\ Len(u) \in {Len(s), Len(s) + 1}
        /\ \A i \in 1..Len(s) : u[i] = s[i]
        /\ Len(u) = Len(s) + 1 => u[Len(s) + 1] = 0
    BY <2>1, SeptetsReturn
  <2>3. /\ s \o <<0>> \in Seq(Septet) /\ Len(s \o <<0>>) = Len(s) + 1
        /\ \A i \in 1..Len(s) : (s \o <<0>>)[i] = s[i]
        /\ (s \o <<0>>)[Len(s) + 1] = 0
    <3>1. <<0>> \in Seq(Septet) /\ Len(<<0>>) = 1 /\ <<0>>[1] = 0
      BY DEF Septet
    <3>2. /\ s \o <<0>> \in Seq(Septet) /\ Len(s \o <<0>>) = Len(s) + Len(<<0>>)
          /\ \A i \in 1..Len(s) + Len(<<0>>) :
               (s \o <<0>>)[i] = IF i <= Len(s) THEN s[i] ELSE <<0>>[i - Len(s)]
      BY <2>1, <3>1, ConcatProperties, Zenon
    <3> DEFINE w == s \o <<0>>
               z == <<0>>
    <3> HIDE DEF w, z
    <3>3. /\ w \in Seq(Septet) /\ Len(w) = Len(s) + 1
          /\ \A i \in 1..Len(s) + 1 : w[i] = IF i <= Len(s) THEN s[i] ELSE z[i - Len(s)]
      BY <3>1, <3>2 DEF w, z
    <3>4. z[1] = 0
      BY <3>1 DEF z
    <3>5. w[Len(s) + 1] = z[1] /\ \A i \in 1..Len(s) : w[i] = s[i]
      <4>1. Len(s) + 1 \in 1..Len(s) + 1 /\ ~ (Len(s) + 1 <= Len(s)) /\ Len(s) + 1 - Len(s) = 1
        BY <2>1
      <4>2. \A i \in 1..Len(s) : i \in 1..Len(s) + 1 /\ i <= Len(s)
        BY <2>1
      <4> QED BY <3>3, <4>1, <4>2
    <3> QED BY <3>3, <3>4, <3>5 DEF w
  <2> DEFINE w == s \o <<0>>
  <2> HIDE DEF u, w
  <2>4. CASE Len(u) = Len(s)
    BY <2>1, <2>2, <2>4, SeqEqual
  <2>5. CASE Len(u) = Len(s) + 1
    <3>1. /\ w \in Seq(Septet) /\ Len(w) = Len(u)
          /\ (\A i \in 1..Len(s) : u[i] = w[i]) /\ u[Len(s) + 1] = w[Len(s) + 1]
      BY <2>2, <2>3, <2>5 DEF w
    <3>2. \A i \in 1..Len(u) : i \in 1..Len(s) \/ i = Len(s) + 1
      BY <2>1, <2>5
    <3>3. \A i \in 1..Len(u) : u[i] = w[i]
      BY <3>1, <3>2
    <3>4. u = w
      BY <2>2, <3>1, <3>3, SeqEqual
    <3> QED BY <3>4 DEF w
  <2> QED BY <2>2, <2>4, <2>5
<1>5. Unwritten(t) = u
  BY Encoded DEF Unwritten
<1> HIDE DEF s, u
<1> QED BY <1>2, <1>3, <1>4, <1>5 DEF s

-----------------------------------------------------------------------------
(* PDUs.                                                                   *)

(* An octet in a PDU.                                                      *)
LEMMA HexOne ==
  ASSUME NEW x \in Octet
  PROVE  /\ Hex(<<x>>) \in Seq(Nibbles) /\ Len(Hex(<<x>>)) = 2
         /\ FromHex(Hex(<<x>>)) = <<x>>
<1> DEFINE o == <<x>>
<1>1. o \in Seq(Octet) /\ Len(o) = 1
  OBVIOUS
<1> HIDE DEF o
<1>2. Hex(o) \in Seq(Nibbles) /\ Len(Hex(o)) = 2 /\ FromHex(Hex(o)) = o
  <2>1. Hex(o) \in Seq(Nibbles) /\ Len(Hex(o)) = 2 * Len(o) /\ FromHex(Hex(o)) = o
    BY <1>1, HexReturns, Zenon
  <2> QED BY <1>1, <2>1
<1> QED BY <1>2 DEF o

(* Filling.                                                                *)
LEMMA FillerType ==
  ASSUME NEW n \in Nat
  PROVE  Filler(n) \in Seq(Nibbles) /\ Len(Filler(n)) = n
<1>1. 0 \in Nibbles
  BY DEF Nibbles
<1> QED BY <1>1 DEF Filler

(* The fields of a PDU from the network, and where wait_sms slices it.     *)
LEMMA DeliverFields ==
  ASSUME NEW n \in Number, Len(n) <= 20, NEW t \in Seq(Chars), Len(Written(t)) <= MaxSeptets
  PROVE  /\ Deliver(n, t) \in Seq(Nibbles)
         /\ Len(n) \in 11..12 =>
              /\ Len(Deliver(n, t)) \in Nat /\ Len(Deliver(n, t)) >= 54
              /\ SubSeq(Deliver(n, t), 23, 34) = Swap(Even(n))
              /\ SubSeq(Deliver(n, t), 53, 54) = Hex(<<Len(Written(t))>>)
              /\ SubSeq(Deliver(n, t), 55, Len(Deliver(n, t))) = EncodeMessage(t)
<1> DEFINE h == Filler(18) \o Hex(<<Len(n)>>) \o <<9, 1>>
           d == Swap(Even(n))
           f == Filler(18)
           z == Hex(<<Len(Written(t))>>)
           m == EncodeMessage(t)
           p == h \o d \o f \o z \o m
<1>1. p = Deliver(n, t)
  BY DEF Deliver, Even
<1>2. h \in Seq(Nibbles) /\ Len(h) = 22
  <2>1. Len(n) \in Nat /\ Len(n) \in Octet
    <3>1. \A x \in Nat : x <= 20 => x \in Octet
      BY DEF Octet
    <3>2. Len(n) \in Nat
      BY LenProperties DEF Number
    <3> QED BY <3>1, <3>2
  <2>2. Hex(<<Len(n)>>) \in Seq(Nibbles) /\ Len(Hex(<<Len(n)>>)) = 2
    BY <2>1, HexOne
  <2>3. Filler(18) \in Seq(Nibbles) /\ Len(Filler(18)) = 18
    BY FillerType
  <2>4. <<9, 1>> \in Seq(Nibbles) /\ Len(<<9, 1>>) = 2
    BY DEF Nibbles
  <2>5. /\ Filler(18) \o Hex(<<Len(n)>>) \in Seq(Nibbles)
        /\ Len(Filler(18) \o Hex(<<Len(n)>>)) = 20
    <3> DEFINE a == Filler(18)
               b == Hex(<<Len(n)>>)
    <3>1. a \in Seq(Nibbles) /\ b \in Seq(Nibbles) /\ Len(a) = 18 /\ Len(b) = 2
      BY <2>2, <2>3
    <3> HIDE DEF a, b
    <3>2. a \o b \in Seq(Nibbles) /\ Len(a \o b) = 20
      <4>1. a \o b \in Seq(Nibbles) /\ Len(a \o b) = Len(a) + Len(b)
        BY <3>1, ConcatProperties, Zenon
      <4> QED BY <3>1, <4>1
    <3> QED BY <3>2 DEF a, b
  <2> QED BY <2>4, <2>5, ConcatProperties
<1>3. d \in Seq(Nibbles) /\ Len(d) = Len(n) + (Len(n) % 2)
  BY EvenDigits, SwapPairs
<1>4. f \in Seq(Nibbles) /\ Len(f) = 18
  BY FillerType
<1>5. z \in Seq(Nibbles) /\ Len(z) = 2
  <2>1. Len(Written(t)) \in Octet
    <3>1. Len(Written(t)) \in Nat
      BY Wrote
    <3>2. \A x \in Nat : x <= MaxSeptets => x \in Octet
      BY DEF Octet, MaxSeptets
    <3> QED BY <3>1, <3>2
  <2> QED BY <2>1, HexOne
<1>6. m \in Seq(Nibbles) /\ Len(m) \in Nat
  BY Encoded, LenProperties
<1> HIDE DEF h, d, f, z, m
<1> DEFINE k == Len(h) + Len(d) + Len(f)
<1>7. /\ p \in Seq(Nibbles) /\ Len(p) = k + Len(z) + Len(m)
      /\ SubSeq(p, Len(h) + 1, Len(h) + Len(d)) = d
      /\ SubSeq(p, k + 1, k + Len(z)) = z
      /\ SubSeq(p, k + Len(z) + 1, Len(p)) = m
  <2>1. FieldsOf(Nibbles, h, d, f, z, m)
    BY <1>2, <1>3, <1>4, <1>5, <1>6, Fields
  <2> QED BY <2>1 DEF FieldsOf
<1> HIDE DEF p
<1>8. ASSUME Len(n) \in 11..12
      PROVE  /\ Len(p) \in Nat /\ Len(p) >= 54 /\ SubSeq(p, 23, 34) = d
             /\ SubSeq(p, 53, 54) = z /\ SubSeq(p, 55, Len(p)) = m
  <2>1. Len(d) = 12
    <3>1. Len(n) = 11 \/ Len(n) = 12
      BY <1>8
    <3>2. 11 + (11 % 2) = 12 /\ 12 + (12 % 2) = 12
      OBVIOUS
    <3> QED BY <1>3, <3>1, <3>2, Zenon
  <2>2. k = 52
    BY <1>2, <1>4, <2>1
  <2> HIDE DEF k
  <2> QED BY <1>2, <1>4, <1>5, <1>6, <1>7, <2>1, <2>2
<1> QED BY <1>1, <1>7, <1>8 DEF d, z, m

(* The fields of a PDU of send_sms, and where the network reads them.      *)
SubmitOf(n, t) ==
  LET p == Submit(n, t) IN
  /\ p \in Seq(Nibbles)
  /\ Len(n) <= Padding =>
       /\ Len(p) = 30 + Len(EncodeMessage(t))
       /\ SubSeq(p, 11, 22) = Swap(Padded(n))
       /\ SubSeq(p, 29, 30) = Hex(<<LenBytes(t) % 256>>)
       /\ SubSeq(p, 31, Len(p)) = EncodeMessage(t)

LEMMA SubmitFields ==
  ASSUME NEW n \in Number, Len(Padded(n)) % 2 = 0, NEW t \in Seq(Chars)
  PROVE  SubmitOf(n, t)
<1> DEFINE h == <<0, 0, 1, 1, 0, 0, 0, 11, 9, 1>>
           d == Swap(Padded(n))
           f == <<0, 0, 0, 0, 0, 1>>
           z == Hex(<<LenBytes(t) % 256>>)
           m == EncodeMessage(t)
           p == h \o d \o f \o z \o m
<1>1. p = Submit(n, t)
  BY DEF Submit
<1>2. h \in Seq(Nibbles) /\ Len(h) = 10 /\ f \in Seq(Nibbles) /\ Len(f) = 6
  BY DEF Nibbles
<1>3. d \in Seq(Nibbles) /\ (Len(n) <= Padding => Len(d) = 12)
  BY PaddedDigits, SwapPairs, NumberReturns DEF Padding
<1>4. z \in Seq(Nibbles) /\ Len(z) = 2
  <2>1. LenBytes(t) % 256 \in Octet
    <3>1. LenBytes(t) \in Nat
      BY LenBytesOnes
    <3>2. \A x \in Nat : x % 256 \in 0..255
      OBVIOUS
    <3> QED BY <3>1, <3>2 DEF Octet
  <2> QED BY <2>1, HexOne
<1>5. m \in Seq(Nibbles) /\ Len(m) \in Nat
  BY Encoded, LenProperties
<1> HIDE DEF h, d, f, z, m
<1> DEFINE k == Len(h) + Len(d) + Len(f)
<1>6. /\ p \in Seq(Nibbles) /\ Len(p) = k + Len(z) + Len(m)
      /\ SubSeq(p, Len(h) + 1, Len(h) + Len(d)) = d
      /\ SubSeq(p, k + 1, k + Len(z)) = z
      /\ SubSeq(p, k + Len(z) + 1, Len(p)) = m
  <2>1. FieldsOf(Nibbles, h, d, f, z, m)
    BY <1>2, <1>3, <1>4, <1>5, Fields
  <2> QED BY <2>1 DEF FieldsOf
<1> HIDE DEF p
<1>7. ASSUME Len(n) <= Padding
      PROVE  /\ Len(p) = 30 + Len(m) /\ SubSeq(p, 11, 22) = d
             /\ SubSeq(p, 29, 30) = z /\ SubSeq(p, 31, Len(p)) = m
  <2>1. Len(d) = 12
    BY <1>3, <1>7
  <2>2. k = 28
    BY <1>2, <2>1
  <2> HIDE DEF k
  <2> QED BY <1>2, <1>4, <1>5, <1>6, <2>1, <2>2
<1> QED BY <1>1, <1>6, <1>7 DEF d, z, m, SubmitOf

-----------------------------------------------------------------------------
(* Messages that get through.                                              *)

(* What wait_sms makes of a PDU from the network.                          *)
LEMMA DeliverReads ==
  ASSUME NEW n \in Number, Len(n) \in 11..12, NEW t \in Seq(Chars), Len(Written(t)) <= MaxSeptets
  PROVE  LET message == DecodeMessage(EncodeMessage(t), Len(Written(t))) IN
         ReadDeliver(Deliver(n, t)) = IF message = Panic THEN Panic ELSE Read(n, message.text)
<1> DEFINE p == Deliver(n, t)
           size == Len(Written(t))
           message == DecodeMessage(EncodeMessage(t), size)
<1>1. Len(n) <= 20
  <2>1. \A x \in 11..12 : x <= 20
    OBVIOUS
  <2> QED BY <2>1
<1>2. size \in Nat
  BY Wrote
<1>3. /\ Len(p) \in Nat /\ Len(p) >= 54 /\ SubSeq(p, 23, 34) = Swap(Even(n))
      /\ SubSeq(p, 53, 54) = Hex(<<size>>) /\ SubSeq(p, 55, Len(p)) = EncodeMessage(t)
  BY <1>1, DeliverFields
<1>4. FromHex(SubSeq(p, 53, 54))[1] = size
  <2>1. \A x \in Nat : x <= MaxSeptets => x \in Octet
    BY DEF Octet, MaxSeptets
  <2>2. size \in Octet
    BY <1>2, <2>1
  <2> HIDE DEF size
  <2>3. FromHex(Hex(<<size>>)) = <<size>>
    BY <2>2, HexOne
  <2>4. <<size>>[1] = size
    OBVIOUS
  <2> QED BY <1>3, <2>3, <2>4, Zenon
<1> HIDE DEF p, size
<1>5. DecodeNumber(Swap(Even(n))) = n
  BY SenderReturns
<1>6. DecodeMessage(SubSeq(p, 55, Len(p)), FromHex(SubSeq(p, 53, 54))[1]) = message
  BY <1>3, <1>4
<1>7. ReadDeliver(p) = IF message = Panic THEN Panic ELSE Read(n, message.text)
  <2>1. ~ (Len(p) < 54)
    BY <1>3
  <2>2. DecodeNumber(SubSeq(p, 23, 34)) = n
    BY <1>3, <1>5
  <2> HIDE DEF message
  <2> QED BY <1>6, <2>1, <2>2 DEF ReadDeliver
<1> QED BY <1>7 DEF p, size

(* A text with one more character, and the beginnings of both.             *)
LEMMA Beginnings ==
  ASSUME NEW t \in Seq(Chars), NEW out \in {t, Append(t, "@")}, NEW k \in 0..Len(out)
  PROVE  /\ out \in Seq(Chars) /\ Len(out) \in {Len(t), Len(t) + 1}
         /\ IsPrefix(SubSeq(out, 1, k), Append(t, "@")) /\ Len(SubSeq(out, 1, k)) = k
         /\ k = Len(t) => SubSeq(out, 1, k) = t
<1> DEFINE more == Append(t, "@")
           b == SubSeq(out, 1, k)
<1>1. "@" \in Chars /\ Len(t) \in Nat
  BY LenProperties DEF Chars
<1>2. more \in Seq(Chars) /\ Len(more) = Len(t) + 1 /\ \A i \in 1..Len(t) : more[i] = t[i]
  BY <1>1, AppendProperties
<1> HIDE DEF more
<1>3. /\ out \in Seq(Chars) /\ Len(out) \in {Len(t), Len(t) + 1} /\ Len(out) \in Nat
      /\ \A i \in 1..Len(out) : i \in 1..Len(more) /\ out[i] = more[i]
      /\ \A i \in 1..Len(t) : i \in 1..Len(out) /\ out[i] = t[i]
  <2>1. out = t \/ out = more
    BY DEF more
  <2> QED BY <1>1, <1>2, <2>1
<1>4. k \in Nat /\ (\A i \in 1..k : i \in 1..Len(out)) /\ k <= Len(more)
  BY <1>1, <1>2, <1>3
<1>5. b \in Seq(Chars) /\ Len(b) = k /\ \A i \in 1..k : b[i] = out[i]
  <2>1. \A i \in 1..k : out[i] \in Chars
    BY <1>3, <1>4, ElementOfSeq
  <2> QED BY <1>3, <1>4, <2>1, SubSeqProperties
<1> HIDE DEF b
<1>6. IsPrefix(b, more)
  <2> DEFINE c == SubSeq(more, 1, k)
             d == SubSeq(b, 1, k)
  <2>1. \A i \in 1..k : more[i] \in Chars /\ b[i] \in Chars
    BY <1>2, <1>3, <1>4, <1>5, ElementOfSeq
  <2>2. /\ c \in Seq(Chars) /\ Len(c) = k /\ \A i \in 1..k : c[i] = more[i]
        /\ d \in Seq(Chars) /\ Len(d) = k /\ \A i \in 1..k : d[i] = b[i]
    BY <1>4, <2>1, SubSeqProperties
  <2> HIDE DEF c, d
  <2>3. \A i \in 1..k : c[i] = d[i]
    BY <1>3, <1>4, <1>5, <2>2
  <2>4. c = d
    BY <2>2, <2>3, SeqEqual
  <2> QED BY <1>4, <1>5, <2>4 DEF IsPrefix, c, d
<1>7. ASSUME k = Len(t) PROVE b = t
  BY <1>3, <1>5, <1>7, SeqEqual
<1> QED BY <1>3, <1>5, <1>6, <1>7 DEF b, more

(* What wait_sms reads of a text of any characters, of characters of one   *)
(* byte, and of those of one septet, too.                                  *)
HeardOf(n, t) ==
  LET r == ReadDeliver(Deliver(n, t))
      Single == \A i \in 1..Len(t) : Bytes(t[i]) = 1
  IN  /\ r # Panic => r.number = n /\ IsPrefix(r.text, Append(t, "@"))
      /\ Single => r # Panic /\ Len(r.text) >= Len(t)
      /\ Single /\ Len(Written(t)) = Len(t) => r = Read(n, t)

LEMMA Heard ==
  ASSUME NEW n \in Number, Len(n) \in 11..12, NEW t \in Seq(Chars), Len(Written(t)) <= MaxSeptets
  PROVE  HeardOf(n, t)
<1> DEFINE data == EncodeMessage(t)
           out == Spelt(Unpack(FromHex(data)))
           size == Len(Written(t))
           message == DecodeMessage(data, size)
           r == ReadDeliver(Deliver(n, t))
           Single == \A i \in 1..Len(t) : Bytes(t[i]) = 1
           cut == IF Len(out) <= size THEN Len(out) ELSE size
<1>1. out \in {t, Append(t, "@")}
  BY TextReturns DEF Unwritten
<1>2. size \in Nat /\ Len(t) \in Nat /\ Len(t) <= size
  BY Wrote
<1>3. r = IF message = Panic THEN Panic ELSE Read(n, message.text)
  BY DeliverReads
<1>4. out \in Seq(Chars) /\ Len(out) \in {Len(t), Len(t) + 1}
  <2>1. Len(out) \in Nat
    <3>0. "@" \in Chars
      BY DEF Chars
    <3>1. Len(Append(t, "@")) = Len(t) + 1
      BY <3>0, AppendProperties
    <3> HIDE DEF out
    <3> QED BY <1>1, <1>2, <3>1
  <2>2. 0 \in 0..Len(out)
    BY <2>1
  <2> HIDE DEF out
  <2> QED BY <1>1, <2>2, Beginnings
<1>5. \A k \in 0..Len(out) :
        /\ IsPrefix(SubSeq(out, 1, k), Append(t, "@")) /\ Len(SubSeq(out, 1, k)) = k
        /\ k = Len(t) => SubSeq(out, 1, k) = t
  <2> HIDE DEF out
  <2> QED BY <1>1, Beginnings
<1>6. message = Panic \/ \E k \in 0..Len(out) : message = FirstOf(data, k)
  <2> HIDE DEF size, data
  <2> QED BY <1>2, <1>4, Decoded
<1>7. ASSUME Single PROVE message = FirstOf(data, cut)
  <2>1. out \in Seq(OneByte)
    <3>1. \A c \in Chars : Bytes(c) = 1 => c \in OneByte
      <4>1. 2 # 1 /\ 3 # 1
        OBVIOUS
      <4> QED BY <4>1, BytesOf, Zenon DEF Chars, OneByte
    <3>2. \A i \in 1..Len(t) : t[i] \in OneByte
      BY <1>7, <3>1, ElementOfSeq
    <3>3. t = [i \in 1..Len(t) |-> t[i]]
      BY LenProperties
    <3>4. t \in Seq(OneByte)
      BY <1>2, <3>2, <3>3
    <3>5. Append(t, "@") \in Seq(OneByte)
      BY <3>4, AppendProperties DEF OneByte
    <3> HIDE DEF out
    <3> QED BY <1>1, <3>4, <3>5
  <2> HIDE DEF size, data
  <2> QED BY <1>2, <2>1, Decoded
<1>8. \A k : FirstOf(data, k).text = SubSeq(out, 1, k) /\ FirstOf(data, k) # Panic
  BY DEF FirstOf, Read, Panic
<1> HIDE DEF data, out, size, message, r
<1>9. \A k : Read(n, k) # Panic /\ Read(n, k).number = n /\ Read(n, k).text = k
  BY DEF Read, Panic
<1>10. r # Panic => r.number = n /\ IsPrefix(r.text, Append(t, "@"))
  BY <1>3, <1>5, <1>6, <1>8, <1>9
<1>11. cut \in 0..Len(out) /\ cut >= Len(t) /\ (size = Len(t) => cut = Len(t))
  BY <1>2, <1>4
<1> HIDE DEF cut
<1>12. ASSUME Single
       PROVE  /\ r = Read(n, SubSeq(out, 1, cut)) /\ r # Panic /\ Len(r.text) >= Len(t)
              /\ size = Len(t) => r = Read(n, t)
  <2>1. r = Read(n, SubSeq(out, 1, cut))
    BY <1>3, <1>7, <1>8, <1>12
  <2>2. Len(SubSeq(out, 1, cut)) = cut /\ (cut = Len(t) => SubSeq(out, 1, cut) = t)
    BY <1>5, <1>11
  <2> QED BY <1>9, <1>11, <2>1, <2>2
<1> QED BY <1>10, <1>12 DEF HeardOf, r, size

(* What the network reads of a PDU that send_sms has made.                 *)
LEMMA SubmitPlain ==
  ASSUME NEW n \in Number, Len(n) = 11, NEW t \in Seq(Chars), LenBytes(t) <= MaxBytes,
         \A i \in 1..Len(t) : Len(Septets(t[i])) = 1 /\ Bytes(t[i]) = 1
  PROVE  ReadSubmit(Submit(n, t)) = Read(n, t)
<1> DEFINE p == Submit(n, t)
           s == Written(t)
           u == Unpack(Pack(s))
<1>1. t \in Seq(Chars) /\ Len(t) \in Nat
  BY LenProperties
<1>2. LenBytes(t) = Len(t)
  BY LenBytesOnes
<1>3. Len(s) = Len(t) /\ s \in Seq(Septet) /\ Spelt(s) = t
  BY Wrote, TextReturns
<1>4. LenBytes(t) % 256 = Len(t) /\ Len(t) \in Octet
  <2>1. \A x \in Nat : x <= MaxBytes => x % 256 = x /\ x \in Octet
    BY SMTT(60) DEF MaxBytes, Octet
  <2>2. Len(t) <= MaxBytes
    BY <1>2
  <2>3. Len(t) % 256 = Len(t) /\ Len(t) \in Octet
    BY <1>1, <2>1, <2>2, Zenon
  <2> QED BY <1>2, <2>3
<1>5. Len(Padded(n)) = 12 /\ Padded(n) \in Seq(Nibbles) /\ Len(n) <= Padding
  <2>1. Len(n) < Padding /\ Len(n) <= Padding
    BY DEF Padding
  <2> QED BY <2>1, PaddedDigits DEF Padding
<1>6. /\ p \in Seq(Nibbles) /\ Len(p) = 30 + Len(EncodeMessage(t))
      /\ SubSeq(p, 11, 22) = Swap(Padded(n))
      /\ SubSeq(p, 29, 30) = Hex(<<Len(t)>>)
      /\ SubSeq(p, 31, Len(p)) = EncodeMessage(t)
  <2>1. Len(Padded(n)) % 2 = 0
    BY <1>5
  <2>2. LET w == Submit(n, t) IN
        /\ w \in Seq(Nibbles) /\ Len(w) = 30 + Len(EncodeMessage(t))
        /\ SubSeq(w, 11, 22) = Swap(Padded(n))
        /\ SubSeq(w, 29, 30) = Hex(<<LenBytes(t) % 256>>)
        /\ SubSeq(w, 31, Len(w)) = EncodeMessage(t)
    <3>1. SubmitOf(n, t)
      BY <1>1, <1>5, <2>1, SubmitFields
    <3> QED BY <1>5, <3>1 DEF SubmitOf
  <2>3. Hex(<<LenBytes(t) % 256>>) = Hex(<<Len(t)>>)
    BY <1>4
  <2> QED BY <2>2, <2>3
<1>7. /\ Len(EncodeMessage(t)) = 2 * ((7 * Len(t) + 7) \div 8)
      /\ FromHex(EncodeMessage(t)) = Pack(s)
  BY <1>1, <1>3, Encoded
<1>8. Len(Pack(s)) = (7 * Len(t) + 7) \div 8
  BY <1>3, PackType
<1>9. FromHex(SubSeq(p, 29, 30))[1] = Len(t)
  <2> DEFINE x == Len(t)
  <2> HIDE DEF x
  <2>1. x \in Octet /\ SubSeq(p, 29, 30) = Hex(<<x>>)
    BY <1>4, <1>6 DEF x
  <2>2. FromHex(Hex(<<x>>)) = <<x>>
    BY <2>1, HexOne
  <2>3. <<x>>[1] = x
    OBVIOUS
  <2>4. FromHex(SubSeq(p, 29, 30))[1] = x
    BY <2>1, <2>2, <2>3, Zenon
  <2> QED BY <2>4 DEF x
<1>10. SubSeq(u, 1, Len(t)) = s
  <2>1. /\ u \in Seq(Septet) /\ Len(u) \in {Len(t), Len(t) + 1}
        /\ \A i \in 1..Len(t) : u[i] = s[i]
    BY <1>3, SeptetsReturn
  <2> DEFINE b == SubSeq(u, 1, Len(t))
  <2> HIDE DEF u, s
  <2>2. \A i \in 1..Len(t) : u[i] \in Septet
    BY <1>1, <1>3, <2>1
  <2>3. b \in Seq(Septet) /\ Len(b) = Len(t) /\ \A i \in 1..Len(t) : b[i] = u[i]
    BY <1>1, <2>2, SubSeqProperties
  <2> HIDE DEF b
  <2>4. b = s
    BY <1>3, <2>1, <2>3, SeqEqual
  <2> QED BY <2>4 DEF b
<1>11. SubSeq(Swap(SubSeq(p, 11, 22)), 1, 11) = n
  <2> DEFINE x == Swap(Swap(Padded(n)))
             b == SubSeq(x, 1, 11)
  <2>1. \A i \in 1..11 : x[i] = n[i] /\ n[i] \in 0..9
    <3>1. \A i \in 1..Padding : x[i] = IF i <= Len(n) THEN n[i] ELSE F
      BY <1>5, NumberReturns
    <3>2. \A i \in 1..11 : i \in 1..Padding /\ i <= Len(n)
      BY DEF Padding
    <3>3. \A i \in 1..11 : n[i] \in 0..9
      BY ElementOfSeq DEF Number
    <3> QED BY <3>1, <3>2, <3>3
  <2> HIDE DEF x
  <2>2. b \in Seq(0..9) /\ Len(b) = 11 /\ \A i \in 1..11 : b[i] = x[i]
    BY <2>1, SubSeqProperties
  <2> HIDE DEF b
  <2>3. b = n
    <3>1. n \in Seq(0..9) /\ Len(n) = Len(b)
      BY <2>2 DEF Number
    <3>2. \A i \in 1..Len(b) : b[i] = n[i]
      BY <2>1, <2>2
    <3> QED BY <2>2, <3>1, <3>2, SeqEqual
  <2> QED BY <1>6, <2>3 DEF b, x
<1> HIDE DEF p, s, u
<1>12. Announced(p) = Len(p) \div 2 - 1
  <2>1. \A k \in Nat : (30 + 2 * k + 1 - 2) \div 2 = (30 + 2 * k) \div 2 - 1
    OBVIOUS
  <2>2. (7 * Len(t) + 7) \div 8 \in Nat
    BY <1>1
  <2> QED BY <1>6, <1>7, <2>1, <2>2 DEF Announced
<1>13. ReadSubmit(p) = Read(n, t)
  <2>1. FromHex(SubSeq(p, 31, Len(p))) = Pack(s)
    BY <1>6, <1>7
  <2>2. Len(Pack(s)) >= (7 * Len(t) + 7) \div 8
    BY <1>1, <1>8
  <2>3. SubSeq(Unpack(Pack(s)), 1, Len(t)) = s
    BY <1>10 DEF u
  <2> QED BY <1>3, <1>9, <1>11, <1>12, <2>1, <2>2, <2>3, Zenon DEF ReadSubmit
<1> QED BY <1>13 DEF p

-----------------------------------------------------------------------------
(* The invariant.                                                          *)

(* send_sms sends it.                                                      *)
Sendable == LenBytes(text) <= MaxBytes /\ Len(Padded(number)) % 2 = 0

(* What is on its way is what was coded, and its result is that of its     *)
(* being read.                                                             *)
IInv ==
  /\ TypeOK
  /\ pc \in {"typed", "coded"} => result = [what |-> "none"]
  /\ pc = "coded" /\ way = "in" =>
       Len(Written(text)) <= MaxSeptets /\ pdu = Deliver(number, text)
  /\ pc = "coded" /\ way = "out" => Sendable /\ pdu = Submit(number, text)
  /\ pc = "done" /\ way = "in" =>
       Len(Written(text)) <= MaxSeptets /\ result = ReadDeliver(Deliver(number, text))
  /\ pc = "done" /\ way = "out" /\ Sendable => result = ReadSubmit(Submit(number, text))

(* What the assumptions on the constants say of the variables.             *)
LEMMA Typed ==
  ASSUME TypeOK
  PROVE  /\ number \in Number /\ Len(number) \in Nat /\ Len(number) <= 20
         /\ text \in Seq(Chars) /\ Len(Written(text)) \in Nat
<1>1. number \in Number /\ Len(number) <= 20 /\ text \in Seq(Chars)
  BY PduAssumption DEF TypeOK, Number
<1>2. Len(number) \in Nat
  BY <1>1, LenProperties DEF Number
<1>3. Len(Written(text)) \in Nat
  BY <1>1, Wrote
<1> QED BY <1>1, <1>2, <1>3

(* Nothing is coded at first.                                              *)
LEMMA InitIInv ==
  ASSUME Init
  PROVE  IInv
<1>1. <<>> \in Seq(0..15)
  BY EmptySeq
<1>2. [what |-> "none"].what = "none"
  OBVIOUS
<1> QED BY <1>1, <1>2 DEF Init, IInv, TypeOK

(* A user writes.                                                          *)
LEMMA TypeIInv ==
  ASSUME IInv, Type
  PROVE  IInv'
<1>1. TypeOK
  BY DEF IInv
<1>2. Deliver(number, text) \in Seq(0..15)
  BY <1>1, Typed, DeliverFields DEF Type, Nibbles
<1>3. /\ pc' = "coded" /\ way = "in" /\ Len(Written(text)) <= MaxSeptets
      /\ pdu' = Deliver(number, text) /\ result = [what |-> "none"]
      /\ way' = way /\ number' = number /\ text' = text /\ result' = result
  BY DEF Type, IInv
<1>4. TypeOK'
  BY <1>1, <1>2, <1>3 DEF TypeOK
<1> QED BY <1>3, <1>4 DEF IInv

(* The router writes, or refuses to, or panics.                            *)
LEMMA SendIInv ==
  ASSUME IInv, Send
  PROVE  IInv'
<1>1. /\ TypeOK /\ pc = "typed" /\ way = "out" /\ result = [what |-> "none"]
      /\ way' = way /\ number' = number /\ text' = text
  BY DEF Send, IInv
<1>2. CASE /\ LenBytes(text) <= MaxBytes /\ Len(Padded(number)) % 2 = 0
           /\ pc' = "coded" /\ pdu' = Submit(number, text) /\ UNCHANGED result
  <2>1. Submit(number, text) \in Seq(0..15)
    BY <1>1, <1>2, Typed, SubmitFields DEF SubmitOf, Nibbles
  <2>2. TypeOK'
    BY <1>1, <1>2, <2>1 DEF TypeOK
  <2> QED BY <1>1, <1>2, <2>2 DEF IInv, Sendable
<1>3. CASE /\ LenBytes(text) > MaxBytes
           /\ pc' = "done" /\ result' = Refused /\ UNCHANGED pdu
  <2>1. TypeOK'
    BY <1>1, <1>3 DEF TypeOK, Refused
  <2>2. ~ (LenBytes(text) <= MaxBytes)
    <3>1. LenBytes(text) \in Nat
      BY <1>1, Typed, LenBytesOnes
    <3> QED BY <1>3, <3>1 DEF MaxBytes
  <2> QED BY <1>1, <1>3, <2>1, <2>2 DEF IInv, Sendable
<1>4. CASE /\ LenBytes(text) <= MaxBytes /\ Len(Padded(number)) % 2 = 1
           /\ pc' = "done" /\ result' = Panic /\ UNCHANGED pdu
  <2>1. TypeOK'
    BY <1>1, <1>4 DEF TypeOK, Panic
  <2>2. Len(Padded(number)) % 2 # 0
    BY <1>4
  <2> QED BY <1>1, <1>4, <2>1, <2>2 DEF IInv, Sendable
<1> QED BY <1>2, <1>3, <1>4 DEF Send

(* The PDU is read at the other end.                                       *)
LEMMA ReceiveIInv ==
  ASSUME IInv, Receive
  PROVE  IInv'
<1>1. /\ TypeOK /\ pc = "coded" /\ pc' = "done"
      /\ way' = way /\ number' = number /\ text' = text /\ pdu' = pdu
      /\ way \in {"in", "out"}
  BY DEF Receive, IInv, TypeOK
<1>2. \A n, t : Read(n, t).what # "none"
  BY DEF Read
<1>3. Panic.what # "none" /\ Refused.what # "none"
  BY DEF Panic, Refused
<1>4. CASE way = "in"
  <2>1. /\ result' = ReadDeliver(Deliver(number, text))
        /\ Len(Written(text)) <= MaxSeptets
    BY <1>1, <1>4 DEF Receive, IInv
  <2>2. \A p : ReadDeliver(p).what # "none"
    BY <1>2, <1>3 DEF ReadDeliver
  <2>3. TypeOK'
    BY <1>1, <2>1, <2>2 DEF TypeOK
  <2> QED BY <1>1, <1>4, <2>1, <2>3 DEF IInv
<1>5. CASE way = "out"
  <2>1. result' = ReadSubmit(Submit(number, text)) /\ Sendable
    BY <1>1, <1>5 DEF Receive, IInv
  <2>2. \A p : ReadSubmit(p).what # "none"
    BY <1>2, <1>3 DEF ReadSubmit
  <2>3. TypeOK'
    BY <1>1, <2>1, <2>2 DEF TypeOK
  <2> QED BY <1>1, <1>5, <2>1, <2>3 DEF IInv
<1> QED BY <1>1, <1>4, <1>5

(* The invariant, for every number and every text.                         *)
THEOREM PduInvariance == Spec => []IInv
<1>1. IInv /\ [Next]_vars => IInv'
  <2> SUFFICES ASSUME IInv, [Next]_vars PROVE IInv'
    OBVIOUS
  <2>1. CASE Type
    BY <2>1, TypeIInv
  <2>2. CASE Send
    BY <2>2, SendIInv
  <2>3. CASE Receive
    BY <2>3, ReceiveIInv
  <2>4. CASE UNCHANGED vars
    BY <2>4 DEF vars, IInv, TypeOK, Sendable
  <2> QED BY <2>1, <2>2, <2>3, <2>4 DEF Next
<1> QED BY <1>1, InitIInv, PTL DEF Spec

(* Pdu!TypeOK: PDUs are of hexadecimal digits.                             *)
THEOREM PduTypeCorrect == Spec => []TypeOK
<1>1. IInv => TypeOK
  BY DEF IInv
<1> QED BY <1>1, PduInvariance, PTL

(* What has become of an SMS that was received.                            *)
LEMMA Delivered ==
  ASSUME IInv, pc = "done", way = "in", Len(number) \in 11..12
  PROVE  /\ HeardOf(number, text) /\ result = ReadDeliver(Deliver(number, text))
         /\ DOMAIN text = 1..Len(text)
<1>1. number \in Number /\ text \in Seq(Chars)
  BY Typed DEF IInv
<1>2. Len(Written(text)) <= MaxSeptets /\ result = ReadDeliver(Deliver(number, text))
  BY DEF IInv
<1> QED BY <1>1, <1>2, Heard, LenProperties

(* Pdu!HeardAsWritten: whatever the characters, wait_sms reads the text or *)
(* a beginning of it, and at most an "@" more.                             *)
THEOREM WrittenTheorem == Spec => []HeardAsWritten
<1>1. IInv => HeardAsWritten
  <2> SUFFICES ASSUME IInv, pc = "done", way = "in", Len(number) \in 11..12, result # Panic
               PROVE  /\ result.number = number
                      /\ IsPrefix(result.text, Append(text, "@"))
                      /\ (\A i \in DOMAIN text : Bytes(text[i]) = 1)
                           => Len(result.text) >= Len(text)
    BY DEF HeardAsWritten
  <2> QED BY Delivered DEF HeardOf
<1> QED BY <1>1, PduInvariance, PTL

(* Pdu!Intact: a plain message gets through, both ways.                    *)
THEOREM IntactTheorem == Spec => []Intact
<1>1. IInv => Intact
  <2> SUFFICES ASSUME IInv, pc = "done", Plain(text), LenBytes(text) <= MaxBytes,
                      Len(number) = 11
               PROVE  result = Read(number, text)
    BY DEF Intact
  <2>1. number \in Number /\ text \in Seq(Chars) /\ way \in {"in", "out"}
    BY Typed DEF IInv, TypeOK
  <2>2. \A i \in 1..Len(text) : Len(Septets(text[i])) = 1 /\ Bytes(text[i]) = 1
    BY <2>1, LenProperties DEF Plain
  <2>3. CASE way = "in"
    <3>1. Len(Written(text)) = Len(text)
      BY <2>1, <2>2, Wrote
    <3>2. Len(number) \in 11..12
      OBVIOUS
    <3> QED BY <2>2, <2>3, <3>1, <3>2, Delivered DEF HeardOf
  <2>4. CASE way = "out"
    <3>1. Len(Padded(number)) % 2 = 0
      <4>1. Len(Padded(number)) = 12
        <5>1. Len(Padded(number)) = IF Len(number) < Padding THEN Padding ELSE Len(number)
          BY <2>1, PaddedDigits
        <5> QED BY <5>1 DEF Padding
      <4> QED BY <4>1
    <3>2. result = ReadSubmit(Submit(number, text))
      BY <2>4, <3>1 DEF IInv, Sendable
    <3> QED BY <2>1, <2>2, <3>2, SubmitPlain
  <2> QED BY <2>1, <2>3, <2>4
<1> QED BY <1>1, PduInvariance, PTL

(* Pdu!NoPanic: no text of characters of one byte makes wait_sms panic.    *)
THEOREM NoPanicTheorem == Spec => []NoPanic
<1>1. IInv => NoPanic
  <2> SUFFICES ASSUME IInv, way = "in", Len(number) \in 11..12,
                      \A i \in DOMAIN text : Bytes(text[i]) = 1
               PROVE  result # Panic
    BY DEF NoPanic
  <2>1. CASE pc \in {"typed", "coded"}
    <3>1. result = [what |-> "none"]
      BY <2>1 DEF IInv
    <3> QED BY <3>1 DEF Panic
  <2>2. CASE pc = "done"
    BY <2>2, Delivered DEF HeardOf
  <2>3. pc \in {"typed", "coded", "done"}
    BY DEF IInv, TypeOK
  <2> QED BY <2>1, <2>2, <2>3
<1> QED BY <1>1, PduInvariance, PTL
=============================================================================
