--------------------------- MODULE OpenPipesProofs ---------------------------
(***************************************************************************)
(* Theorems about OpenPipes: for every output of the service, every size   *)
(* of a read, every dialogue of sendmail and every pipe.                   *)
(***************************************************************************)
EXTENDS OpenPipes, SequenceTheorems, WellFoundedInduction, TLAPS

-----------------------------------------------------------------------------
(* Where texts are cut.                                                    *)

(* A set of places has a first one.                                        *)
LEMMA Least ==
  ASSUME NEW S \in SUBSET Nat, S # {}
  PROVE  \E i \in S : \A j \in S : i <= j
<1>1. PICK i \in S : \A j \in S : ~ (<<j, i>> \in OpToRel(<, Nat))
  BY NatLessThanWellFounded, WFMin
<1>2. ASSUME NEW j \in S
      PROVE  i <= j
  <2>1. ~ (j < i)
    BY <1>1 DEF OpToRel
  <2>2. i \in Nat /\ j \in Nat
    OBVIOUS
  <2> QED BY <2>1, <2>2
<1> QED BY <1>2

LEMMA FirstOfLeast ==
  ASSUME NEW S \in SUBSET Nat, S # {}
  PROVE  FirstOf(S) \in S /\ \A j \in S : FirstOf(S) <= j
BY Least DEF FirstOf

(* There is only one.                                                      *)
LEMMA FirstOfIs ==
  ASSUME NEW S \in SUBSET Nat, NEW i \in S, \A j \in S : i <= j
  PROVE  FirstOf(S) = i
<1>1. FirstOf(S) \in S /\ FirstOf(S) <= i /\ i <= FirstOf(S)
  BY FirstOfLeast
<1>2. FirstOf(S) \in Nat /\ i \in Nat
  BY <1>1
<1> QED BY <1>1, <1>2

(* What is captured begins at the first of the places.                     *)
LEMMA CapturedFirst ==
  ASSUME NEW s, NEW places, places # {}, \A p \in places : p[1] \in Nat
  PROVE  \E p \in places : /\ \A q \in places : p[1] <= q[1]
                           /\ Captured(s, places) = SubSeq(s, p[1], p[2])
<1> DEFINE First(p) == \A q \in places : p[1] <= q[1]
           begins == {p[1] : p \in places}
<1>1. begins \in SUBSET Nat /\ begins # {}
  OBVIOUS
<1>2. PICK b \in begins : \A c \in begins : b <= c
  BY <1>1, Least
<1>3. PICK p \in places : p[1] = b
  OBVIOUS
<1>4. First(p)
  BY <1>2, <1>3
<1> DEFINE chosen == CHOOSE r \in places : First(r)
<1>5. chosen \in places /\ First(chosen)
  BY <1>4
<1>6. Captured(s, places) = SubSeq(s, chosen[1], chosen[2])
  BY DEF Captured
<1> QED BY <1>5, <1>6

(* The line that begins at i ends at e.                                    *)
EndsAt(s, i, e) ==
  /\ e \in i..Len(s) /\ s[e] = "\n"
  /\ \A j \in i..Len(s) : s[j] = "\n" => e <= j

LEMMA LineEnd ==
  ASSUME NEW s \in Seq(STRING), NEW i \in 1..Len(s)
  PROVE  /\ LineEnds(s, i) # {} => EndsAt(s, i, FirstOf(LineEnds(s, i)))
         /\ \A e : EndsAt(s, i, e) =>
              LineEnds(s, i) # {} /\ FirstOf(LineEnds(s, i)) = e
<1>1. LineEnds(s, i) \in SUBSET Nat
  BY DEF LineEnds
<1>2. ASSUME LineEnds(s, i) # {}
      PROVE  EndsAt(s, i, FirstOf(LineEnds(s, i)))
  <2>1. /\ FirstOf(LineEnds(s, i)) \in LineEnds(s, i)
        /\ \A j \in LineEnds(s, i) : FirstOf(LineEnds(s, i)) <= j
    BY <1>1, <1>2, FirstOfLeast
  <2> QED BY <2>1 DEF LineEnds, EndsAt
<1>3. ASSUME NEW e, EndsAt(s, i, e)
      PROVE  LineEnds(s, i) # {} /\ FirstOf(LineEnds(s, i)) = e
  <2>1. e \in LineEnds(s, i) /\ \A j \in LineEnds(s, i) : e <= j
    BY <1>3 DEF LineEnds, EndsAt
  <2> QED BY <1>1, <2>1, FirstOfIs
<1> QED BY <1>2, <1>3

(* A url is on a line that begins with "Forwarding  " and has ended.       *)
UrlAt(s, i, e) ==
  /\ i \in 1..Len(s) - 1
  /\ s[i] = "Forwarding  " /\ s[i + 1] # "\n" /\ EndsAt(s, i, e)

LEMMA UrlWithin ==
  ASSUME NEW s \in Seq(STRING), NEW i, NEW e, UrlAt(s, i, e)
  PROVE  /\ Len(s) \in Nat
         /\ i \in 1..Len(s) - 1 /\ i \in 1..Len(s) /\ e \in i..Len(s)
         /\ i \in Nat /\ i + 1 \in Nat /\ 1 <= i /\ i <= Len(s) - 1
         /\ e \in Nat /\ i <= e /\ e <= Len(s)
         /\ s[i] = "Forwarding  " /\ s[i + 1] # "\n" /\ s[e] = "\n"
         /\ \A j \in i..Len(s) : s[j] = "\n" => e <= j
<1>1. Len(s) \in Nat
  OBVIOUS
<1>2. i \in 1..Len(s) - 1
  BY DEF UrlAt
<1>3. EndsAt(s, i, e)
  BY DEF UrlAt
<1>4. e \in i..Len(s)
  BY <1>3 DEF EndsAt
<1>5. s[i] = "Forwarding  " /\ s[i + 1] # "\n"
  BY DEF UrlAt
<1>6. s[e] = "\n" /\ \A j \in i..Len(s) : s[j] = "\n" => e <= j
  BY <1>3 DEF EndsAt
<1>7. i \in Nat /\ i + 1 \in Nat /\ 1 <= i /\ i <= Len(s) - 1 /\ i \in 1..Len(s)
  BY <1>1, <1>2
<1>8. e \in Nat /\ i <= e /\ e <= Len(s)
  BY <1>1, <1>4, <1>7
<1> QED BY <1>1, <1>2, <1>4, <1>5, <1>6, <1>7, <1>8

LEMMA UrlPlace ==
  ASSUME NEW s \in Seq(STRING)
  PROVE  /\ \A p \in Urls(s) : \E i, e : UrlAt(s, i, e) /\ p = <<i + 1, e - 1>>
         /\ \A i, e : UrlAt(s, i, e) => <<i + 1, e - 1>> \in Urls(s)
<1>1. ASSUME NEW p \in Urls(s)
      PROVE  \E i, e : UrlAt(s, i, e) /\ p = <<i + 1, e - 1>>
  <2>1. PICK i \in 1..Len(s) - 1 :
          /\ s[i] = "Forwarding  " /\ s[i + 1] # "\n" /\ LineEnds(s, i) # {}
          /\ p = <<i + 1, FirstOf(LineEnds(s, i)) - 1>>
    BY DEF Urls
  <2>2. i \in 1..Len(s)
    OBVIOUS
  <2>3. EndsAt(s, i, FirstOf(LineEnds(s, i)))
    BY <2>1, <2>2, LineEnd
  <2> QED BY <2>1, <2>3 DEF UrlAt
<1>2. ASSUME NEW i, NEW e, UrlAt(s, i, e)
      PROVE  <<i + 1, e - 1>> \in Urls(s)
  <2>1. i \in 1..Len(s) - 1 /\ i \in 1..Len(s)
    BY <1>2, UrlWithin
  <2>2. LineEnds(s, i) # {} /\ FirstOf(LineEnds(s, i)) = e
    BY <1>2, <2>1, LineEnd DEF UrlAt
  <2> QED BY <1>2, <2>1, <2>2 DEF UrlAt, Urls
<1> QED BY <1>1, <1>2

-----------------------------------------------------------------------------
(* Reading on.                                                             *)

(* What was read so far.                                                   *)
Begins(s, o) == Len(s) <= Len(o) /\ \A k \in 1..Len(s) : s[k] = o[k]

(* A url in it is one in the whole output.                                 *)
LEMMA UrlKept ==
  ASSUME NEW s \in Seq(STRING), NEW o \in Seq(STRING), Begins(s, o),
         NEW i, NEW e, UrlAt(s, i, e)
  PROVE  UrlAt(o, i, e)
<1>1. /\ Len(s) \in Nat /\ Len(o) \in Nat /\ Len(s) <= Len(o)
      /\ i \in 1..Len(s) - 1 /\ e \in i..Len(s)
  <2>1. Len(o) \in Nat /\ Len(s) <= Len(o)
    BY DEF Begins
  <2> QED BY <2>1, UrlWithin
<1>2. s[i] = o[i] /\ s[i + 1] = o[i + 1] /\ s[e] = o[e]
  BY <1>1 DEF Begins
<1>3. ASSUME NEW j \in i..Len(o), o[j] = "\n"
      PROVE  e <= j
  <2>1. CASE j <= Len(s)
    <3>1. s[j] = "\n"
      BY <1>1, <1>3, <2>1 DEF Begins
    <3>2. j \in i..Len(s)
      BY <1>1, <2>1
    <3> QED BY <3>1, <3>2, UrlWithin
  <2>2. CASE ~ (j <= Len(s))
    BY <1>1, <2>2
  <2> QED BY <2>1, <2>2
<1>4. i \in 1..Len(o) - 1 /\ e \in i..Len(o)
  BY <1>1
<1>5. s[i] = "Forwarding  " /\ s[i + 1] # "\n" /\ s[e] = "\n"
  BY UrlWithin
<1> QED BY <1>2, <1>3, <1>4, <1>5 DEF UrlAt, EndsAt

(* One in the whole output of which the line had ended was read already.   *)
LEMMA UrlSeen ==
  ASSUME NEW s \in Seq(STRING), NEW o \in Seq(STRING), Begins(s, o),
         NEW k, NEW e, UrlAt(o, k, e), e <= Len(s)
  PROVE  UrlAt(s, k, e)
<1>1. /\ Len(s) \in Nat /\ Len(o) \in Nat /\ Len(s) <= Len(o)
      /\ k \in 1..Len(o) - 1 /\ e \in k..Len(o) /\ e \in Nat
  <2>1. Len(s) \in Nat /\ Len(s) <= Len(o)
    BY DEF Begins
  <2> QED BY <2>1, UrlWithin
<1>2. o[k] = "Forwarding  " /\ o[k + 1] # "\n" /\ o[e] = "\n"
  BY UrlWithin
<1>3. e # k
  BY <1>2
<1>4. k \in 1..Len(s) - 1 /\ e \in k..Len(s)
  BY <1>1, <1>3
<1>5. s[k] = o[k] /\ s[k + 1] = o[k + 1] /\ s[e] = o[e]
  BY <1>1, <1>4 DEF Begins
<1>6. ASSUME NEW j \in k..Len(s), s[j] = "\n"
      PROVE  e <= j
  <2>1. j \in k..Len(o) /\ o[j] = "\n"
    BY <1>1, <1>6 DEF Begins
  <2> QED BY <2>1 DEF UrlAt, EndsAt
<1> QED BY <1>2, <1>4, <1>5, <1>6 DEF UrlAt, EndsAt

(* The first url in what was read is the first in the whole output.        *)
LEMMA FirstUrlKept ==
  ASSUME NEW s \in Seq(STRING), NEW o \in Seq(STRING), Begins(s, o), Urls(s) # {}
  PROVE  \E i, e : /\ UrlAt(s, i, e)
                   /\ Captured(s, Urls(s)) = SubSeq(s, i + 1, e - 1)
                   /\ Captured(o, Urls(o)) = SubSeq(o, i + 1, e - 1)
<1>1. ASSUME NEW t \in Seq(STRING)
      PROVE  \A p \in Urls(t) : p[1] \in Nat
  <2>1. ASSUME NEW p \in Urls(t)
        PROVE  p[1] \in Nat
    <3>1. PICK i, e : UrlAt(t, i, e) /\ p = <<i + 1, e - 1>>
      BY UrlPlace
    <3>2. i + 1 \in Nat
      BY <3>1, UrlWithin
    <3> QED BY <3>1, <3>2
  <2> QED BY <2>1
<1>2. PICK p \in Urls(s) : /\ \A r \in Urls(s) : p[1] <= r[1]
                           /\ Captured(s, Urls(s)) = SubSeq(s, p[1], p[2])
  BY <1>1, CapturedFirst
<1>3. PICK i, e : UrlAt(s, i, e) /\ p = <<i + 1, e - 1>>
  BY UrlPlace
<1>4. UrlAt(o, i, e) /\ p \in Urls(o)
  BY <1>3, UrlKept, UrlPlace
<1>5. PICK q \in Urls(o) : /\ \A r \in Urls(o) : q[1] <= r[1]
                           /\ Captured(o, Urls(o)) = SubSeq(o, q[1], q[2])
  BY <1>1, <1>4, CapturedFirst
<1>6. PICK k, f : UrlAt(o, k, f) /\ q = <<k + 1, f - 1>>
  BY UrlPlace
<1>7. /\ k \in Nat /\ f \in Nat /\ i \in Nat /\ e \in Nat
      /\ i <= e /\ e <= Len(s) /\ Len(o) \in Nat /\ e <= Len(o)
  BY <1>3, <1>4, <1>6, UrlWithin
<1>8. k <= i
  <2>1. q[1] <= p[1]
    BY <1>4, <1>5
  <2>2. k + 1 <= i + 1
    BY <2>1, <1>3, <1>6
  <2> QED BY <1>7, <2>2
<1>9. f <= e
  <2>1. e \in k..Len(o)
    BY <1>7, <1>8
  <2>2. o[e] = "\n"
    BY <1>4, UrlWithin
  <2> QED BY <1>6, <2>1, <2>2, UrlWithin
<1>10. UrlAt(s, k, f)
  <2>1. f <= Len(s)
    BY <1>7, <1>9
  <2> QED BY <1>6, <2>1, UrlSeen
<1>11. k = i
  <2>1. q \in Urls(s)
    BY <1>6, <1>10, UrlPlace
  <2>2. p[1] <= q[1]
    BY <1>2, <2>1
  <2>3. i + 1 <= k + 1
    BY <2>2, <1>3, <1>6
  <2> QED BY <1>7, <1>8, <2>3
<1>12. e = f
  <2>1. f \in k..Len(o) /\ o[f] = "\n"
    BY <1>6, <1>7, UrlWithin
  <2>2. e <= f
    BY <1>4, <1>11, <2>1, UrlWithin
  <2> QED BY <1>7, <1>9, <2>2
<1>13. /\ Captured(s, Urls(s)) = SubSeq(s, i + 1, e - 1)
       /\ Captured(o, Urls(o)) = SubSeq(o, i + 1, e - 1)
  BY <1>2, <1>3, <1>5, <1>6, <1>11, <1>12
<1> QED BY <1>3, <1>13

(* A piece of what was read is that piece of the whole output.             *)
LEMMA PieceKept ==
  ASSUME NEW s \in Seq(STRING), NEW o \in Seq(STRING), Begins(s, o),
         NEW a \in Nat, NEW b \in Nat, 1 <= a, a <= b, b <= Len(s)
  PROVE  SubSeq(s, a, b) = SubSeq(o, a, b) /\ SubSeq(s, a, b) \in Seq(STRING)
<1>1. Len(s) \in Nat /\ Len(o) \in Nat /\ Len(s) <= Len(o)
  BY DEF Begins
<1>2. \A i \in a..b : s[i] \in STRING /\ o[i] \in STRING /\ s[i] = o[i]
  BY <1>1 DEF Begins
<1>3. /\ SubSeq(s, a, b) \in Seq(STRING) /\ Len(SubSeq(s, a, b)) = b - a + 1
      /\ \A i \in 1..b - a + 1 : SubSeq(s, a, b)[i] = s[a + i - 1]
  BY <1>2, SubSeqProperties
<1>4. /\ SubSeq(o, a, b) \in Seq(STRING) /\ Len(SubSeq(o, a, b)) = b - a + 1
      /\ \A i \in 1..b - a + 1 : SubSeq(o, a, b)[i] = o[a + i - 1]
  BY <1>2, SubSeqProperties
<1>5. \A i \in 1..b - a + 1 : a + i - 1 \in a..b
  OBVIOUS
<1>6. SubSeq(s, a, b) = SubSeq(o, a, b)
  BY <1>2, <1>3, <1>4, <1>5, SeqEqual
<1> QED BY <1>3, <1>6

-----------------------------------------------------------------------------
(* Error codes.                                                            *)

(* A code in what was read is the beginning of one in the whole output,    *)
(* where it may go on.                                                     *)
LEMMA CodeKept ==
  ASSUME NEW s \in Seq(STRING), NEW o \in Seq(STRING), Begins(s, o), Codes(s) # {}
  PROVE  /\ Captured(s, Codes(s)) \in Seq(STRING)
         /\ \E p \in Codes(o) :
              /\ Captured(s, Codes(s)) = SubSeq(o, p[1], p[1] + Len(Captured(s, Codes(s))) - 1)
              /\ p[1] + Len(Captured(s, Codes(s))) - 1 <= p[2]
<1> DEFINE Ends(t, i) == {j \in i + 1..Len(t) : j = Len(t) \/ t[j + 1] \notin CodeCells}
<1>1. ASSUME NEW t \in Seq(STRING), NEW i \in 1..Len(t) - 1
      PROVE  /\ Ends(t, i) \in SUBSET Nat /\ Ends(t, i) # {}
             /\ FirstOf(Ends(t, i)) \in Ends(t, i)
             /\ FirstOf(Ends(t, i)) \in i + 1..Len(t)
  <2>1. Len(t) \in Nat /\ i \in Nat
    OBVIOUS
  <2>2. Len(t) \in i + 1..Len(t)
    BY <2>1
  <2>3. Ends(t, i) \in SUBSET Nat /\ Len(t) \in Ends(t, i)
    BY <2>1, <2>2
  <2>4. FirstOf(Ends(t, i)) \in Ends(t, i)
    <3> HIDE DEF Ends
    <3> QED BY <2>3, FirstOfLeast
  <2> QED BY <2>3, <2>4
<1>2. ASSUME NEW p \in Codes(s)
      PROVE  \E i \in 1..Len(s) - 1 : /\ s[i] = "ERR_" /\ s[i + 1] \in CodeCells
                                      /\ p = <<i, FirstOf(Ends(s, i))>>
  BY DEF Codes
<1>3. ASSUME NEW p \in Codes(s)
      PROVE  p[1] \in Nat
  <2>1. PICK i \in 1..Len(s) - 1 : p = <<i, FirstOf(Ends(s, i))>>
    BY <1>2
  <2> QED BY <2>1
<1>4. PICK p \in Codes(s) : Captured(s, Codes(s)) = SubSeq(s, p[1], p[2])
  BY <1>3, CapturedFirst
<1>5. PICK i \in 1..Len(s) - 1 : /\ s[i] = "ERR_" /\ s[i + 1] \in CodeCells
                                 /\ p = <<i, FirstOf(Ends(s, i))>>
  BY <1>2
<1>6. PICK e \in Ends(s, i) :
        /\ e \in Nat /\ i + 1 <= e /\ e <= Len(s)
        /\ \A j \in Ends(s, i) : e <= j
        /\ p = <<i, e>>
  <2>1. /\ Ends(s, i) \in SUBSET Nat /\ Ends(s, i) # {}
        /\ FirstOf(Ends(s, i)) \in i + 1..Len(s)
    BY <1>1
  <2>2. /\ FirstOf(Ends(s, i)) \in Ends(s, i)
        /\ \A j \in Ends(s, i) : FirstOf(Ends(s, i)) <= j
    <3> HIDE DEF Ends
    <3> QED BY <2>1, FirstOfLeast
  <2> HIDE DEF Ends
  <2>3. FirstOf(Ends(s, i)) \in Nat /\ i + 1 <= FirstOf(Ends(s, i)) /\ FirstOf(Ends(s, i)) <= Len(s)
    BY <2>1, <2>2
  <2> QED BY <1>5, <2>2, <2>3
<1>7. Len(s) \in Nat /\ Len(o) \in Nat /\ Len(s) <= Len(o) /\ i \in Nat /\ 1 <= i
  BY DEF Begins
<1>8. i \in 1..Len(o) - 1 /\ o[i] = "ERR_" /\ o[i + 1] \in CodeCells
  <2>1. i \in 1..Len(o) - 1 /\ i \in 1..Len(s) /\ i + 1 \in 1..Len(s)
    BY <1>7
  <2> QED BY <1>5, <2>1 DEF Begins
<1>9. PICK f \in Ends(o, i) : f \in i + 1..Len(o) /\ <<i, f>> \in Codes(o)
  BY <1>1, <1>8 DEF Codes
<1>10. e <= f
  <2>1. CASE f < Len(s)
    <3>1. f \in i + 1..Len(s) /\ f + 1 \in 1..Len(s) /\ f # Len(o) /\ s[f + 1] = o[f + 1]
      BY <1>7, <1>9, <2>1 DEF Begins
    <3>2. f \in Ends(s, i)
      BY <1>9, <3>1
    <3> QED BY <1>6, <3>2
  <2>2. CASE ~ (f < Len(s))
    BY <1>6, <1>7, <1>9, <2>2
  <2> QED BY <2>1, <2>2
<1> DEFINE c == SubSeq(s, i, e)
<1>11. Captured(s, Codes(s)) = c
  BY <1>4, <1>6
<1>12. c = SubSeq(o, i, e) /\ c \in Seq(STRING)
  <2>1. i <= e
    BY <1>6, <1>7
  <2> QED BY <1>6, <1>7, <2>1, PieceKept
<1>13. Len(c) = e - i + 1
  <2>1. \A j \in i..e : s[j] \in STRING
    BY <1>6, <1>7
  <2>2. Len(c) = IF i <= e THEN e - i + 1 ELSE 0
    BY <1>6, <1>7, <2>1, SubSeqProperties
  <2> QED BY <1>6, <1>7, <2>2
<1> HIDE DEF c
<1>14. i + Len(c) - 1 = e
  BY <1>6, <1>7, <1>13
<1>15. c = SubSeq(o, i, i + Len(c) - 1) /\ i + Len(c) - 1 <= f
  BY <1>10, <1>12, <1>14
<1> QED BY <1>9, <1>11, <1>12, <1>15

-----------------------------------------------------------------------------
(* The invariant.                                                          *)

(* What has been read, after n cells more, is a beginning of the output.   *)
LEMMA ReadPrefix ==
  ASSUME NEW o \in Seq(STRING), NEW n \in 0..Len(o)
  PROVE  /\ SubSeq(o, 1, n) \in Seq(STRING) /\ Len(SubSeq(o, 1, n)) = n
         /\ Begins(SubSeq(o, 1, n), o)
<1>1. n \in Nat /\ Len(o) \in Nat /\ n <= Len(o)
  OBVIOUS
<1>2. \A i \in 1..n : o[i] \in STRING
  BY <1>1
<1>3. /\ SubSeq(o, 1, n) \in Seq(STRING)
      /\ Len(SubSeq(o, 1, n)) = IF 1 <= n THEN n - 1 + 1 ELSE 0
      /\ \A i \in 1..n - 1 + 1 : SubSeq(o, 1, n)[i] = o[1 + i - 1]
  BY <1>1, <1>2, SubSeqProperties
<1>4. Len(SubSeq(o, 1, n)) = n
  BY <1>1, <1>3
<1>5. \A i \in 1..n : SubSeq(o, 1, n)[i] = o[i]
  BY <1>1, <1>3
<1> QED BY <1>1, <1>3, <1>4, <1>5 DEF Begins

LEMMA OutputIsText == TypeOK => output \in Seq(STRING)
BY PipesAssumption DEF TypeOK

LEMMA SeenIsText == TypeOK => seen \in Seq(STRING) /\ Len(seen) \in Nat
<1> SUFFICES ASSUME TypeOK PROVE seen \in Seq(STRING) /\ Len(seen) \in Nat
  OBVIOUS
<1>1. output \in Seq(STRING)
  BY OutputIsText
<1>2. seen = SubSeq(output, 1, Len(seen)) /\ Len(seen) <= written /\ written \in 0..Len(output)
  BY DEF TypeOK
<1> QED BY <1>1, <1>2

LEMMA InitInv == Init => IInv
<1> SUFFICES ASSUME Init PROVE IInv
  OBVIOUS
<1>1. output \in Seq(STRING) /\ 0 \in 0..Len(output)
  BY PipesAssumption DEF Init
<1>2. SubSeq(output, 1, 0) = <<>>
  BY <1>1, SubSeqEmpty
<1>3. TypeOK
  <2>1. Len(seen) = 0 /\ seen = SubSeq(output, 1, Len(seen)) /\ Len(seen) <= written
    BY <1>1, <1>2 DEF Init
  <2>2. url \in Seq(STRING) /\ code \in Seq(STRING) /\ written \in 0..Len(output)
    BY <1>1 DEF Init
  <2>3. said \in 0..Verbose /\ unread \in 0..Capacity
    BY PipesAssumption DEF Init
  <2> QED BY <2>1, <2>2, <2>3 DEF Init, TypeOK, Reasons
<1> QED BY <1>3 DEF Init, IInv, UrlWhole, ReasonTrue, MailTrue

(* A read.                                                                 *)
LEMMA ReadChunkInv ==
  ASSUME IInv, ReadChunk
  PROVE  IInv'
<1> DEFINE s == seen'
<1>1. output \in Seq(STRING) /\ output' = output /\ TypeOK /\ mail' = mail /\ ssh' = ssh
      /\ written' = written /\ complaint' = complaint
  BY OutputIsText DEF IInv, ReadChunk, tunnel
<1>2. PICK n \in 1..Chunk : Len(seen) + n <= written /\ s = SubSeq(output, 1, Len(seen) + n)
  BY DEF ReadChunk, Appended
<1>3. Len(seen) \in Nat
  BY <1>1, SeenIsText
<1>4. Len(seen) + n \in 0..Len(output) /\ written \in 0..Len(output)
  BY <1>1, <1>2, <1>3, PipesAssumption DEF TypeOK
<1>5. /\ s \in Seq(STRING) /\ Len(s) = Len(seen) + n /\ Begins(s, output)
  BY <1>1, <1>2, <1>4, ReadPrefix
<1>6. s = SubSeq(output, 1, Len(s)) /\ Len(s) <= written
  BY <1>2, <1>5
<1> HIDE DEF s
<1>7. CASE /\ NotUtf8(s) /\ Fails("parsing") /\ pc' = "stderr" /\ UNCHANGED <<url, code>>
  <2>1. TypeOK'
    BY <1>1, <1>4, <1>6, <1>7 DEF TypeOK, Reasons, Fails, mail, s
  <2>2. \E i \in DOMAIN output : output[i] = "wide"
    <3>1. s # <<>> /\ s[Len(s)] = "wide"
      BY <1>7 DEF NotUtf8
    <3>2. Len(s) \in 1..Len(s) /\ Len(s) \in 1..Len(output)
      BY <1>1, <1>5, <3>1, EmptySeq DEF Begins
    <3> QED BY <1>1, <1>5, <3>1, <3>2 DEF Begins
  <2> QED BY <1>1, <1>7, <2>1, <2>2 DEF IInv, UrlWhole, ReasonTrue, MailTrue, Fails, mail
<1>8. CASE /\ Urls(s) # {} /\ url' = Captured(s, Urls(s)) /\ pc' = "mail"
           /\ UNCHANGED <<reason, code>>
  <2>1. PICK i, e : /\ UrlAt(s, i, e)
                    /\ Captured(s, Urls(s)) = SubSeq(s, i + 1, e - 1)
                    /\ Captured(output, Urls(output)) = SubSeq(output, i + 1, e - 1)
    BY <1>1, <1>5, <1>8, FirstUrlKept
  <2>2. /\ i + 1 \in Nat /\ e - 1 \in Nat /\ 1 <= i + 1 /\ i + 1 <= e - 1 /\ e - 1 <= Len(s)
    <3>1. /\ Len(s) \in Nat /\ i \in Nat /\ 1 <= i /\ i <= Len(s) - 1
          /\ e \in Nat /\ i <= e /\ e <= Len(s)
      BY <1>5, <2>1, UrlWithin
    <3>2. s[i] = "Forwarding  " /\ s[i + 1] # "\n" /\ s[e] = "\n"
      BY <1>5, <2>1, UrlWithin
    <3>3. e # i /\ e # i + 1
      BY <3>2
    <3> QED BY <3>1, <3>3
  <2>3. url' = Captured(output, Urls(output)) /\ url' \in Seq(STRING)
    BY <1>1, <1>5, <1>8, <2>1, <2>2, PieceKept
  <2>4. TypeOK'
    BY <1>1, <1>4, <1>6, <1>8, <2>3 DEF TypeOK, mail, s
  <2> QED BY <1>1, <1>8, <2>3, <2>4 DEF IInv, UrlWhole, ReasonTrue, MailTrue, mail
<1>9. CASE /\ Codes(s) # {} /\ code' = Captured(s, Codes(s)) /\ Fails("service")
           /\ pc' = "stderr" /\ UNCHANGED url
  <2>1. /\ code' \in Seq(STRING)
        /\ \E p \in Codes(output) : /\ code' = SubSeq(output, p[1], p[1] + Len(code') - 1)
                                    /\ p[1] + Len(code') - 1 <= p[2]
    BY <1>1, <1>5, <1>9, CodeKept
  <2>2. TypeOK'
    BY <1>1, <1>4, <1>6, <1>9, <2>1 DEF TypeOK, Reasons, Fails, mail, s
  <2> QED BY <1>1, <1>9, <2>1, <2>2 DEF IInv, UrlWhole, ReasonTrue, MailTrue, Fails, mail
<1>10. CASE UNCHANGED <<pc, url, reason, code>>
  <2>1. TypeOK'
    BY <1>1, <1>4, <1>6, <1>10 DEF TypeOK, mail, s
  <2> QED BY <1>1, <1>10, <2>1 DEF IInv, UrlWhole, ReasonTrue, MailTrue, mail
<1> QED BY <1>7, <1>8, <1>9, <1>10 DEF ReadChunk, s

(* The other steps of the daemon, which leave what was read alone.         *)
LEMMA DaemonInv ==
  ASSUME IInv, SpawnSsh \/ ReadFails \/ SetupTimesOut \/ ReadStderr
  PROVE  IInv'
<1> USE DEF IInv, TypeOK, UrlWhole, ReasonTrue, MailTrue, Reasons, Fails, KillSsh, tunnel,
           parsed, mail
<1>1. CASE SpawnSsh BY <1>1 DEF SpawnSsh
<1>2. CASE ReadFails \/ SetupTimesOut BY <1>2 DEF ReadFails, SetupTimesOut
<1>3. CASE ReadStderr BY <1>3 DEF ReadStderr
<1> QED BY <1>1, <1>2, <1>3

LEMMA SendEmailInv ==
  ASSUME IInv, SpawnSendmail \/ WriteMail \/ Collect \/ MailTimesOut
  PROVE  IInv'
<1> USE PipesAssumption
    DEF IInv, TypeOK, UrlWhole, ReasonTrue, MailTrue, Reasons, MailFails, Fails, KillSsh, parsed
<1>1. CASE SpawnSendmail BY <1>1 DEF SpawnSendmail
<1>2. CASE WriteMail BY <1>2 DEF WriteMail
<1>3. CASE Collect BY <1>3 DEF Collect, Succeeded
<1>4. CASE MailTimesOut BY <1>4 DEF MailTimesOut
<1> QED BY <1>1, <1>2, <1>3, <1>4

LEMMA SshInv ==
  ASSUME IInv, Ssh
  PROVE  IInv'
<1> USE DEF IInv, TypeOK, UrlWhole, ReasonTrue, MailTrue, parsed, mail
<1>1. CASE SshWrites
  <2>1. output \in Seq(STRING) /\ Len(seen) \in Nat
    BY OutputIsText, SeenIsText
  <2>2. written' \in 0..Len(output) /\ Len(seen) <= written'
    BY <1>1, <2>1 DEF SshWrites
  <2> QED BY <1>1, <2>2 DEF SshWrites
<1>2. CASE SshComplains \/ SshEnds BY <1>2 DEF SshComplains, SshEnds
<1> QED BY <1>1, <1>2 DEF Ssh

LEMMA SendmailInv ==
  ASSUME IInv, Sendmail \/ SendmailFails
  PROVE  IInv'
<1> USE PipesAssumption
    DEF IInv, TypeOK, UrlWhole, ReasonTrue, MailTrue, tunnel, parsed
<1>1. CASE SendmailReads BY <1>1 DEF SendmailReads
<1>2. CASE SendmailTalks BY <1>2 DEF SendmailTalks
<1>3. CASE MailDelivered BY <1>3 DEF MailDelivered
<1>4. CASE SendmailSucceeds BY <1>4 DEF SendmailSucceeds
<1>5. CASE SendmailFails BY <1>5 DEF SendmailFails
<1> QED BY <1>1, <1>2, <1>3, <1>4, <1>5 DEF Sendmail

(* The inductive invariant holds in every behaviour.                       *)
THEOREM PipesInvariance == Spec => []IInv
<1>1. IInv /\ UNCHANGED vars => IInv'
  BY DEF IInv, TypeOK, UrlWhole, ReasonTrue, MailTrue, vars, tunnel, parsed, mail
<1>2. IInv /\ [Next]_vars => IInv'
  BY <1>1, ReadChunkInv, DaemonInv, SendEmailInv, SshInv, SendmailInv DEF Next, Daemon
<1> QED BY InitInv, <1>2, PTL DEF Spec

(* Types are correct; in particular what was read is a beginning of what   *)
(* the service wrote (setup_ssh_tunnel, send_email).                       *)
THEOREM PipesTypeCorrect == Spec => []TypeOK
<1>1. IInv => TypeOK BY DEF IInv
<1> QED BY PipesInvariance, <1>1, PTL

(* The url that is mailed is the whole url that the service announced,     *)
(* for every output and every size of a read (setup_ssh_tunnel).           *)
THEOREM UrlTheorem == Spec => []UrlWhole
<1>1. IInv => UrlWhole BY DEF IInv
<1> QED BY PipesInvariance, <1>1, PTL

(* A set-up fails for a reason of the service, or at its time limit, or by *)
(* an error of the system (setup_ssh_tunnel).                              *)
THEOREM ReasonTheorem == Spec => []ReasonTrue
<1>1. IInv => ReasonTrue BY DEF IInv
<1> QED BY PipesInvariance, <1>1, PTL

(* An open is answered with a reference only if the url was mailed         *)
(* (send_email).                                                           *)
THEOREM MailTheorem == Spec => []MailTrue
<1>1. IInv => MailTrue BY DEF IInv
<1> QED BY PipesInvariance, <1>1, PTL
=============================================================================
