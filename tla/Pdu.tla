--------------------------------- MODULE Pdu ---------------------------------
(***************************************************************************)
(* The coding of SMSs (sms_utils.rs): encode_phone_number and              *)
(* encode_message, which with the header written by send_sms make a PDU    *)
(* for the network, and what wait_sms cuts out of the PDUs of others.      *)
(*                                                                         *)
(* A PDU is a sequence of hexadecimal digits, of which 15 is the F that    *)
(* pads numbers.  A text is a sequence of characters, of which only the    *)
(* septets they have in the GSM alphabet and their bytes in UTF-8 matter.  *)
(***************************************************************************)
EXTENDS Naturals, FiniteSets, Sequences, SequencesExt, PhoneNumber

CONSTANTS
  Numbers,  \* numbers of users, without "+": sequences of digits
  Texts     \* what they write, and what is written to them

(* The alphabet: a character of each kind.                                 *)
Chars == {"@", "a", "{", "e acute", "euro"}

(* The network knows no number of more than twenty digits.                 *)
ASSUME PduAssumption ==
  /\ \A n \in Numbers : n \in Seq(0..9) /\ Len(n) <= 20
  /\ \A t \in Texts : t \in Seq(Chars)

VARIABLES
  pc,       \* "typed", "coded", "done"
  way,      \* "in", a user writes to the router, or "out"
  number,   \* the user's number
  text,     \* the message
  pdu,      \* the message on its way
  result    \* what becomes of it at the other end

vars == <<pc, way, number, text, pdu, result>>

-----------------------------------------------------------------------------
(* Characters, septets, octets and hexadecimal digits.                     *)

Escape == 27
Septets(c) ==
  CASE c = "@" -> <<0>> [] c = "a" -> <<97>> [] c = "e acute" -> <<5>>
    [] c = "{" -> <<Escape, 40>> [] c = "euro" -> <<Escape, 101>>
Bytes(c) == CASE c = "e acute" -> 2 [] c = "euro" -> 3 [] OTHER -> 1

(* msg.len()                                                               *)
LenBytes(t) == Cardinality({p \in (DOMAIN t) \X (1..4) : p[2] <= Bytes(t[p[1]])})

Written(t) == FlattenSeq([i \in DOMAIN t |-> Septets(t[i])])

(* What s has at the places P, in its order.                               *)
Keep(s, P) ==
  [k \in 1..Cardinality(P) |->
     s[CHOOSE i \in P : Cardinality({j \in P : j <= i}) = k]]

(* The characters of a sequence of septets: an escape takes the next one.  *)
(* "other" is a character that is none of these, read from a wrong place.  *)
Spelt(s) ==
  LET Escapes(i) == {j \in 1..i - 1 : \A k \in j..i - 1 : s[k] = Escape}
      Begins(i) == Cardinality(Escapes(i)) % 2 = 0 /\ (s[i] = Escape => i < Len(s))
      Group(i) == IF s[i] = Escape /\ i < Len(s) THEN <<Escape, s[i + 1]>> ELSE <<s[i]>>
      Char(i) == IF \E c \in Chars : Septets(c) = Group(i)
                   THEN CHOOSE c \in Chars : Septets(c) = Group(i) ELSE "other"
  IN  Keep([i \in DOMAIN s |-> Char(i)], {i \in DOMAIN s : Begins(i)})

OrZero(s, i) == IF i \in DOMAIN s THEN s[i] ELSE 0

(* Septets one after the other in octets, the last filled up with zeros:   *)
(* the first of eight septets loses no bit to the octet before its own,    *)
(* the next one more each.                                                 *)
Pack(s) ==
  [j \in 1..(7 * Len(s) + 7) \div 8 |->
     LET i == j + (j - 1) \div 7
         k == (j - 1) % 7
     IN  (OrZero(s, i) \div 2^k + OrZero(s, i + 1) * 2^(7 - k)) % 256]
Unpack(o) ==
  [i \in 1..(8 * Len(o)) \div 7 |->
     LET j == i - (i - 1) \div 8
         k == (i - 1) % 8
     IN  (OrZero(o, j - 1) \div 2^(8 - k) + OrZero(o, j) * 2^k) % 128]

(* Mutant: an octet is not split.                                          *)
HexWhole(octets) ==
  [i \in 1..2 * Len(octets) |->
     IF i % 2 = 1 THEN octets[(i + 1) \div 2] \div 16 ELSE octets[i \div 2]]

Hex(octets) ==
  [i \in 1..2 * Len(octets) |->
     IF i % 2 = 1 THEN octets[(i + 1) \div 2] \div 16 ELSE octets[i \div 2] % 16]

(* Mutant: the digits of an octet are swapped, as those of numbers are.    *)
FromHexSwapped(d) == [i \in 1..Len(d) \div 2 |-> d[2 * i - 1] + 16 * d[2 * i]]

FromHex(d) == [i \in 1..Len(d) \div 2 |-> 16 * d[2 * i - 1] + d[2 * i]]
Filler(n) == [i \in 1..n |-> 0]

-----------------------------------------------------------------------------
(* send_sms, and who reads what it sends.                                  *)

Panic == [what |-> "panic"]
Refused == [what |-> "refused"]
Read(n, t) == [what |-> "read", number |-> n, text |-> t]

EncodeMessage(t) == Hex(Pack(Written(t)))

MaxBytes == 140

(* The length of a number is always written as 11.                         *)
Submit(n, t) ==
  <<0, 0, 1, 1, 0, 0, 0, 11, 9, 1>> \o Swap(Padded(n)) \o <<0, 0, 0, 0, 0, 1>>
    \o Hex(<<LenBytes(t) % 256>>) \o EncodeMessage(t)

(* The length in AT+CMGS, of a string that is longer than the PDU by one.  *)
Announced(p) == (Len(p) + 1 - 2) \div 2

(* The network (external): the first field is the length of an address     *)
(* that is not there and is not counted.                                   *)
ReadSubmit(p) ==
  LET size == FromHex(SubSeq(p, 29, 30))[1]
      data == FromHex(SubSeq(p, 31, Len(p)))
  IN  IF Announced(p) = Len(p) \div 2 - 1 /\ Len(data) >= (7 * size + 7) \div 8
        THEN Read(SubSeq(Swap(SubSeq(p, 11, 22)), 1, 11), Spelt(SubSeq(Unpack(data), 1, size)))
        ELSE Refused

-----------------------------------------------------------------------------
(* wait_sms, and who writes what it reads.                                 *)

(* The network (external): service centre, type, the sender and the length *)
(* of its number, nine octets of other things, the length in septets.      *)
Deliver(n, t) ==
  Filler(18) \o Hex(<<Len(n)>>) \o <<9, 1>> \o Swap(IF Len(n) % 2 = 1 THEN Append(n, F) ELSE n)
    \o Filler(18) \o Hex(<<Len(Written(t))>>) \o EncodeMessage(t)

MaxSeptets == 160

(* Where String::truncate cuts a text at n bytes: none is right if that is *)
(* within a character.                                                     *)
Cuts(t, n) == {k \in 0..Len(t) : LenBytes(SubSeq(t, 1, k)) = n}

(* Mutant: the text is not cut.                                            *)
DecodeWhole(data, size) == Read(<<>>, Spelt(Unpack(FromHex(data))))

DecodeMessage(data, size) ==
  LET out == Spelt(Unpack(FromHex(data)))
  IN  IF LenBytes(out) <= size THEN Read(<<>>, out)
      ELSE IF Cuts(out, size) = {} THEN Panic
      ELSE Read(<<>>, SubSeq(out, 1, CHOOSE k \in Cuts(out, size) : TRUE))

DecodeNumber(d) == Keep(Swap(d), {i \in DOMAIN d : Swap(d)[i] # F})

(* Mutant: a message is taken to have at least an octet of text.           *)
ReadDeliverNotEmpty(p) ==
  IF Len(p) < 56 THEN Panic
  ELSE Read(DecodeNumber(SubSeq(p, 23, 34)),
            DecodeMessage(SubSeq(p, 55, Len(p)), FromHex(SubSeq(p, 53, 54))[1]).text)

(* Slices at fixed places, of which one that is not there panics.          *)
ReadDeliver(p) ==
  IF Len(p) < 54 THEN Panic
  ELSE LET message == DecodeMessage(SubSeq(p, 55, Len(p)), FromHex(SubSeq(p, 53, 54))[1])
       IN  IF message = Panic THEN Panic
           ELSE Read(DecodeNumber(SubSeq(p, 23, 34)), message.text)

-----------------------------------------------------------------------------

TypeOK ==
  /\ pc \in {"typed", "coded", "done"} /\ way \in {"in", "out"}
  /\ number \in Numbers /\ text \in Texts
  /\ pdu \in Seq(0..15)
  /\ pc = "done" <=> result.what # "none"

Init ==
  /\ pc = "typed" /\ way \in {"in", "out"}
  /\ number \in Numbers /\ text \in Texts
  /\ pdu = <<>> /\ result = [what |-> "none"]

(* One SMS has a text of at most 160 septets.                              *)
Type ==
  /\ pc = "typed" /\ way = "in" /\ pc' = "coded"
  /\ Len(Written(text)) <= MaxSeptets
  /\ pdu' = Deliver(number, text)
  /\ UNCHANGED <<way, number, text, result>>

(* A message that is too long is not sent, and a number of an odd length   *)
(* beyond the padding is out of bounds.                                    *)
Send ==
  /\ pc = "typed" /\ way = "out"
  /\ \/ /\ LenBytes(text) <= MaxBytes /\ Len(Padded(number)) % 2 = 0
        /\ pc' = "coded" /\ pdu' = Submit(number, text) /\ UNCHANGED result
     \/ /\ LenBytes(text) > MaxBytes
        /\ pc' = "done" /\ result' = Refused /\ UNCHANGED pdu
     \/ /\ LenBytes(text) <= MaxBytes /\ Len(Padded(number)) % 2 = 1
        /\ pc' = "done" /\ result' = Panic /\ UNCHANGED pdu
  /\ UNCHANGED <<way, number, text>>

Receive ==
  /\ pc = "coded" /\ pc' = "done"
  /\ result' = IF way = "in" THEN ReadDeliver(pdu) ELSE ReadSubmit(pdu)
  /\ UNCHANGED <<way, number, text, pdu>>

Next == Type \/ Send \/ Receive

Spec == Init /\ [][Next]_vars

-----------------------------------------------------------------------------
(* Properties.                                                             *)

Plain(t) == \A i \in DOMAIN t : Len(Septets(t[i])) = 1 /\ Bytes(t[i]) = 1

(* A message of characters of one septet and one byte gets through, both   *)
(* ways, to or from a number of eleven digits, whatever is left over in    *)
(* its last octet.                                                         *)
Intact ==
  pc = "done" /\ Plain(text) /\ LenBytes(text) <= MaxBytes /\ Len(number) = 11 =>
    result = Read(number, text)

(* No text of characters of one byte makes wait_sms panic, escapes         *)
(* included, from numbers of eleven digits or more.                        *)
NoPanic ==
  way = "in" /\ Len(number) \in 11..12 /\ (\A i \in DOMAIN text : Bytes(text[i]) = 1) =>
    result # Panic

(* Whatever a text is made of, wait_sms reads its number and its           *)
(* characters from the first one on, with at most one more, the "@" of a   *)
(* last octet that was not full.  With characters of one byte, none is cut *)
(* off.                                                                    *)
HeardAsWritten ==
  pc = "done" /\ way = "in" /\ Len(number) \in 11..12 /\ result # Panic =>
    /\ result.number = number
    /\ IsPrefix(result.text, Append(text, "@"))
    /\ (\A i \in DOMAIN text : Bytes(text[i]) = 1) => Len(result.text) >= Len(text)

(* "len is specified in terms of septets" (sms_utils.rs:64): of a PDU that *)
(* send_sms has built, the length of the text is its number of septets.    *)
SizeInSeptets ==
  pc = "coded" /\ way = "out" =>
    FromHex(SubSeq(pdu, 29, 30))[1] = Len(Written(text))

=============================================================================
