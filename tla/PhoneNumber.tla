----------------------------- MODULE PhoneNumber -----------------------------
(***************************************************************************)
(* The digits of a number in a PDU (encode_phone_number and                *)
(* decode_phone_number in sms_utils.rs): padded on the right and swapped   *)
(* two by two.                                                             *)
(***************************************************************************)
EXTENDS Naturals, Sequences

(* The digit that pads.                                                    *)
F == 15

Padding == 12

(* format!("{:F<12}")                                                      *)
Padded(n) == [i \in 1..(IF Len(n) < Padding THEN Padding ELSE Len(n)) |->
                IF i <= Len(n) THEN n[i] ELSE F]

(* chunks(2), of which each is turned around; the length is even.          *)
Swap(d) == [i \in 1..Len(d) |-> d[IF i % 2 = 1 THEN i + 1 ELSE i - 1]]
=============================================================================
