---------------------------- MODULE SmsPortProofs ----------------------------
(***************************************************************************)
(* Theorems about SmsPort: for any SMSs, lengths of PDUs, sizes of the     *)
(* buffer, numbers of calls and starts, and faults.                        *)
(***************************************************************************)
EXTENDS SmsPort, SequenceTheorems, FiniteSetTheorems, TLAPS

-----------------------------------------------------------------------------
(* What is on the port.                                                    *)

(* What a read takes from the port and what it leaves.                     *)
LEMMA Cut ==
  ASSUME NEW s \in Seq(Cells), NEW n \in 0..Len(s)
  PROVE  /\ SubSeq(s, 1, n) \in Seq(Cells) /\ Len(SubSeq(s, 1, n)) = n
         /\ \A i \in 1..n : SubSeq(s, 1, n)[i] = s[i]
         /\ SubSeq(s, n + 1, Len(s)) \in Seq(Cells)
         /\ Len(SubSeq(s, n + 1, Len(s))) = Len(s) - n
         /\ \A i \in 1..Len(s) - n : SubSeq(s, n + 1, Len(s))[i] = s[n + i]
<1>1. Len(s) \in Nat /\ \A i \in 1..Len(s) : s[i] \in Cells
  BY ElementOfSeq
<1>2. /\ \A i \in 1..n : s[i] \in Cells
      /\ \A i \in n + 1..Len(s) : s[i] \in Cells
  BY <1>1
<1>3. /\ SubSeq(s, 1, n) \in Seq(Cells)
      /\ Len(SubSeq(s, 1, n)) = IF 1 <= n THEN n - 1 + 1 ELSE 0
      /\ \A i \in 1..n - 1 + 1 : SubSeq(s, 1, n)[i] = s[1 + i - 1]
  BY <1>1, <1>2, SubSeqProperties
<1>4. /\ SubSeq(s, n + 1, Len(s)) \in Seq(Cells)
      /\ Len(SubSeq(s, n + 1, Len(s))) = IF n + 1 <= Len(s) THEN Len(s) - (n + 1) + 1 ELSE 0
      /\ \A i \in 1..Len(s) - (n + 1) + 1 : SubSeq(s, n + 1, Len(s))[i] = s[n + 1 + i - 1]
  BY <1>1, <1>2, SubSeqProperties
<1>5. Len(SubSeq(s, 1, n)) = n /\ \A i \in 1..n : SubSeq(s, 1, n)[i] = s[i]
  BY <1>1, <1>3
<1>6. /\ Len(SubSeq(s, n + 1, Len(s))) = Len(s) - n
      /\ \A i \in 1..Len(s) - n : SubSeq(s, n + 1, Len(s))[i] = s[n + i]
  BY <1>1, <1>4
<1> QED BY <1>3, <1>4, <1>5, <1>6

(* What is left has nothing that was not there, and keeps its order; what  *)
(* followed a prompt that was taken is neither a prompt nor an OK.         *)
LEMMA CutKeeps ==
  ASSUME NEW s \in Seq(Cells), NEW n \in 0..Len(s)
  PROVE  /\ \A t : Has(SubSeq(s, n + 1, Len(s)), t) => Has(s, t)
         /\ \A t : Has(SubSeq(s, 1, n), t) => Has(s, t)
         /\ PromptLast(s) => PromptLast(SubSeq(s, n + 1, Len(s)))
         /\ PromptLast(s) /\ Has(SubSeq(s, 1, n), ">") =>
              /\ ~Has(SubSeq(s, n + 1, Len(s)), ">")
              /\ ~Has(SubSeq(s, n + 1, Len(s)), "OK")
<1> DEFINE f == SubSeq(s, 1, n)
           r == SubSeq(s, n + 1, Len(s))
<1>1. /\ Len(s) \in Nat /\ DOMAIN s = 1..Len(s)
      /\ DOMAIN f = 1..n /\ DOMAIN r = 1..Len(s) - n
      /\ \A i \in 1..n : f[i] = s[i]
      /\ \A i \in 1..Len(s) - n : r[i] = s[n + i]
  <2>1. f \in Seq(Cells) /\ r \in Seq(Cells) /\ Len(f) = n /\ Len(r) = Len(s) - n
    BY Cut
  <2> QED BY <2>1, Cut, LenProperties
<1> HIDE DEF f, r
<1>2. /\ \A i \in DOMAIN f : i \in DOMAIN s /\ f[i] = s[i]
      /\ \A i \in DOMAIN r : n + i \in DOMAIN s /\ r[i] = s[n + i]
      /\ \A i \in DOMAIN f, j \in DOMAIN r : i < n + j
      /\ \A i, j \in DOMAIN r : i < j => n + i < n + j
  BY <1>1
<1>3. \A t : (Has(r, t) => Has(s, t)) /\ (Has(f, t) => Has(s, t))
  BY <1>2 DEF Has
<1>4. PromptLast(s) => PromptLast(r)
  BY <1>2 DEF PromptLast
<1>5. ASSUME PromptLast(s), Has(f, ">") PROVE ~Has(r, ">") /\ ~Has(r, "OK")
  <2>1. PICK i \in DOMAIN f : f[i].text = ">"
    BY <1>5 DEF Has
  <2>2. ASSUME NEW j \in DOMAIN r PROVE r[j].text \notin {">", "OK"}
    BY <1>2, <1>5, <2>1 DEF PromptLast
  <2> QED BY <2>2 DEF Has
<1> QED BY <1>3, <1>4, <1>5 DEF f, r

(* What the modem writes comes after what is there.                        *)
LEMMA Join ==
  ASSUME NEW s \in Seq(Cells), NEW r \in Seq(Cells)
  PROVE  /\ s \o r \in Seq(Cells)
         /\ \A t : Has(s \o r, t) <=> Has(s, t) \/ Has(r, t)
         /\ PromptLast(s) /\ ~Has(r, ">") /\ ~Has(r, "OK") => PromptLast(s \o r)
         /\ ~Has(s, ">") /\ PromptLast(r) => PromptLast(s \o r)
<1> DEFINE w == s \o r
<1>1. /\ w \in Seq(Cells)
      /\ Len(s) \in Nat /\ DOMAIN s = 1..Len(s)
      /\ Len(r) \in Nat /\ DOMAIN r = 1..Len(r)
      /\ DOMAIN w = 1..Len(s) + Len(r)
      /\ \A i \in 1..Len(s) + Len(r) : w[i] = IF i <= Len(s) THEN s[i] ELSE r[i - Len(s)]
  BY ConcatProperties, LenProperties
<1> HIDE DEF w
<1>2. /\ \A i \in DOMAIN s : i \in DOMAIN w /\ w[i] = s[i]
      /\ \A i \in DOMAIN r : Len(s) + i \in DOMAIN w /\ w[Len(s) + i] = r[i]
      /\ \A i \in DOMAIN w : \/ i \in DOMAIN s /\ w[i] = s[i]
                             \/ /\ i - Len(s) \in DOMAIN r /\ w[i] = r[i - Len(s)]
                                /\ i \notin DOMAIN s
  <2>1. ASSUME NEW i \in DOMAIN r
        PROVE  Len(s) + i \in DOMAIN w /\ w[Len(s) + i] = r[i]
    <3>1. Len(s) + i \in 1..Len(s) + Len(r) /\ ~(Len(s) + i <= Len(s)) /\ Len(s) + i - Len(s) = i
      BY <1>1
    <3> QED BY <1>1, <3>1
  <2>2. \A i \in DOMAIN s : i \in DOMAIN w /\ w[i] = s[i]
    BY <1>1
  <2>3. ASSUME NEW i \in DOMAIN w, ~(i \in DOMAIN s)
        PROVE  i - Len(s) \in DOMAIN r /\ w[i] = r[i - Len(s)]
    BY <1>1, <2>3
  <2> QED BY <2>1, <2>2, <2>3
<1>3. \A t : Has(w, t) <=> Has(s, t) \/ Has(r, t)
  BY <1>2 DEF Has
<1>4. ASSUME NEW i \in DOMAIN w, NEW j \in DOMAIN w, i < j
      PROVE  \/ i \in DOMAIN s /\ j \in DOMAIN s
             \/ j - Len(s) \in DOMAIN r /\ w[j] = r[j - Len(s)] /\ i \in DOMAIN s
             \/ /\ i - Len(s) \in DOMAIN r /\ j - Len(s) \in DOMAIN r /\ i - Len(s) < j - Len(s)
                /\ w[i] = r[i - Len(s)] /\ w[j] = r[j - Len(s)]
  BY <1>1, <1>2, <1>4
<1>5. ASSUME PromptLast(s), ~Has(r, ">"), ~Has(r, "OK") PROVE PromptLast(w)
  BY <1>2, <1>4, <1>5 DEF PromptLast, Has
<1>6. ASSUME ~Has(s, ">"), PromptLast(r) PROVE PromptLast(w)
  BY <1>2, <1>4, <1>6 DEF PromptLast, Has
<1> QED BY <1>1, <1>3, <1>5, <1>6 DEF w

(* The pieces of text the modem writes.                                    *)
LEMMA Texts ==
  ASSUME NEW t \in {">", "OK", "ERROR"}
  PROVE  /\ Answer(t) \in Seq(Cells) /\ PromptLast(Answer(t))
         /\ \A u : Has(Answer(t), u) <=> u \in {"break", t}
<1>1. Cell("break") \in Cells /\ Cell(t) \in Cells
  BY DEF Cell, Cells
<1>2. Answer(t) \in Seq(Cells) /\ DOMAIN Answer(t) = {1, 2}
      /\ Answer(t)[1].text = "break" /\ Answer(t)[2].text = t
  BY <1>1 DEF Answer, Cell
<1>3. PromptLast(Answer(t))
  BY <1>2 DEF PromptLast
<1>4. \A u : Has(Answer(t), u) <=> u \in {"break", t}
  BY <1>2 DEF Has
<1> QED BY <1>2, <1>3, <1>4

LEMMA EchoText ==
  ASSUME NEW c
  PROVE  /\ Echo(c) \in Seq(Cells) /\ \A u : Has(Echo(c), u) => u = "echo"
         /\ Len(Echo(c)) \in 0..3
<1> DEFINE n == IF c = "pdu" THEN 3 ELSE 2
<1>1. n \in 0..3 /\ Cell("echo") \in Cells
  BY DEF Cell, Cells
<1> HIDE DEF n
<1>2. Echo(c) = [i \in 1..n |-> Cell("echo")]
  BY DEF Echo, n
<1>3. Echo(c) \in Seq(Cells) /\ Len(Echo(c)) = n
  BY <1>1, <1>2
<1>4. \A u : Has(Echo(c), u) => u = "echo"
  BY <1>2 DEF Has, Cell
<1> QED BY <1>1, <1>3, <1>4

LEMMA IndicationText ==
  ASSUME NEW m \in Sms
  PROVE  /\ Indication(m) \in Seq(Cells)
         /\ ~Has(Indication(m), ">") /\ ~Has(Indication(m), "OK")
<1> DEFINE n == Body[m] + 2
           e(i) == [text |-> IF i = 1 THEN "+CMT" ELSE IF i = n THEN "end" ELSE "PDU", sms |-> m]
<1>1. n \in Nat /\ \A i \in 1..n : e(i) \in Cells /\ e(i).text \notin {">", "OK"}
  BY PortAssumption DEF Cells
<1>2. Indication(m) = [i \in 1..n |-> e(i)]
  BY DEF Indication
<1> HIDE DEF n, e
<1>3. Indication(m) \in Seq(Cells)
  BY <1>1, <1>2
<1>4. ~Has(Indication(m), ">") /\ ~Has(Indication(m), "OK")
  BY <1>1, <1>2 DEF Has
<1> QED BY <1>3, <1>4

(* The SMSs in a text.                                                     *)
LEMMA SmsInText ==
  ASSUME NEW s \in Seq(Cells)
  PROVE  SmsIn(s) \subseteq Sms /\ Matches(s) \subseteq SmsIn(s)
<1>1. SmsIn(s) \subseteq Sms
  <2>1. \A i \in DOMAIN s : s[i] \in Cells
    BY ElementOfSeq, LenProperties
  <2>2. \A x \in Cells : x.sms \in Sms \cup {NoSms}
    BY DEF Cells
  <2> QED BY <2>1, <2>2 DEF SmsIn
<1>2. Matches(s) \subseteq SmsIn(s)
  BY Zenon DEF Matches
<1> QED BY <1>1, <1>2

-----------------------------------------------------------------------------
(* What the modem was told.                                                *)

LEMMA QueueWritten ==
  ASSUME todo \in Seq(Commands), rx \in Seq(Commands), NEW e \in Commands,
         todo' = todo, rx' = Append(rx, e)
  PROVE  Queue' = Append(Queue, e) /\ rx' \in Seq(Commands)
<1>1. <<e>> \in Seq(Commands) /\ Queue \in Seq(Commands) /\ rx' \in Seq(Commands)
  BY ConcatProperties, AppendProperties DEF Queue
<1>2. Append(rx, e) = rx \o <<e>> /\ Append(Queue, e) = Queue \o <<e>>
  BY <1>1, AppendIsConcat
<1>3. todo \o (rx \o <<e>>) = (todo \o rx) \o <<e>>
  BY <1>1, ConcatAssociative
<1> QED BY <1>1, <1>2, <1>3 DEF Queue

LEMMA QueueEchoed ==
  ASSUME todo \in Seq(Commands), rx \in Seq(Commands), rx # <<>>,
         rx' = Tail(rx), todo' = Append(todo, Head(rx))
  PROVE  Queue' = Queue /\ rx' \in Seq(Commands) /\ todo' \in Seq(Commands)
<1> DEFINE h == Head(rx)
<1>1. h \in Commands /\ Tail(rx) \in Seq(Commands) /\ <<h>> \in Seq(Commands)
  BY HeadTailProperties
<1>2. <<h>> \o Tail(rx) = rx
  <2>1. /\ <<h>> \o Tail(rx) \in Seq(Commands)
        /\ Len(<<h>> \o Tail(rx)) = Len(<<h>>) + Len(Tail(rx))
        /\ \A i \in 1..Len(<<h>>) + Len(Tail(rx)) :
             (<<h>> \o Tail(rx))[i] = IF i <= Len(<<h>>) THEN <<h>>[i] ELSE Tail(rx)[i - Len(<<h>>)]
    BY <1>1, ConcatProperties
  <2>2. /\ Len(<<h>>) = 1 /\ <<h>>[1] = rx[1] /\ Len(rx) \in Nat \ {0}
        /\ Len(Tail(rx)) = Len(rx) - 1
        /\ \A i \in 1..Len(Tail(rx)) : Tail(rx)[i] = rx[i + 1]
    BY HeadTailProperties, EmptySeq
  <2>3. ASSUME NEW i \in 1..Len(rx) PROVE (<<h>> \o Tail(rx))[i] = rx[i]
    <3>1. CASE i = 1 BY <2>1, <2>2, <3>1
    <3>2. CASE i # 1
      <4>1. i - 1 \in 1..Len(Tail(rx)) /\ ~(i <= 1) /\ i \in 1..1 + Len(Tail(rx)) /\ i - 1 + 1 = i
        BY <2>2, <3>2
      <4> QED BY <2>1, <2>2, <4>1
    <3> QED BY <3>1, <3>2
  <2>4. Len(<<h>> \o Tail(rx)) = Len(rx)
    BY <2>1, <2>2
  <2> QED BY <2>1, <2>3, <2>4, SeqEqual
<1>3. Append(todo, h) = todo \o <<h>> /\ Append(todo, h) \in Seq(Commands)
  BY <1>1, AppendIsConcat, AppendProperties
<1>4. (todo \o <<h>>) \o Tail(rx) = todo \o (<<h>> \o Tail(rx))
  BY <1>1, ConcatAssociative
<1> QED BY <1>1, <1>2, <1>3, <1>4 DEF Queue

LEMMA QueueActed ==
  ASSUME todo \in Seq(Commands), rx \in Seq(Commands), todo # <<>>,
         rx' = rx, todo' = Tail(todo)
  PROVE  /\ Queue \in Seq(Commands) /\ Queue # <<>> /\ Queue' = Tail(Queue)
         /\ Head(todo) = Queue[1] /\ Head(todo) \in Commands /\ todo' \in Seq(Commands)
<1>1. /\ Head(todo) \in Commands /\ Tail(todo) \in Seq(Commands)
      /\ Len(todo) \in Nat \ {0} /\ Len(Tail(todo)) = Len(todo) - 1
      /\ \A i \in 1..Len(Tail(todo)) : Tail(todo)[i] = todo[i + 1]
      /\ Len(rx) \in Nat
  BY HeadTailProperties, EmptySeq, LenProperties
<1>2. /\ Queue \in Seq(Commands) /\ Len(Queue) = Len(todo) + Len(rx)
      /\ \A i \in 1..Len(todo) + Len(rx) :
           Queue[i] = IF i <= Len(todo) THEN todo[i] ELSE rx[i - Len(todo)]
  BY ConcatProperties DEF Queue
<1>3. Queue # <<>>
  BY <1>1, <1>2, EmptySeq
<1>4. /\ Queue' \in Seq(Commands) /\ Len(Queue') = Len(Tail(todo)) + Len(rx)
      /\ \A i \in 1..Len(Tail(todo)) + Len(rx) :
           Queue'[i] = IF i <= Len(Tail(todo)) THEN Tail(todo)[i] ELSE rx[i - Len(Tail(todo))]
  BY <1>1, ConcatProperties DEF Queue
<1>5. /\ Tail(Queue) \in Seq(Commands) /\ Len(Tail(Queue)) = Len(Queue) - 1
      /\ \A i \in 1..Len(Tail(Queue)) : Tail(Queue)[i] = Queue[i + 1]
  BY <1>2, <1>3, HeadTailProperties
<1>6. Len(Queue') = Len(Tail(Queue))
  BY <1>1, <1>2, <1>4, <1>5
<1>7. ASSUME NEW i \in 1..Len(Queue') PROVE Queue'[i] = Tail(Queue)[i]
  <2>1. i \in 1..Len(Tail(todo)) + Len(rx) /\ i + 1 \in 1..Len(todo) + Len(rx)
        /\ i \in 1..Len(Tail(Queue))
    BY <1>1, <1>2, <1>4, <1>5
  <2>2. CASE i <= Len(Tail(todo))
    BY <1>1, <1>2, <1>4, <1>5, <2>1, <2>2
  <2>3. CASE ~(i <= Len(Tail(todo)))
    <3>1. ~(i + 1 <= Len(todo)) /\ i + 1 - Len(todo) = i - Len(Tail(todo))
      BY <1>1, <2>3
    <3>2. Queue'[i] = rx[i - Len(Tail(todo))]
      BY <1>4, <2>1, <2>3
    <3>3. Queue[i + 1] = rx[i + 1 - Len(todo)]
      BY <1>2, <2>1, <3>1
    <3>4. Tail(Queue)[i] = Queue[i + 1]
      BY <1>5, <2>1
    <3> QED BY <3>1, <3>2, <3>3, <3>4
  <2> QED BY <2>2, <2>3
<1>8. Queue' = Tail(Queue)
  BY <1>4, <1>5, <1>6, <1>7, SeqEqual
<1>9. Head(todo) = Queue[1]
  BY <1>1, <1>2
<1> QED BY <1>1, <1>2, <1>3, <1>8, <1>9

LEMMA PdusWritten ==
  ASSUME NEW q \in Seq(Commands), NEW e \in Commands
  PROVE  /\ Len(Append(q, e)) = Len(q) + 1 /\ Append(q, e)[Len(q) + 1] = e
         /\ e.cmd # "pdu" => PdusIn(Append(q, e)) = PdusIn(q)
         /\ e.cmd = "pdu" => PdusIn(Append(q, e)) = PdusIn(q) \cup {Len(q) + 1}
<1>1. /\ Len(q) \in Nat /\ DOMAIN q = 1..Len(q)
      /\ DOMAIN Append(q, e) = 1..Len(q) + 1
      /\ Len(Append(q, e)) = Len(q) + 1
      /\ \A i \in 1..Len(q) : Append(q, e)[i] = q[i]
      /\ Append(q, e)[Len(q) + 1] = e
  BY AppendProperties, LenProperties
<1> QED BY <1>1 DEF PdusIn

LEMMA PdusActed ==
  ASSUME NEW q \in Seq(Commands), q # <<>>
  PROVE  /\ Len(q) \in Nat \ {0} /\ Len(Tail(q)) = Len(q) - 1
         /\ Tail(q) \in Seq(Commands)
         /\ \A i \in 1..Len(q) - 1 : Tail(q)[i] = q[i + 1]
         /\ \A i \in PdusIn(Tail(q)) : i \in 1..Len(q) - 1 /\ i + 1 \in PdusIn(q)
         /\ \A i \in PdusIn(q) : i \in 1..Len(q) /\ (i > 1 => i - 1 \in PdusIn(Tail(q)))
         /\ q[1].cmd = "pdu" <=> 1 \in PdusIn(q)
<1>1. /\ Len(q) \in Nat \ {0} /\ DOMAIN q = 1..Len(q)
      /\ Tail(q) \in Seq(Commands) /\ DOMAIN Tail(q) = 1..Len(q) - 1
      /\ Len(Tail(q)) = Len(q) - 1
      /\ \A i \in 1..Len(q) - 1 : Tail(q)[i] = q[i + 1]
  BY HeadTailProperties, EmptySeq, LenProperties
<1>2. ASSUME NEW i \in PdusIn(q)
      PROVE  i \in 1..Len(q) /\ (i > 1 => i - 1 \in PdusIn(Tail(q)))
  <2>1. i \in 1..Len(q) /\ q[i].cmd = "pdu"
    BY <1>1 DEF PdusIn
  <2>2. ASSUME i > 1 PROVE i - 1 \in 1..Len(q) - 1 /\ i - 1 + 1 = i
    BY <1>1, <2>1, <2>2
  <2> QED BY <1>1, <2>1, <2>2 DEF PdusIn
<1>3. \A i \in PdusIn(Tail(q)) : i \in 1..Len(q) - 1 /\ i + 1 \in PdusIn(q)
  BY <1>1 DEF PdusIn
<1>4. q[1].cmd = "pdu" <=> 1 \in PdusIn(q)
  BY <1>1 DEF PdusIn
<1> QED BY <1>1, <1>2, <1>3, <1>4

-----------------------------------------------------------------------------
(* The invariant.                                                          *)

Places == {"down", "idle", "wait"} \cup Transactions

LEMMA SizesFit ==
  ASSUME line \in Seq(Cells), NEW n \in Nat
  PROVE  \A k \in ReadSizes(n) : k \in 0..Len(line) /\ k <= n
<1>1. Len(line) \in Nat
  BY LenProperties
<1> QED BY <1>1, PortAssumption DEF ReadSizes

(* What a read does, whatever it is for.                                   *)
LEMMA ReadStep ==
  ASSUME TypeOK, NEW n \in 0..Len(line), NEW heard, heard \subseteq SmsIn(First(n)),
         Take(n, heard)
  PROVE  /\ line' \in Seq(Cells)
         /\ handled' \subseteq Sms /\ lost' \subseteq Sms /\ pending' \subseteq Sms
         /\ \A t : Has(line', t) => Has(line, t)
         /\ \A t : Has(First(n), t) => Has(line, t)
         /\ PromptLast(line) => PromptLast(line')
         /\ PromptLast(line) /\ Has(First(n), ">") => ~Has(line', ">") /\ ~Has(line', "OK")
<1>1. line \in Seq(Cells) /\ line' = SubSeq(line, n + 1, Len(line)) /\ First(n) = SubSeq(line, 1, n)
  BY DEF TypeOK, Take, First
<1>2. line' \in Seq(Cells) /\ First(n) \in Seq(Cells)
  BY <1>1, Cut
<1>3. SmsIn(First(n)) \subseteq Sms
  BY <1>2, SmsInText
<1>4. handled' \subseteq Sms /\ lost' \subseteq Sms /\ pending' \subseteq Sms
  BY <1>3 DEF TypeOK, Take
<1> QED BY <1>1, <1>2, <1>4, CutKeeps

(* A step that only reads, to whatever end.                                *)
LEMMA QuietInv ==
  ASSUME OrderInv, NEW n \in 0..Len(line), NEW heard, heard \subseteq SmsIn(First(n)), Take(n, heard),
         UNCHANGED <<rx, todo, modemState, restarted, call, accepted, starts>>,
         pc' \in Places, pc' \in {"cmgs", "pdu"} => pc' = pc, left' \in 0..3,
         confirmed' \subseteq 1..call, ~restarted => confirmed' \subseteq accepted
  PROVE  OrderInv'
<1>1. TypeOK
  BY DEF OrderInv
<1>2. /\ line' \in Seq(Cells)
      /\ handled' \subseteq Sms /\ lost' \subseteq Sms /\ pending' \subseteq Sms
      /\ \A t : Has(line', t) => Has(line, t)
      /\ PromptLast(line) => PromptLast(line')
  BY <1>1, ReadStep
<1>3. TypeOK'
  BY <1>1, <1>2 DEF TypeOK, Places, modemState
<1>4. Queue' = Queue /\ modem' = modem /\ sending' = sending
  BY DEF Queue, modemState
<1>5. PromptOrder => PromptOrder'
  BY <1>2, <1>4 DEF PromptOrder, AtPrompt
<1>6. AwaitingAnswer => AwaitingAnswer'
  BY <1>2, <1>4 DEF AwaitingAnswer
<1>7. Numbered'
  BY <1>4 DEF OrderInv, Numbered
<1> QED BY <1>3, <1>5, <1>6, <1>7 DEF OrderInv, OkTrue

LEMMA ReadEchoInv == OrderInv /\ ReadEcho => OrderInv'
<1> SUFFICES ASSUME OrderInv, ReadEcho PROVE OrderInv'
  OBVIOUS
<1>1. line \in Seq(Cells) /\ left \in 0..3 /\ confirmed \subseteq 1..call
      /\ (~restarted => confirmed \subseteq accepted) /\ pc \in Places
  BY DEF OrderInv, TypeOK, OkTrue, Places
<1>2. PICK n \in ReadSizes(left) : left' = left - n /\ Take(n, {})
  BY DEF ReadEcho
<1>3. n \in 0..Len(line) /\ n <= left
  BY <1>1, <1>2, SizesFit
<1>4. left' \in 0..3
  BY <1>1, <1>2, <1>3
<1>5. /\ UNCHANGED <<rx, todo, modemState, restarted, call, accepted, starts>>
      /\ pc' = pc /\ confirmed' = confirmed
  BY DEF ReadEcho, outcomes
<1> QED BY <1>1, <1>2, <1>3, <1>4, <1>5, QuietInv

(* The call returns: the rest of the port may be dropped too.              *)
LEMMA CloseInv ==
  ASSUME OrderInv, NEW n \in 0..Len(line), NEW heard, heard \subseteq SmsIn(First(n)),
         TakeAndClose(n, heard),
         UNCHANGED <<rx, todo, modemState, restarted, call, accepted, starts>>,
         pc' \in Places, pc' \notin {"cmgs", "pdu"}, left' \in 0..3,
         confirmed' \subseteq 1..call, ~restarted => confirmed' \subseteq accepted
  PROVE  OrderInv'
<1>1. line \in Seq(Cells) /\ Len(line) \in Nat
  BY LenProperties DEF OrderInv, TypeOK
<1>2. PICK d \in {n} \cup {Len(line)} : Take(d, heard)
  BY DEF TakeAndClose
<1>3. d \in 0..Len(line) /\ n <= d
  BY <1>1, <1>2
<1>4. heard \subseteq SmsIn(First(d))
  <2>1. /\ DOMAIN First(n) = 1..n /\ DOMAIN First(d) = 1..d
        /\ \A i \in 1..n : First(n)[i] = line[i]
        /\ \A i \in 1..d : First(d)[i] = line[i]
    BY <1>1, <1>3, Cut, LenProperties DEF First
  <2>2. \A i \in 1..n : i \in 1..d
    BY <1>3
  <2> QED BY <2>1, <2>2 DEF SmsIn
<1> QED BY <1>2, <1>3, <1>4, QuietInv

LEMMA ReturnInv ==
  ASSUME OrderInv, Succeed \/ Refused \/ Hear
  PROVE  OrderInv'
<1>1. /\ line \in Seq(Cells) /\ Len(line) \in Nat /\ left \in 0..3 /\ call \in Nat
      /\ confirmed \subseteq 1..call /\ accepted \subseteq 1..call
      /\ ~restarted => confirmed \subseteq accepted
      /\ Buffer \in Nat
  BY LenProperties, PortAssumption DEF OrderInv, TypeOK, OkTrue
<1>2. \A k \in ReadSizes(Buffer) : k \in 0..Len(line)
  BY <1>1, SizesFit
<1>3. CASE Succeed
  <2>1. PICK n \in ReadSizes(Buffer) : Expected(First(n)) /\ TakeAndClose(n, {})
    BY <1>3 DEF Succeed
  <2>2. n \in 0..Len(line)
    BY <1>2, <2>1
  <2>3. pc = "pdu" => Has(line, "OK")
    <3>1. Has(First(n), "OK") => Has(line, "OK")
      BY <1>1, <2>2, CutKeeps DEF First
    <3> QED BY <2>1, <3>1 DEF Expected
  <2>4. pc = "pdu" /\ ~restarted => call \in accepted
    BY <2>3 DEF OrderInv, AwaitingAnswer
  <2>5. /\ UNCHANGED <<rx, todo, modemState, restarted, call, accepted, starts, left>>
        /\ pc' = "idle" /\ pc \in {"cnmi", "pdu"}
        /\ confirmed' = (IF pc = "pdu" THEN confirmed \cup {call} ELSE confirmed)
    BY <1>3 DEF Succeed
  <2>6. pc = "pdu" => call \in 1..call
    BY <1>1 DEF OrderInv, Numbered
  <2>7. confirmed' \subseteq 1..call /\ (~restarted => confirmed' \subseteq accepted)
    BY <1>1, <2>4, <2>5, <2>6
  <2> QED BY <1>1, <2>1, <2>2, <2>5, <2>7, CloseInv DEF Places
<1>4. CASE Refused
  <2>1. PICK n \in ReadSizes(Buffer) : TakeAndClose(n, {})
    BY <1>4 DEF Refused
  <2>2. /\ UNCHANGED <<rx, todo, modemState, restarted, call, accepted, starts, left, confirmed>>
        /\ pc' \in {"down", "idle"}
    BY <1>4 DEF Refused, FailsTo, outcomes
  <2> QED BY <1>1, <1>2, <2>1, <2>2, CloseInv DEF Places
<1>5. CASE Hear
  <2>1. PICK n \in ReadSizes(Buffer) : TakeAndClose(n, Matches(First(n)))
    BY <1>5 DEF Hear
  <2>2. /\ UNCHANGED <<rx, todo, modemState, restarted, call, accepted, starts, left, confirmed>>
        /\ pc' = "idle"
    BY <1>5 DEF Hear, outcomes
  <2>3. Matches(First(n)) \subseteq SmsIn(First(n))
    BY <1>1, <1>2, <2>1, Cut, SmsInText DEF First
  <2> QED BY <1>1, <1>2, <2>1, <2>2, <2>3, CloseInv DEF Places
<1> QED BY <1>3, <1>4, <1>5

LEMMA AbandonInv ==
  ASSUME OrderInv, NEW to \in {"idle", "down"}, Abandon(to)
  PROVE  OrderInv'
<1>1. /\ Len(line) \in Nat /\ 0 \in 0..Len(line) /\ confirmed \subseteq 1..call
      /\ ~restarted => confirmed \subseteq accepted
  BY LenProperties DEF OrderInv, TypeOK, OkTrue
<1>2. /\ TakeAndClose(0, {}) /\ pc' = to /\ left' = 0 /\ confirmed' = confirmed
      /\ UNCHANGED <<rx, todo, modemState, restarted, call, accepted, starts>>
  BY DEF Abandon, outcomes
<1> QED BY <1>1, <1>2, CloseInv DEF Places

LEMMA InterruptedInv ==
  ASSUME OrderInv, SendTimesOut \/ ListenTimesOut \/ IoError \/ Die
  PROVE  OrderInv'
BY AbandonInv DEF SendTimesOut, ListenTimesOut, IoError, Die, FailsTo

LEMMA ListeningInv ==
  ASSUME OrderInv, Listen \/ IgnoreContent
  PROVE  OrderInv'
<1>1. CASE Listen
  <2>1. UNCHANGED <<left, line, rx, todo, modem, sending, forward, restarted, call, accepted,
                    confirmed, pending, handled, lost, starts>>
        /\ pc' = "wait" /\ Queue' = Queue
    BY <1>1 DEF Listen, buffers, modemState, outcomes, messages, Queue
  <2> QED BY <2>1 DEF OrderInv, TypeOK, Numbered, OkTrue, PromptOrder, AtPrompt, AwaitingAnswer
<1>2. CASE IgnoreContent
  <2>1. line \in Seq(Cells) /\ Buffer \in Nat /\ left \in 0..3 /\ pc \in Places
        /\ confirmed \subseteq 1..call /\ (~restarted => confirmed \subseteq accepted)
    BY PortAssumption DEF OrderInv, TypeOK, OkTrue, Places
  <2>2. PICK n \in ReadSizes(Buffer) : Take(n, {})
    BY <1>2 DEF IgnoreContent
  <2>3. n \in 0..Len(line)
    BY <2>1, <2>2, SizesFit
  <2>4. /\ UNCHANGED <<rx, todo, modemState, restarted, call, accepted, starts>>
        /\ pc' = pc /\ left' = left /\ confirmed' = confirmed
    BY <1>2 DEF IgnoreContent, outcomes
  <2> QED BY <2>1, <2>2, <2>3, <2>4, QuietInv
<1> QED BY <1>1, <1>2

-----------------------------------------------------------------------------
(* Writing.                                                                *)

(* A command is written while what may be left of the port is in order; a  *)
(* PDU after the prompt was read.                                          *)
LEMMA WriteInv ==
  ASSUME OrderInv, NEW c \in Transactions, Write(c), pc' = c,
         call' \in 0..MaxCalls, call' = call \/ call' = call + 1,
         c \in {"cmgs", "pdu"} => call' # 0,
         UNCHANGED <<todo, modemState, restarted, outcomes>>, starts' \in 0..MaxStarts,
         line' \in Seq(Cells), handled' \subseteq Sms, lost' \subseteq Sms, pending' \subseteq Sms,
         \A t : Has(line', t) => Has(line, t),
         PromptLast(line) => PromptLast(line'),
         c = "pdu" /\ PromptLast(line) =>
           Has(line, ">") /\ ~Has(line', ">") /\ ~Has(line', "OK")
  PROVE  OrderInv'
<1> DEFINE e == [cmd |-> c, call |-> IF c \in {"cmgs", "pdu"} THEN call' ELSE 0]
<1>1. /\ e \in Commands /\ e.cmd = c /\ (c = "pdu" => e.call = call')
      /\ call \in Nat /\ call' \in Nat /\ call <= call'
  BY PortAssumption DEF Commands, OrderInv, TypeOK
<1>2. rx' = Append(rx, e) /\ left' = Len(Echo(c))
  BY DEF Write
<1> HIDE DEF e
<1>3. todo \in Seq(Commands) /\ rx \in Seq(Commands) /\ todo' = todo
  BY DEF OrderInv, TypeOK
<1>4. Queue' = Append(Queue, e) /\ rx' \in Seq(Commands)
  BY <1>1, <1>2, <1>3, QueueWritten
<1>5. Queue \in Seq(Commands) /\ Len(Queue) \in Nat
  BY <1>3, ConcatProperties, LenProperties DEF Queue
<1>6. /\ Len(Queue') = Len(Queue) + 1 /\ Queue'[Len(Queue) + 1] = e
      /\ c # "pdu" => PdusIn(Queue') = PdusIn(Queue)
      /\ c = "pdu" => PdusIn(Queue') = PdusIn(Queue) \cup {Len(Queue) + 1}
      /\ \A i \in PdusIn(Queue) : Queue'[i] = Queue[i]
  BY <1>1, <1>4, <1>5, PdusWritten, AppendProperties, LenProperties DEF PdusIn
<1>7. TypeOK'
  <2>1. left' \in 0..3
    BY <1>2, EchoText
  <2>2. accepted' \subseteq 1..call' /\ confirmed' \subseteq 1..call'
    BY <1>1 DEF OrderInv, TypeOK, outcomes
  <2> QED BY <1>3, <1>4, <2>1, <2>2 DEF OrderInv, TypeOK, modemState
<1>8. Numbered'
  <2>1. modem' = "busy" => sending' \in 1..call'
    BY <1>1 DEF OrderInv, Numbered, TypeOK, modemState
  <2>2. \A i \in PdusIn(Queue') : Queue'[i].call \in 1..call'
    <3>1. \A i \in PdusIn(Queue) : Queue'[i].call \in 1..call'
      BY <1>1, <1>6 DEF OrderInv, Numbered
    <3>2. c = "pdu" => call' \in 1..call'
      BY <1>1
    <3> QED BY <1>1, <1>6, <3>1, <3>2
  <2> QED BY <2>1, <2>2 DEF Numbered
<1>9. OkTrue'
  BY DEF OrderInv, OkTrue, outcomes
<1>10. ASSUME ~restarted PROVE PromptOrder' /\ AwaitingAnswer'
  <2>1. PromptOrder /\ modem' = modem /\ sending' = sending
    BY <1>10 DEF OrderInv, modemState
  <2>2. c = "pdu" => /\ Has(line, ">") /\ ~Has(line', ">") /\ ~Has(line', "OK")
                     /\ PdusIn(Queue) = {} /\ AtPrompt
    BY <2>1 DEF PromptOrder
  <2>3. PromptOrder'
    BY <1>6, <2>1, <2>2 DEF PromptOrder, AtPrompt
  <2>4. AwaitingAnswer'
    BY <1>1, <1>6, <2>2 DEF AwaitingAnswer
  <2> QED BY <2>3, <2>4
<1> QED BY <1>7, <1>8, <1>9, <1>10 DEF OrderInv

LEMMA WritingInv ==
  ASSUME OrderInv, StartInit \/ BeginSend \/ Proceed
  PROVE  OrderInv'
<1>1. /\ line \in Seq(Cells) /\ call \in 0..MaxCalls /\ starts \in 0..MaxStarts
      /\ handled \subseteq Sms /\ lost \subseteq Sms /\ pending \subseteq Sms
      /\ MaxCalls \in Nat /\ MaxStarts \in Nat /\ Buffer \in Nat
  BY PortAssumption DEF OrderInv, TypeOK
<1>2. CASE StartInit
  <2>1. /\ Write("cmgf") /\ pc' = "cmgf" /\ call' = call /\ line' = line
        /\ UNCHANGED <<todo, modemState, restarted, outcomes, handled, lost, pending>>
        /\ starts' \in 0..MaxStarts
    BY <1>1, <1>2 DEF StartInit, messages
  <2> QED BY <1>1, <2>1, WriteInv DEF Transactions
<1>3. CASE BeginSend
  <2>1. /\ Write("cmgs") /\ pc' = "cmgs" /\ line' = line
        /\ UNCHANGED <<todo, modemState, restarted, outcomes, handled, lost, pending, starts>>
        /\ call' = call + 1 /\ call' \in 0..MaxCalls /\ call' # 0
    BY <1>1, <1>3 DEF BeginSend, messages
  <2> QED BY <1>1, <2>1, WriteInv DEF Transactions
<1>4. CASE Proceed
  <2>1. PICK n \in ReadSizes(Buffer) : Expected(First(n)) /\ Take(n, {})
    BY <1>4 DEF Proceed
  <2>2. n \in 0..Len(line) /\ TypeOK
    BY <1>1, <2>1, SizesFit DEF OrderInv
  <2>3. /\ line' \in Seq(Cells) /\ handled' \subseteq Sms /\ lost' \subseteq Sms /\ pending' \subseteq Sms
        /\ \A t : Has(line', t) => Has(line, t)
        /\ Has(First(n), ">") => Has(line, ">")
        /\ PromptLast(line) => PromptLast(line')
        /\ PromptLast(line) /\ Has(First(n), ">") => ~Has(line', ">") /\ ~Has(line', "OK")
    BY <2>1, <2>2, ReadStep
  <2>4. /\ Write(pc') /\ call' = call /\ pc \in {"cmgf", "cmgs"}
        /\ pc' = (IF pc = "cmgf" THEN "cnmi" ELSE "pdu")
        /\ UNCHANGED <<todo, modemState, restarted, outcomes, starts>>
    BY <1>4 DEF Proceed
  <2>5. /\ pc' \in Transactions /\ (pc' \in {"cmgs", "pdu"} => call' # 0)
        /\ pc' = "pdu" => Has(First(n), ">")
    BY <2>1, <2>4 DEF Transactions, Expected, OrderInv, Numbered
  <2>6. pc' = "pdu" /\ PromptLast(line) =>
          Has(line, ">") /\ ~Has(line', ">") /\ ~Has(line', "OK")
    BY <2>3, <2>5
  <2> QED BY <1>1, <2>3, <2>4, <2>5, <2>6, WriteInv
<1> QED BY <1>2, <1>3, <1>4

-----------------------------------------------------------------------------
(* The modem.                                                              *)

(* What the modem writes reaches the port, or is lost.                     *)
LEMMA EmitStep ==
  ASSUME TypeOK, NEW r \in Seq(Cells), Emit(r)
  PROVE  /\ line' \in Seq(Cells) /\ lost' \subseteq Sms
         /\ \A t : Has(line', t) => Has(line, t) \/ Has(r, t)
         /\ PromptLast(line) /\ ~Has(r, ">") /\ ~Has(r, "OK") => PromptLast(line')
         /\ PromptLast(line) /\ ~Has(line, ">") /\ PromptLast(r) => PromptLast(line')
<1>1. line \in Seq(Cells) /\ lost \subseteq Sms /\ SmsIn(r) \subseteq Sms
  BY SmsInText DEF TypeOK
<1>2. CASE line' = line \o r /\ UNCHANGED lost
  BY <1>1, <1>2, Join
<1>3. CASE lost' = lost \cup SmsIn(r) /\ UNCHANGED line
  BY <1>1, <1>3
<1> QED BY <1>2, <1>3 DEF Emit

LEMMA EchoCommandInv == OrderInv /\ EchoCommand => OrderInv'
<1> SUFFICES ASSUME OrderInv, EchoCommand PROVE OrderInv'
  OBVIOUS
<1>1. TypeOK /\ todo \in Seq(Commands) /\ rx \in Seq(Commands)
  BY DEF OrderInv, TypeOK
<1>2. /\ rx # <<>> /\ rx' = Tail(rx) /\ todo' = Append(todo, Head(rx)) /\ Emit(Echo(Head(rx).cmd))
      /\ UNCHANGED <<pc, left, modem, sending, forward, restarted, call, accepted, confirmed,
                     pending, handled, starts>>
  BY DEF EchoCommand, modemState, outcomes
<1>3. Queue' = Queue /\ rx' \in Seq(Commands) /\ todo' \in Seq(Commands)
  BY <1>1, <1>2, QueueEchoed
<1>4. /\ line' \in Seq(Cells) /\ lost' \subseteq Sms
      /\ \A t \in {">", "OK"} : Has(line', t) => Has(line, t)
      /\ PromptLast(line) => PromptLast(line')
  <2>1. LET r == Echo(Head(rx).cmd) IN r \in Seq(Cells) /\ ~Has(r, ">") /\ ~Has(r, "OK")
    BY EchoText
  <2> QED BY <1>1, <1>2, <2>1, EmitStep
<1>5. TypeOK'
  BY <1>1, <1>2, <1>3, <1>4 DEF TypeOK
<1>6. Numbered' /\ OkTrue'
  BY <1>2, <1>3 DEF OrderInv, Numbered, OkTrue
<1>7. ~restarted => PromptOrder' /\ AwaitingAnswer'
  BY <1>2, <1>3, <1>4 DEF OrderInv, PromptOrder, AtPrompt, AwaitingAnswer
<1> QED BY <1>2, <1>5, <1>6, <1>7 DEF OrderInv

LEMMA ForwardInv == OrderInv /\ Forward => OrderInv'
<1> SUFFICES ASSUME OrderInv, Forward PROVE OrderInv'
  OBVIOUS
<1>1. TypeOK
  BY DEF OrderInv
<1>2. PICK m \in pending : pending' = pending \ {m} /\ Emit(Indication(m))
  BY DEF Forward
<1>3. /\ UNCHANGED <<pc, left, rx, todo, modem, sending, forward, restarted, call, accepted,
                     confirmed, handled, starts>>
      /\ Queue' = Queue
  BY DEF Forward, modemState, outcomes, Queue
<1>4. /\ line' \in Seq(Cells) /\ lost' \subseteq Sms
      /\ \A t \in {">", "OK"} : Has(line', t) => Has(line, t)
      /\ PromptLast(line) => PromptLast(line')
  <2>1. m \in Sms
    BY <1>1 DEF TypeOK
  <2>2. /\ Indication(m) \in Seq(Cells)
        /\ ~Has(Indication(m), ">") /\ ~Has(Indication(m), "OK")
    BY <2>1, IndicationText
  <2> QED BY <1>1, <1>2, <2>2, EmitStep
<1>5. TypeOK'
  BY <1>1, <1>2, <1>3, <1>4 DEF TypeOK
<1>6. Numbered' /\ OkTrue'
  BY <1>3 DEF OrderInv, Numbered, OkTrue
<1>7. ~restarted => PromptOrder' /\ AwaitingAnswer'
  BY <1>3, <1>4 DEF OrderInv, PromptOrder, AtPrompt, AwaitingAnswer
<1> QED BY <1>3, <1>5, <1>6, <1>7 DEF OrderInv

(* A modem that accepts commands has no PDU to come and no prompt unread,  *)
(* so that nobody awaits the answer to a PDU that it was not told.         *)
LEMMA ObeyInv == OrderInv /\ Obey => OrderInv'
<1> SUFFICES ASSUME OrderInv, Obey PROVE OrderInv'
  OBVIOUS
<1>1. TypeOK /\ todo \in Seq(Commands) /\ rx \in Seq(Commands)
  BY DEF OrderInv, TypeOK
<1>2. /\ modem = "command" /\ todo # <<>> /\ todo' = Tail(todo)
      /\ UNCHANGED <<pc, left, rx, sending, restarted, call, accepted, confirmed, pending,
                     handled, starts>>
  BY DEF Obey, Act, outcomes
<1>3. PICK t \in {">", "OK", "ERROR"} :
        /\ Emit(Answer(t)) /\ modem' = (IF t = ">" THEN "prompt" ELSE "command")
        /\ forward' \in BOOLEAN
  BY <1>1, <1>2 DEF Obey, TypeOK
<1>4. /\ line' \in Seq(Cells) /\ lost' \subseteq Sms
      /\ \A u : Has(line', u) => Has(line, u) \/ u \in {"break", t}
      /\ PromptLast(line) /\ ~Has(line, ">") => PromptLast(line')
  <2>1. Answer(t) \in Seq(Cells) /\ PromptLast(Answer(t))
        /\ \A u : Has(Answer(t), u) <=> u \in {"break", t}
    BY Texts
  <2> QED BY <1>1, <1>3, <2>1, EmitStep
<1>5. /\ Queue \in Seq(Commands) /\ Queue # <<>> /\ Queue' = Tail(Queue)
      /\ todo' \in Seq(Commands)
  BY <1>1, <1>2, QueueActed
<1>6. /\ Len(Queue) \in Nat
      /\ \A i \in 1..Len(Queue) - 1 : Queue'[i] = Queue[i + 1]
      /\ \A i \in PdusIn(Queue') : i \in 1..Len(Queue) - 1 /\ i + 1 \in PdusIn(Queue)
  BY <1>5, PdusActed
<1>7. TypeOK'
  BY <1>1, <1>2, <1>3, <1>4, <1>5 DEF TypeOK
<1>8. Numbered' /\ OkTrue'
  <2>1. \A i \in PdusIn(Queue') : Queue'[i].call \in 1..call'
    BY <1>2, <1>6 DEF OrderInv, Numbered
  <2> QED BY <1>2, <1>3, <2>1 DEF OrderInv, Numbered, OkTrue
<1>9. ASSUME ~restarted PROVE PromptOrder' /\ AwaitingAnswer'
  <2>1. /\ PromptLast(line) /\ ~Has(line, ">") /\ PdusIn(Queue) = {}
    BY <1>2, <1>9 DEF OrderInv, PromptOrder, AtPrompt
  <2>2. PdusIn(Queue') = {}
    BY <1>6, <2>1
  <2>3. PromptOrder'
    BY <1>3, <1>4, <2>1, <2>2 DEF PromptOrder, AtPrompt
  <2>4. pc # "pdu"
    BY <1>2, <1>5, <1>9, <2>1 DEF OrderInv, AwaitingAnswer
  <2> QED BY <1>2, <2>3, <2>4 DEF AwaitingAnswer
<1> QED BY <1>2, <1>7, <1>8, <1>9 DEF OrderInv

(* At the prompt, the first PDU is the only one, and the last word.        *)
LEMMA PromptedInv == OrderInv /\ Prompted => OrderInv'
<1> SUFFICES ASSUME OrderInv, Prompted PROVE OrderInv'
  OBVIOUS
<1>1. TypeOK /\ todo \in Seq(Commands) /\ rx \in Seq(Commands)
  BY DEF OrderInv, TypeOK
<1>2. /\ todo # <<>> /\ todo' = Tail(todo) /\ AtPrompt
      /\ UNCHANGED <<pc, left, rx, forward, restarted, call, accepted, confirmed, pending,
                     handled, starts>>
  BY DEF Prompted, Act, outcomes, AtPrompt
<1>3. /\ Queue \in Seq(Commands) /\ Queue # <<>> /\ Queue' = Tail(Queue)
      /\ Head(todo) = Queue[1] /\ Head(todo) \in Commands /\ todo' \in Seq(Commands)
  BY <1>1, <1>2, QueueActed
<1>4. /\ Len(Queue) \in Nat \ {0} /\ Len(Queue') = Len(Queue) - 1
      /\ Queue' \in Seq(Commands)
      /\ \A i \in 1..Len(Queue) - 1 : Queue'[i] = Queue[i + 1]
      /\ \A i \in PdusIn(Queue') : i \in 1..Len(Queue) - 1 /\ i + 1 \in PdusIn(Queue)
      /\ \A i \in PdusIn(Queue) : i \in 1..Len(Queue) /\ (i > 1 => i - 1 \in PdusIn(Queue'))
      /\ Queue[1].cmd = "pdu" <=> 1 \in PdusIn(Queue)
  BY <1>3, PdusActed
<1>5. /\ line' \in Seq(Cells) /\ lost' \subseteq Sms
      /\ \A t \in {">", "OK"} : Has(line', t) => Has(line, t)
      /\ PromptLast(line) => PromptLast(line')
  <2>1. /\ Answer("ERROR") \in Seq(Cells)
        /\ ~Has(Answer("ERROR"), ">") /\ ~Has(Answer("ERROR"), "OK")
    BY Texts
  <2>2. CASE Emit(Answer("ERROR"))
    BY <1>1, <2>1, <2>2, EmitStep
  <2>3. CASE UNCHANGED <<line, lost>>
    BY <1>1, <2>3 DEF TypeOK
  <2> QED BY <2>2, <2>3 DEF Prompted
<1>6. \/ Queue[1].cmd = "pdu" /\ modem' = "busy" /\ sending' = Queue[1].call
      \/ Queue[1].cmd = "pdu" /\ modem' = "command" /\ sending' = sending
      \/ Queue[1].cmd # "pdu" /\ modem' = "spoilt" /\ sending' = sending
  BY <1>3 DEF Prompted
<1>7. TypeOK'
  <2>1. Queue[1].call \in 0..MaxCalls
    BY <1>3 DEF Commands
  <2> QED BY <1>1, <1>2, <1>3, <1>5, <1>6, <2>1 DEF TypeOK
<1>8. Numbered' /\ OkTrue'
  <2>1. \A i \in PdusIn(Queue') : Queue'[i].call \in 1..call'
    BY <1>2, <1>4 DEF OrderInv, Numbered
  <2>2. modem' = "busy" => sending' \in 1..call'
    BY <1>2, <1>4, <1>6 DEF OrderInv, Numbered
  <2> QED BY <1>2, <2>1, <2>2 DEF OrderInv, Numbered, OkTrue
<1>9. ASSUME ~restarted PROVE PromptOrder' /\ AwaitingAnswer'
  <2>1. PromptOrder /\ AwaitingAnswer
    BY <1>9 DEF OrderInv
  <2>2. CASE Queue[1].cmd = "pdu"
    <3>1. PdusIn(Queue') = {} /\ ~Has(line, ">")
      <4>1. \A i \in PdusIn(Queue') : i + 1 = 1
        BY <1>4, <2>1, <2>2 DEF PromptOrder
      <4> QED BY <1>4, <2>1, <2>2, <4>1 DEF PromptOrder
    <3>2. PromptOrder'
      BY <1>5, <2>1, <3>1 DEF PromptOrder
    <3>3. ASSUME pc = "pdu" PROVE Queue' = <<>> /\ ~Has(line', "OK") /\ Queue[1].call = call
      <4>1. Len(Queue) \in PdusIn(Queue) /\ Queue[Len(Queue)].call = call /\ ~Has(line, "OK")
        BY <1>3, <2>1, <3>3 DEF AwaitingAnswer
      <4>2. Len(Queue) = 1
        BY <1>4, <2>1, <2>2, <4>1 DEF PromptOrder
      <4> QED BY <1>4, <1>5, <4>1, <4>2, EmptySeq
    <3>4. AwaitingAnswer'
      BY <1>2, <1>6, <2>2, <3>3 DEF AwaitingAnswer
    <3> QED BY <3>2, <3>4
  <2>3. CASE Queue[1].cmd # "pdu"
    <3>1. modem' = "spoilt"
      BY <1>6, <2>3
    <3>2. PromptOrder'
      <4>1. \A i, j \in PdusIn(Queue') : i = j
        <5>1. \A i, j \in PdusIn(Queue') : i \in Nat /\ j \in Nat /\ i + 1 = j + 1
          BY <1>4, <2>1 DEF PromptOrder
        <5> QED BY <5>1
      <4>2. PdusIn(Queue') # {} => ~Has(line', ">")
        BY <1>4, <1>5, <2>1 DEF PromptOrder
      <4> QED BY <1>5, <2>1, <3>1, <4>1, <4>2 DEF PromptOrder, AtPrompt
    <3>3. ASSUME pc = "pdu"
          PROVE  /\ Len(Queue') \in PdusIn(Queue') /\ Queue'[Len(Queue')].call = call
                 /\ ~Has(line', "OK")
      <4>1. Len(Queue) \in PdusIn(Queue) /\ Queue[Len(Queue)].call = call /\ ~Has(line, "OK")
        BY <1>3, <2>1, <3>3 DEF AwaitingAnswer
      <4>2. Len(Queue) > 1
        BY <1>4, <2>3, <4>1
      <4>3. Len(Queue') \in 1..Len(Queue) - 1 /\ Len(Queue') + 1 = Len(Queue)
        BY <1>4, <4>2
      <4> QED BY <1>4, <1>5, <4>1, <4>2, <4>3
    <3>4. AwaitingAnswer'
      BY <1>2, <3>3 DEF AwaitingAnswer
    <3> QED BY <3>2, <3>4
  <2> QED BY <2>2, <2>3
<1> QED BY <1>2, <1>7, <1>8, <1>9 DEF OrderInv

(* The OK for a PDU is that of the call that awaits it, if one does.       *)
LEMMA SentInv == OrderInv /\ Sent => OrderInv'
<1> SUFFICES ASSUME OrderInv, Sent PROVE OrderInv'
  OBVIOUS
<1>1. TypeOK
  BY DEF OrderInv
<1>2. /\ modem = "busy" /\ modem' = "command" /\ sending' = 0 /\ Queue' = Queue
      /\ UNCHANGED <<pc, left, rx, todo, forward, restarted, call, confirmed, pending, handled,
                     starts>>
  BY DEF Sent, Queue
<1>3. \/ accepted' = accepted \cup {sending} /\ Emit(Answer("OK"))
      \/ accepted' = accepted /\ Emit(Answer("ERROR"))
  BY DEF Sent
<1>4. /\ line' \in Seq(Cells) /\ lost' \subseteq Sms
      /\ Has(line', ">") => Has(line, ">")
      /\ Has(line', "OK") => Has(line, "OK") \/ accepted' = accepted \cup {sending}
      /\ PromptLast(line) /\ ~Has(line, ">") => PromptLast(line')
  <2>1. \A t \in {"OK", "ERROR"} :
          /\ Answer(t) \in Seq(Cells) /\ PromptLast(Answer(t))
          /\ \A u : Has(Answer(t), u) <=> u \in {"break", t}
    BY Texts
  <2>2. CASE accepted' = accepted \cup {sending} /\ Emit(Answer("OK"))
    BY <1>1, <2>1, <2>2, EmitStep
  <2>3. CASE accepted' = accepted /\ Emit(Answer("ERROR"))
    BY <1>1, <2>1, <2>3, EmitStep
  <2> QED BY <1>3, <2>2, <2>3
<1>5. accepted \subseteq accepted' /\ accepted' \subseteq 1..call
  BY <1>1, <1>2, <1>3 DEF OrderInv, Numbered, TypeOK
<1>6. TypeOK'
  BY <1>1, <1>2, <1>4, <1>5, PortAssumption DEF TypeOK
<1>7. Numbered' /\ OkTrue'
  BY <1>2, <1>5 DEF OrderInv, Numbered, OkTrue
<1>8. ASSUME ~restarted PROVE PromptOrder' /\ AwaitingAnswer'
  <2>1. PromptOrder /\ AwaitingAnswer /\ ~Has(line, ">") /\ PdusIn(Queue) = {}
    BY <1>2, <1>8 DEF OrderInv, PromptOrder, AtPrompt
  <2>2. PromptOrder'
    BY <1>2, <1>4, <2>1 DEF PromptOrder
  <2>3. AwaitingAnswer'
    BY <1>2, <1>3, <1>4, <2>1 DEF AwaitingAnswer
  <2> QED BY <2>2, <2>3
<1> QED BY <1>2, <1>6, <1>7, <1>8 DEF OrderInv

LEMMA ModemRestartsInv == OrderInv /\ ModemRestarts => OrderInv'
<1> SUFFICES ASSUME OrderInv, ModemRestarts PROVE OrderInv'
  OBVIOUS
<1>1. /\ rx' = <<>> /\ todo' = <<>> /\ modem' = "command" /\ sending' = 0 /\ forward' = FALSE
      /\ restarted' = TRUE
      /\ UNCHANGED <<pc, left, line, call, accepted, confirmed, pending, handled, lost, starts>>
  BY DEF ModemRestarts, outcomes, messages
<1>2. TypeOK'
  <2>1. rx' \in Seq(Commands) /\ todo' \in Seq(Commands) /\ sending' \in 0..MaxCalls
    BY <1>1, EmptySeq, PortAssumption
  <2> QED BY <1>1, <2>1 DEF OrderInv, TypeOK
<1>3. PdusIn(Queue') = {}
  BY <1>1 DEF Queue, PdusIn
<1> QED BY <1>1, <1>2, <1>3 DEF OrderInv, Numbered, OkTrue

-----------------------------------------------------------------------------
(* The order of things is kept in every behaviour.                         *)

LEMMA InitInv == Init => OrderInv
<1> SUFFICES ASSUME Init PROVE OrderInv
  OBVIOUS
<1>1. TypeOK
  <2>1. line \in Seq(Cells) /\ rx \in Seq(Commands) /\ todo \in Seq(Commands)
    BY EmptySeq DEF Init
  <2>2. 0 \in 0..MaxCalls /\ 0 \in 0..MaxStarts
    BY PortAssumption
  <2>3. /\ pc \in {"down", "idle", "wait"} \cup Transactions
        /\ modem \in {"command", "prompt", "spoilt", "busy"}
        /\ forward \in BOOLEAN /\ restarted \in BOOLEAN
    BY DEF Init
  <2>4. /\ sending \in 0..MaxCalls /\ call \in 0..MaxCalls /\ starts \in 0..MaxStarts
        /\ left \in 0..3
    BY <2>2 DEF Init
  <2>5. /\ accepted \subseteq 1..call /\ confirmed \subseteq 1..call
        /\ pending \subseteq Sms /\ handled \subseteq Sms /\ lost \subseteq Sms
    BY DEF Init
  <2> QED BY <2>1, <2>3, <2>4, <2>5 DEF TypeOK
<1>2. PdusIn(Queue) = {} /\ ~Has(line, ">") /\ PromptLast(line)
  <2>1. Queue = <<>> /\ line = <<>>
    BY DEF Init, Queue
  <2>2. \A i \in DOMAIN <<>> : FALSE
    OBVIOUS
  <2> QED BY <2>1, <2>2 DEF PdusIn, Has, PromptLast
<1> QED BY <1>1, <1>2 DEF Init, OrderInv, Numbered, OkTrue, PromptOrder, AwaitingAnswer

LEMMA OrderInvariance == Spec => []OrderInv
<1>1. OrderInv /\ UNCHANGED vars => OrderInv'
  <2> SUFFICES ASSUME OrderInv, UNCHANGED vars PROVE OrderInv'
    OBVIOUS
  <2>1. Queue' = Queue
    BY DEF vars, buffers, Queue
  <2> QED BY <2>1 DEF vars, buffers, modemState, outcomes, messages, OrderInv, TypeOK, Numbered, OkTrue,
                      PromptOrder, AtPrompt, AwaitingAnswer
<1>2. OrderInv /\ [Next]_vars => OrderInv'
  BY <1>1, ReadEchoInv, WritingInv, ReturnInv, InterruptedInv, ListeningInv, EchoCommandInv, ObeyInv,
     PromptedInv, SentInv, ForwardInv, ModemRestartsInv DEF Next, Daemon, Modem
<1> QED BY InitInv, <1>2, PTL DEF Spec

-----------------------------------------------------------------------------
(* What is on the port of an SMS.                                          *)

(* What every step does to the port: it takes a beginning of it, of which  *)
(* wait_sms hears at most the SMSs that match, or it adds to the end, an   *)
(* SMS only if that has not reached the port before.                       *)
LEMMA PortStep ==
  ASSUME TypeOK, [Next]_vars
  PROVE  \/ \E n \in 0..Len(line) : \E heard :
              /\ Take(n, heard)
              /\ heard \subseteq Matches(First(n)) \/ n = Len(line)
         \/ /\ UNCHANGED pending
            /\ \E r \in Seq(Cells) : SmsIn(r) = {} /\ Emit(r)
         \/ \E m \in pending : pending' = pending \ {m} /\ Emit(Indication(m))
         \/ UNCHANGED <<line, lost, pending>>
<1> DEFINE Reads == \E n \in 0..Len(line) : \E heard :
                      /\ Take(n, heard)
                      /\ heard \subseteq Matches(First(n)) \/ n = Len(line)
           Says == /\ UNCHANGED pending
                   /\ \E r \in Seq(Cells) : SmsIn(r) = {} /\ Emit(r)
<1>1. Len(line) \in Nat /\ line \in Seq(Cells) /\ left \in Nat /\ Buffer \in Nat
  BY LenProperties, PortAssumption DEF TypeOK
<1>2. \A b \in Nat : \A k \in ReadSizes(b) : k \in 0..Len(line)
  BY <1>1, SizesFit
<1>3. ASSUME NEW n \in 0..Len(line), NEW heard, TakeAndClose(n, heard),
             heard \subseteq Matches(First(n))
      PROVE  Reads
  BY <1>1, <1>3 DEF TakeAndClose
<1>4. CASE ReadEcho \/ Proceed \/ IgnoreContent
  <2>1. PICK n \in ReadSizes(left) \cup ReadSizes(Buffer) : Take(n, {})
    BY <1>4 DEF ReadEcho, Proceed, IgnoreContent
  <2> QED BY <1>1, <1>2, <2>1
<1>5. CASE Succeed \/ Refused
  <2>1. PICK n \in ReadSizes(Buffer) : TakeAndClose(n, {})
    BY <1>5 DEF Succeed, Refused
  <2> QED BY <1>1, <1>2, <1>3, <2>1
<1>6. CASE Hear
  <2>1. PICK n \in ReadSizes(Buffer) : TakeAndClose(n, Matches(First(n)))
    BY <1>6 DEF Hear
  <2> QED BY <1>1, <1>2, <1>3, <2>1
<1>7. CASE SendTimesOut \/ ListenTimesOut \/ IoError \/ Die
  <2>1. TakeAndClose(0, {}) /\ 0 \in 0..Len(line)
    BY <1>1, <1>7 DEF SendTimesOut, ListenTimesOut, IoError, Die, Abandon
  <2> QED BY <1>3, <2>1
<1>8. CASE EchoCommand \/ Obey \/ Prompted \/ Sent
  <2>1. \/ UNCHANGED <<line, lost, pending>>
        \/ UNCHANGED pending /\ (\E c : Emit(Echo(c)))
        \/ UNCHANGED pending /\ (\E t \in {">", "OK", "ERROR"} : Emit(Answer(t)))
    BY <1>8 DEF EchoCommand, Obey, Prompted, Sent
  <2>2. ASSUME NEW c PROVE Echo(c) \in Seq(Cells) /\ SmsIn(Echo(c)) = {}
    <3>1. \A i \in DOMAIN Echo(c) : Echo(c)[i].sms = NoSms
      BY DEF Echo, Cell
    <3> QED BY <3>1, EchoText DEF SmsIn
  <2>3. ASSUME NEW t \in {">", "OK", "ERROR"}
        PROVE  Answer(t) \in Seq(Cells) /\ SmsIn(Answer(t)) = {}
    <3>1. \A i \in DOMAIN Answer(t) : Answer(t)[i].sms = NoSms
      BY DEF Answer, Cell
    <3> QED BY <3>1, Texts DEF SmsIn
  <2> QED BY <2>1, <2>2, <2>3
<1>9. CASE Forward
  BY <1>9 DEF Forward
<1>10. CASE StartInit \/ BeginSend \/ Listen \/ ModemRestarts \/ UNCHANGED vars
  BY <1>10 DEF StartInit, BeginSend, Listen, ModemRestarts, messages, buffers, vars
<1> QED BY <1>4, <1>5, <1>6, <1>7, <1>8, <1>9, <1>10 DEF Next, Daemon, Modem

(* An SMS of which nothing is taken keeps its frame.                       *)
LEMMA FrameCut ==
  ASSUME NEW s \in Seq(Cells), NEW n \in 0..Len(s), NEW m \in SmsIn(SubSeq(s, n + 1, Len(s)))
  PROVE  /\ m \in SmsIn(s)
         /\ Frame(s, m) /\ m \notin SmsIn(SubSeq(s, 1, n)) => Frame(SubSeq(s, n + 1, Len(s)), m)
         /\ Frame(s, m) => m \notin Matches(SubSeq(s, 1, n))
<1> DEFINE f == SubSeq(s, 1, n)
           r == SubSeq(s, n + 1, Len(s))
<1>1. /\ Len(s) \in Nat /\ DOMAIN s = 1..Len(s)
      /\ DOMAIN f = 1..n /\ DOMAIN r = 1..Len(s) - n
      /\ \A i \in 1..n : f[i] = s[i]
      /\ \A i \in 1..Len(s) - n : r[i] = s[n + i]
  BY Cut, LenProperties
<1>2. m \in SmsIn(r)
  OBVIOUS
<1> HIDE DEF f, r
<1>3. PICK h \in DOMAIN r : r[h].sms = m /\ m # NoSms
  BY <1>2 DEF SmsIn
<1>4. n + h \in DOMAIN s /\ s[n + h].sms = m /\ n + h > n /\ n + h \in Nat /\ n \in Nat
  BY <1>1, <1>3
<1>5. m \in SmsIn(s)
  BY <1>3, <1>4 DEF SmsIn
<1>6. ASSUME Frame(s, m), m \notin SmsIn(f) PROVE Frame(r, m)
  <2>1. PICK i \in DOMAIN s, j \in DOMAIN s :
          /\ s[i] = [text |-> "+CMT", sms |-> m] /\ s[j] = [text |-> "end", sms |-> m]
          /\ \A k \in DOMAIN s :
               s[k].sms = m => i <= k /\ k <= j /\ (s[k].text = "end" => k = j)
    BY <1>6 DEF Frame
  <2>2. \A k \in DOMAIN s : s[k].sms = m => k - n \in DOMAIN r /\ s[k] = r[k - n]
    <3>1. ASSUME NEW k \in DOMAIN s, s[k].sms = m PROVE k > n
      BY <1>1, <1>3, <1>6, <3>1 DEF SmsIn
    <3>2. ASSUME NEW k \in DOMAIN s, k > n
          PROVE  k - n \in DOMAIN r /\ n + (k - n) = k
      BY <1>1, <3>2
    <3> QED BY <1>1, <3>1, <3>2
  <2>3. i - n \in DOMAIN r /\ r[i - n] = s[i] /\ j - n \in DOMAIN r /\ r[j - n] = s[j]
    BY <2>1, <2>2
  <2>4. ASSUME NEW k \in DOMAIN r, r[k].sms = m
        PROVE  i - n <= k /\ k <= j - n /\ (r[k].text = "end" => k = j - n)
    <3>1. n + k \in DOMAIN s /\ s[n + k] = r[k] /\ k \in Int /\ n \in Int /\ i \in Int /\ j \in Int
      BY <1>1
    <3>2. i <= n + k /\ n + k <= j /\ (r[k].text = "end" => n + k = j)
      BY <2>1, <2>4, <3>1
    <3> QED BY <3>1, <3>2
  <2> QED BY <2>1, <2>3, <2>4 DEF Frame
<1>7. ASSUME Frame(s, m), m \in Matches(f) PROVE FALSE
  <2>1. PICK e \in DOMAIN f : f[e] = [text |-> "end", sms |-> m]
    BY <1>7, Zenon DEF Matches
  <2>2. e \in DOMAIN s /\ s[e].sms = m /\ s[e].text = "end" /\ e <= n
    BY <1>1, <2>1
  <2>3. n + h <= e
    BY <1>4, <1>7, <2>2 DEF Frame
  <2> QED BY <1>1, <1>4, <2>2, <2>3
<1> QED BY <1>5, <1>6, <1>7 DEF f, r

(* What the modem writes leaves the frames of other SMSs as they are.      *)
LEMMA FrameJoin ==
  ASSUME NEW s \in Seq(Cells), NEW r \in Seq(Cells)
  PROVE  /\ SmsIn(s \o r) = SmsIn(s) \cup SmsIn(r)
         /\ \A m : Frame(s, m) /\ m \notin SmsIn(r) /\ m # NoSms => Frame(s \o r, m)
         /\ \A m : Frame(r, m) /\ m \notin SmsIn(s) /\ m # NoSms => Frame(s \o r, m)
<1> DEFINE w == s \o r
           L == Len(s)
<1>1. /\ L \in Nat /\ DOMAIN s = 1..L /\ Len(r) \in Nat /\ DOMAIN r = 1..Len(r)
      /\ DOMAIN w = 1..L + Len(r)
      /\ \A i \in 1..L + Len(r) : w[i] = IF i <= L THEN s[i] ELSE r[i - L]
  BY ConcatProperties, LenProperties
<1> HIDE DEF w, L
<1>2. /\ \A i \in DOMAIN s : i \in DOMAIN w /\ w[i] = s[i] /\ i \in Int
      /\ \A i \in DOMAIN r : i \in Int /\ L + i \in Int /\ L + i \in DOMAIN w /\ w[L + i] = r[i]
      /\ \A i \in DOMAIN w : \/ i \in DOMAIN s
                             \/ i - L \in DOMAIN r /\ i = L + (i - L)
  <2>1. ASSUME NEW i \in DOMAIN r PROVE L + i \in DOMAIN w /\ w[L + i] = r[i]
    <3>1. L + i \in 1..L + Len(r) /\ ~(L + i <= L) /\ L + i - L = i
      BY <1>1
    <3> QED BY <1>1, <3>1
  <2>2. \A i \in DOMAIN s : i \in DOMAIN w /\ w[i] = s[i] /\ i \in Int
    BY <1>1
  <2>3. ASSUME NEW i \in DOMAIN w, i \notin DOMAIN s PROVE i - L \in DOMAIN r /\ i = L + (i - L)
    BY <1>1, <2>3
  <2>4. \A i \in DOMAIN r : i \in Int /\ L + i \in Int
    BY <1>1
  <2> QED BY <2>1, <2>2, <2>3, <2>4
<1>3. SmsIn(w) = SmsIn(s) \cup SmsIn(r)
  <2>1. \A x \in SmsIn(w) : x \in SmsIn(s) \cup SmsIn(r)
    BY <1>2 DEF SmsIn
  <2>2. \A x \in SmsIn(s) \cup SmsIn(r) : x \in SmsIn(w)
    BY <1>2 DEF SmsIn
  <2> QED BY <2>1, <2>2
<1>4. ASSUME NEW m, Frame(s, m), m \notin SmsIn(r), m # NoSms PROVE Frame(w, m)
  <2>1. \A k \in DOMAIN w : w[k].sms = m => k \in DOMAIN s
    BY <1>2, <1>4 DEF SmsIn
  <2> QED BY <1>2, <1>4, <2>1 DEF Frame
<1>5. ASSUME NEW m, Frame(r, m), m \notin SmsIn(s), m # NoSms PROVE Frame(w, m)
  <2>1. PICK i \in DOMAIN r, j \in DOMAIN r :
          /\ r[i] = [text |-> "+CMT", sms |-> m] /\ r[j] = [text |-> "end", sms |-> m]
          /\ \A k \in DOMAIN r :
               r[k].sms = m => i <= k /\ k <= j /\ (r[k].text = "end" => k = j)
    BY <1>5 DEF Frame
  <2>2. ASSUME NEW k \in DOMAIN w, w[k].sms = m
        PROVE  L + i <= k /\ k <= L + j /\ (w[k].text = "end" => k = L + j)
    <3>1. k - L \in DOMAIN r /\ k = L + (k - L)
      BY <1>2, <1>5, <2>2 DEF SmsIn
    <3>2. w[k] = r[k - L]
      BY <1>2, <3>1
    <3>3. i <= k - L /\ k - L <= j /\ (w[k].text = "end" => k - L = j)
      BY <2>1, <2>2, <3>1, <3>2
    <3> QED BY <1>1, <1>2, <3>1, <3>3
  <2>3. /\ L + i \in DOMAIN w /\ w[L + i] = [text |-> "+CMT", sms |-> m]
        /\ L + j \in DOMAIN w /\ w[L + j] = [text |-> "end", sms |-> m]
    BY <1>2, <2>1
  <2> QED BY <2>2, <2>3 DEF Frame
<1> QED BY <1>3, <1>4, <1>5 DEF w

(* The modem writes an SMS as a whole.                                     *)
LEMMA IndicationFramed ==
  ASSUME NEW m \in Sms
  PROVE  /\ Indication(m) \in Seq(Cells) /\ SmsIn(Indication(m)) \subseteq {m}
         /\ Frame(Indication(m), m)
<1> DEFINE n == Body[m] + 2
           d == Indication(m)
<1>1. n \in Nat /\ n >= 2 /\ 1 \in 1..n /\ n \in 1..n /\ n # 1
  BY PortAssumption
<1>2. /\ DOMAIN d = 1..n
      /\ \A i \in 1..n :
           d[i] = [text |-> IF i = 1 THEN "+CMT" ELSE IF i = n THEN "end" ELSE "PDU", sms |-> m]
  BY DEF Indication
<1>3. d \in Seq(Cells)
  BY IndicationText
<1> HIDE DEF n, d
<1>4. SmsIn(d) \subseteq {m}
  BY <1>2 DEF SmsIn
<1>5. d[1] = [text |-> "+CMT", sms |-> m] /\ d[n] = [text |-> "end", sms |-> m]
  BY <1>1, <1>2
<1>6. \A k \in DOMAIN d : 1 <= k /\ k <= n /\ (d[k].text = "end" => k = n)
  BY <1>1, <1>2
<1>7. Frame(d, m)
  BY <1>1, <1>2, <1>5, <1>6 DEF Frame
<1> QED BY <1>3, <1>4, <1>7 DEF d

LEMMA FramedStep == TypeOK /\ Framed /\ [Next]_vars => Framed'
<1> SUFFICES ASSUME TypeOK, Framed, [Next]_vars PROVE Framed'
  OBVIOUS
<1>1. line \in Seq(Cells) /\ SmsIn(line) \subseteq Sms /\ pending \subseteq Sms
  BY SmsInText DEF TypeOK
<1>2. ASSUME NEW n \in 0..Len(line), NEW heard, Take(n, heard),
             heard \subseteq Matches(First(n)) \/ n = Len(line)
      PROVE  Framed'
  <2>1. /\ line' = SubSeq(line, n + 1, Len(line)) /\ First(n) = SubSeq(line, 1, n)
        /\ lost' = lost \cup (SmsIn(First(n)) \ heard) /\ pending' = pending
    BY <1>2 DEF Take, First
  <2>2. ASSUME NEW m \in SmsIn(line')
        PROVE  m \in SmsIn(line) /\ (m \notin lost' => Frame(line', m))
    <3>1. m \in SmsIn(line)
      BY <1>1, <2>1, <2>2, FrameCut
    <3>2. ASSUME m \notin lost' PROVE Frame(line', m)
      <4>1. Frame(line, m) /\ m \notin SmsIn(First(n)) \ heard
        BY <2>1, <3>1, <3>2 DEF Framed
      <4>2. n # Len(line)
        <5>1. SmsIn(line') # {}
          BY <2>2
        <5>2. DOMAIN line' # {}
          BY <5>1 DEF SmsIn
        <5> QED BY <1>1, <2>1, <5>2, Cut, LenProperties
      <4>3. m \notin heard
        BY <1>1, <1>2, <2>1, <2>2, <4>1, <4>2, FrameCut
      <4> QED BY <1>1, <2>1, <2>2, <4>1, <4>3, FrameCut
    <3> QED BY <3>1, <3>2
  <2> QED BY <2>1, <2>2 DEF Framed
<1>3. ASSUME pending' = pending, NEW r \in Seq(Cells), SmsIn(r) = {}, Emit(r)
      PROVE  Framed'
  <2>1. CASE line' = line \o r /\ UNCHANGED lost
    <3>1. SmsIn(line') = SmsIn(line)
      <4>1. SmsIn(line \o r) = SmsIn(line) \cup SmsIn(r)
        BY <1>1, <1>3, FrameJoin
      <4> QED BY <1>3, <2>1, <4>1
    <3>2. ASSUME NEW m \in SmsIn(line') \ lost' PROVE Frame(line', m)
      <4>1. Frame(line, m) /\ m # NoSms
        BY <2>1, <3>1, <3>2 DEF Framed, SmsIn
      <4> QED BY <1>1, <1>3, <2>1, <4>1, FrameJoin
    <3> QED BY <1>3, <3>1, <3>2 DEF Framed
  <2>2. CASE lost' = lost \cup SmsIn(r) /\ UNCHANGED line
    BY <1>3, <2>2 DEF Framed
  <2> QED BY <1>3, <2>1, <2>2 DEF Emit
<1>4. ASSUME NEW m \in pending, pending' = pending \ {m}, Emit(Indication(m))
      PROVE  Framed'
  <2>1. /\ Indication(m) \in Seq(Cells) /\ SmsIn(Indication(m)) \subseteq {m}
        /\ Frame(Indication(m), m)
    BY <1>1, IndicationFramed
  <2>2. CASE line' = line \o Indication(m) /\ UNCHANGED lost
    <3>1. SmsIn(line') \subseteq SmsIn(line) \cup {m}
      BY <1>1, <2>1, <2>2, FrameJoin
    <3>2. pending' \cap SmsIn(line') = {}
      BY <1>4, <3>1 DEF Framed
    <3>3. ASSUME NEW o \in SmsIn(line') \ lost' PROVE Frame(line', o)
      <4>1. o # NoSms
        BY DEF SmsIn
      <4>2. CASE o = m
        <5>1. m \notin SmsIn(line)
          BY <1>4 DEF Framed
        <5> QED BY <1>1, <2>1, <2>2, <4>1, <4>2, <5>1, FrameJoin
      <4>3. CASE o # m
        <5>1. Frame(line, o) /\ o \notin SmsIn(Indication(m))
          BY <2>1, <2>2, <3>1, <3>3, <4>3 DEF Framed
        <5> QED BY <1>1, <2>1, <2>2, <4>1, <5>1, FrameJoin
      <4> QED BY <4>2, <4>3
    <3> QED BY <3>2, <3>3 DEF Framed
  <2>3. CASE lost' = lost \cup SmsIn(Indication(m)) /\ UNCHANGED line
    BY <1>4, <2>3 DEF Framed
  <2> QED BY <1>4, <2>2, <2>3 DEF Emit
<1>5. CASE UNCHANGED <<line, lost, pending>>
  BY <1>5 DEF Framed
<1> QED BY <1>2, <1>3, <1>4, <1>5, PortStep

-----------------------------------------------------------------------------
(* The theorems.                                                           *)

(* The inductive invariant of the port holds in every behaviour, whatever  *)
(* is late, lost, read in parts or left by a daemon that died.             *)
THEOREM PortInvariance == Spec => []IInv
<1>1. Init => Framed
  BY DEF Init, Framed, SmsIn
<1>2. OrderInv => TypeOK
  BY DEF OrderInv
<1>3. OrderInv /\ Framed /\ [Next]_vars => Framed'
  BY <1>2, FramedStep
<1>4. OrderInv /\ Framed => IInv
  BY DEF IInv
<1>5. Spec => Init /\ [][Next]_vars
  BY DEF Spec
<1> QED BY <1>1, <1>3, <1>4, <1>5, OrderInvariance, PTL

(* Types are correct (at_transaction, init, send_sms, wait_sms).           *)
THEOREM PortTypeCorrect == Spec => []TypeOK
<1>1. IInv => TypeOK BY DEF IInv, OrderInv
<1> QED BY PortInvariance, <1>1, PTL

(* As long as the modem has not restarted on its own, send_sms returns Ok  *)
(* only for an SMS that was sent: the OK it reads is that of its own PDU.  *)
THEOREM OkTheorem == Spec => []OkTrue
<1>1. IInv => OkTrue BY DEF IInv, OrderInv
<1> QED BY PortInvariance, <1>1, PTL

(* Of one SMS, there is nothing to tell apart.                             *)
LEMMA Alone ==
  ASSUME NEW s \in Seq(Cells), ~(Cardinality(SmsIn(s)) > 1)
  PROVE  \A m, o \in SmsIn(s) : m = o
<1>1. IsFiniteSet(SmsIn(s))
  <2>1. IsFiniteSet({s[i].sms : i \in DOMAIN s})
    <3>1. IsFiniteSet(DOMAIN s)
      BY LenProperties, FS_Interval
    <3>2. [i \in DOMAIN s |-> s[i].sms] \in Surjection(DOMAIN s, {s[i].sms : i \in DOMAIN s})
      BY DEF Surjection
    <3> QED BY <3>1, <3>2, FS_Surjection
  <2> QED BY <2>1, FS_Difference DEF SmsIn
<1>2. ASSUME NEW m \in SmsIn(s), NEW o \in SmsIn(s), m # o PROVE FALSE
  <2>1. IsFiniteSet({o}) /\ Cardinality({o}) = 1 /\ m \notin {o}
    BY <1>2, FS_Singleton
  <2>2. Cardinality({o} \cup {m}) = 1 + 1
    BY <2>1, FS_AddElement
  <2>3. Cardinality({o} \cup {m}) <= Cardinality(SmsIn(s)) /\ Cardinality(SmsIn(s)) \in Nat
    BY <1>1, FS_Subset, FS_CardinalityType
  <2> DEFINE few == Cardinality(SmsIn(s))
  <2>4. few \in Nat /\ 1 + 1 <= few /\ ~(few > 1)
    BY <2>2, <2>3
  <2> HIDE DEF few
  <2> QED BY <2>4
<1> QED BY <1>2

(* wait_sms misses an SMS only if it shares the port with another one or   *)
(* is read in parts, whatever precedes it on the port: for any buffer,     *)
(* lengths of PDUs and faults.                                             *)
THEOREM HeardTheorem == Spec => HeardIfAlone
<1>1. ASSUME IInv, IgnoreContent, lost' # lost
      PROVE  Cardinality(SmsIn(line)) > 1 \/ line' # <<>>
  <2> SUFFICES ASSUME ~(Cardinality(SmsIn(line)) > 1), line' = <<>> PROVE FALSE
    OBVIOUS
  <2>1. line \in Seq(Cells) /\ Len(line) \in Nat /\ DOMAIN line = 1..Len(line) /\ Buffer \in Nat
    BY <1>1, LenProperties, PortAssumption DEF IInv, OrderInv, TypeOK
  <2>2. PICK n \in ReadSizes(Buffer) : Matches(First(n)) = {} /\ Take(n, {})
    BY <1>1 DEF IgnoreContent
  <2>3. n \in 0..Len(line)
    BY <2>1, <2>2, SizesFit
  <2>4. n = Len(line)
    <3>1. Len(line') = Len(line) - n
      BY <2>1, <2>2, <2>3, Cut DEF Take
    <3>2. Len(line') = 0
      BY EmptySeq
    <3>3. n \in Int /\ Len(line) \in Int
      BY <2>1, <2>3
    <3> QED BY <3>1, <3>2, <3>3
  <2>5. First(n) = line
    <3>1. /\ First(n) \in Seq(Cells) /\ Len(First(n)) = n
          /\ \A i \in 1..n : First(n)[i] = line[i]
      BY <2>1, <2>3, Cut DEF First
    <3> QED BY <2>1, <2>4, <3>1, SeqEqual
  <2>6. PICK m \in SmsIn(line) : m \notin lost
    BY <1>1, <2>2, <2>5 DEF Take
  <2>7. PICK i \in DOMAIN line, j \in DOMAIN line :
          line[i] = [text |-> "+CMT", sms |-> m] /\ line[j] = [text |-> "end", sms |-> m]
    BY <1>1, <2>6 DEF IInv, Framed, Frame
  <2>8. \A o \in SmsIn(line) : o = m
    BY <2>1, <2>6, Alone
  <2> DEFINE At(o) == CHOOSE k \in DOMAIN line : line[k] = [text |-> "+CMT", sms |-> o]
  <2>9. At(m) <= At(m)
    <3>1. At(m) \in DOMAIN line
      BY <2>7
    <3> QED BY <2>1, <3>1
  <2>10. \A t \in {"+CMT", "end"} : \E k \in DOMAIN line : line[k] = [text |-> t, sms |-> m]
    BY <2>7
  <2>11. m \in Matches(line)
    BY <2>6, <2>8, <2>9, <2>10 DEF Matches
  <2> QED BY <2>2, <2>5, <2>11
<1>2. IInv /\ [Next]_vars
        => [IgnoreContent /\ lost' # lost
              => Cardinality(SmsIn(line)) > 1 \/ line' # <<>>]_vars
  BY <1>1
<1> QED BY <1>2, PortInvariance, PTL DEF HeardIfAlone, Spec
=============================================================================
