------------------------------- MODULE SmsPort -------------------------------
(***************************************************************************)
(* The serial port of the modem (sms_utils.rs): at_transaction, init,      *)
(* send_sms and wait_sms, each of which opens the port anew, and the modem *)
(* at its other end, which echoes what is written to it, answers commands, *)
(* and writes the SMSs it receives between its answers.                    *)
(*                                                                         *)
(* Bytes are grouped into cells: an answer is a line break and a text, the *)
(* echo of a command as many cells as the command was written with, an SMS *)
(* a "+CMT" line, some cells of PDU and the line break that ends it.       *)
(***************************************************************************)
EXTENDS Integers, Sequences, FiniteSets

CONSTANTS
  Sms,        \* the SMSs that people send to the router
  Body,       \* for each of them, the cells of its PDU
  Buffer,     \* cells that fit in the buffer of one read
  MaxCalls,   \* calls of send_sms (a bound of the model)
  MaxStarts,  \* starts of the daemon (a bound of the model)
  Split,      \* whether a read may return a part of what the modem wrote
  Lossy,      \* whether what nobody reads when the port is closed is lost
  Faults      \* which of "io", "death", "modem" happen

ASSUME PortAssumption ==
  /\ Body \in [Sms -> Nat]
  /\ Buffer \in Nat \ {0} /\ MaxCalls \in Nat /\ MaxStarts \in Nat
  /\ Split \in BOOLEAN /\ Lossy \in BOOLEAN

VARIABLES
  pc,        \* where the daemon is: "down", "idle" (no port open) or in a call
  left,      \* bytes of the echo that at_transaction has yet to read
  line,      \* cells the modem wrote that were not read
  rx,        \* commands written to the modem that it has not echoed
  todo,      \* commands it echoed and has not acted on
  modem,     \* its mode: "command", "prompt", "spoilt" (a prompt given text
             \* that is no PDU) or "busy" (sending an SMS)
  sending,   \* the call whose PDU it is sending
  forward,   \* whether it forwards SMSs to the port (AT+CNMI=2,2)
  restarted, \* whether it has restarted on its own
  call,      \* calls of send_sms so far: the number of the present one
  accepted,  \* calls whose SMS the modem sent
  confirmed, \* calls that returned Ok
  pending,   \* SMSs that have not reached the port
  handled,   \* SMSs that wait_sms returned
  lost,      \* SMSs of which a part was read otherwise, or dropped
  starts     \* starts of the daemon so far

buffers == <<line, rx, todo>>
modemState == <<modem, sending, forward>>
outcomes == <<accepted, confirmed>>
messages == <<pending, handled, lost>>
vars == <<pc, left, buffers, modemState, restarted, call, outcomes, messages, starts>>

Transactions == {"cmgf", "cnmi", "cmgs", "pdu"}
Commands == [cmd : Transactions, call : 0..MaxCalls]
NoSms == "none"
Cells == [text : {"echo", "break", ">", "OK", "ERROR", "+CMT", "PDU", "end"},
          sms : Sms \cup {NoSms}]

TypeOK ==
  /\ pc \in {"down", "idle", "wait"} \cup Transactions
  /\ left \in 0..3
  /\ line \in Seq(Cells) /\ rx \in Seq(Commands) /\ todo \in Seq(Commands)
  /\ modem \in {"command", "prompt", "spoilt", "busy"}
  /\ sending \in 0..MaxCalls /\ forward \in BOOLEAN /\ restarted \in BOOLEAN
  /\ call \in 0..MaxCalls /\ accepted \subseteq 1..call /\ confirmed \subseteq 1..call
  /\ pending \subseteq Sms /\ handled \subseteq Sms /\ lost \subseteq Sms
  /\ starts \in 0..MaxStarts

Init ==
  /\ pc = "down" /\ left = 0
  /\ line = <<>> /\ rx = <<>> /\ todo = <<>>
  /\ modem = "command" /\ sending = 0 /\ forward = FALSE
  /\ restarted = FALSE
  /\ call = 0 /\ accepted = {} /\ confirmed = {}
  /\ pending = Sms /\ handled = {} /\ lost = {}
  /\ starts = 0

-----------------------------------------------------------------------------
(* Reading the port.                                                       *)

Cell(t) == [text |-> t, sms |-> NoSms]
Answer(t) == <<Cell("break"), Cell(t)>>
Echo(cmd) == [i \in 1..(IF cmd = "pdu" THEN 3 ELSE 2) |-> Cell("echo")]
Indication(m) ==
  [i \in 1..(Body[m] + 2) |->
     [text |-> IF i = 1 THEN "+CMT" ELSE IF i = Body[m] + 2 THEN "end" ELSE "PDU",
      sms |-> m]]

First(n) == SubSeq(line, 1, n)
SmsIn(s) == {s[i].sms : i \in DOMAIN s} \ {NoSms}
Has(s, t) == \E i \in DOMAIN s : s[i].text = t

(* What a read into a buffer of n cells may return.                        *)
ReadSizes(n) ==
  LET most == IF Len(line) < n THEN Len(line) ELSE n
  IN  IF Split THEN 1..most ELSE {most} \ {0}

(* n cells leave the port, of which wait_sms hears the SMSs heard.         *)
Take(n, heard) ==
  /\ line' = SubSeq(line, n + 1, Len(line))
  /\ handled' = handled \cup heard
  /\ lost' = lost \cup (SmsIn(First(n)) \ heard)
  /\ UNCHANGED pending

(* The call returns and drops the port.                                    *)
TakeAndClose(n, heard) ==
  \E d \in {n} \cup (IF Lossy THEN {Len(line)} ELSE {}) : Take(d, heard)

(* Mutant: the line break after the command is counted as its echo.        *)
EchoAndBreak(c) ==
  /\ rx' = Append(rx, [cmd |-> c, call |-> IF c \in {"cmgs", "pdu"} THEN call' ELSE 0])
  /\ left' = Len(Echo(c)) + 1

(* at_transaction: the command is written, then as many bytes are read as  *)
(* it has, whatever they are, then one buffer of answer.                   *)
Write(c) ==
  /\ rx' = Append(rx, [cmd |-> c, call |-> IF c \in {"cmgs", "pdu"} THEN call' ELSE 0])
  /\ left' = Len(Echo(c))

ReadEcho ==
  /\ pc \in Transactions /\ left > 0
  /\ \E n \in ReadSizes(left) : left' = left - n /\ Take(n, {})
  /\ UNCHANGED <<pc, rx, todo, modemState, restarted, call, outcomes, starts>>

-----------------------------------------------------------------------------
(* init and send_sms.                                                      *)

StartInit ==
  /\ pc = "down" /\ starts < MaxStarts
  /\ starts' = starts + 1
  /\ pc' = "cmgf" /\ UNCHANGED call /\ Write("cmgf")
  /\ UNCHANGED <<line, todo, modemState, restarted, outcomes, messages>>

BeginSend ==
  /\ pc = "idle" /\ call < MaxCalls
  /\ call' = call + 1
  /\ pc' = "cmgs" /\ Write("cmgs")
  /\ UNCHANGED <<line, todo, modemState, restarted, outcomes, messages, starts>>

(* Mutant: the answer to AT+CMGS is not looked at.                         *)
ExpectedUnchecked(s) == pc = "cmgs" \/ Has(s, "OK")

Expected(s) == Has(s, IF pc = "cmgs" THEN ">" ELSE "OK")

(* Mutant: init reads on until there is an OK.                             *)
ReadsOn == IF pc \in {"cmgf", "cnmi"} THEN pc ELSE "idle"

FailsTo == IF pc \in {"cmgf", "cnmi"} THEN "down" ELSE "idle"

(* The first command of the two was accepted: the second is written.       *)
Proceed ==
  /\ pc \in {"cmgf", "cmgs"} /\ left = 0
  /\ \E n \in ReadSizes(Buffer) : Expected(First(n)) /\ Take(n, {})
  /\ pc' = (IF pc = "cmgf" THEN "cnmi" ELSE "pdu")
  /\ UNCHANGED call /\ Write(pc')
  /\ UNCHANGED <<todo, modemState, restarted, outcomes, starts>>

(* The second one was, too: init or send_sms returns Ok.                   *)
Succeed ==
  /\ pc \in {"cnmi", "pdu"} /\ left = 0
  /\ \E n \in ReadSizes(Buffer) : Expected(First(n)) /\ TakeAndClose(n, {})
  /\ pc' = "idle"
  /\ confirmed' = (IF pc = "pdu" THEN confirmed \cup {call} ELSE confirmed)
  /\ UNCHANGED <<left, rx, todo, modemState, restarted, call, accepted, starts>>

Refused ==
  /\ pc \in Transactions /\ left = 0
  /\ \E n \in ReadSizes(Buffer) : ~Expected(First(n)) /\ TakeAndClose(n, {})
  /\ pc' = FailsTo
  /\ UNCHANGED <<left, rx, todo, modemState, restarted, call, outcomes, starts>>

Abandon(to) ==
  /\ pc' = to /\ left' = 0
  /\ TakeAndClose(0, {})
  /\ UNCHANGED <<rx, todo, modemState, restarted, call, outcomes, starts>>

(* Mutant: the time limit is on the answers, not on the echo.              *)
AnswerTimesOut == pc \in {"cmgs", "pdu"} /\ left = 0 /\ Abandon("idle")

(* sms_send_timeout_sec passed.                                            *)
SendTimesOut == pc \in {"cmgs", "pdu"} /\ Abandon("idle")

-----------------------------------------------------------------------------
(* wait_sms.                                                               *)

Listen ==
  /\ pc = "idle" /\ pc' = "wait"
  /\ UNCHANGED <<left, buffers, modemState, restarted, call, outcomes, messages, starts>>

(* Mutant: the indication has to begin what is read.                       *)
MatchesAtStart(s) ==
  {m \in SmsIn(s) : Has(s, "end") /\ s[1] = [text |-> "+CMT", sms |-> m]}

(* The first SMS of which a whole indication is in s.                      *)
Matches(s) ==
  LET whole == {m \in SmsIn(s) : \A t \in {"+CMT", "end"} : \E i \in DOMAIN s : s[i] = [text |-> t, sms |-> m]}
      At(m) == CHOOSE i \in DOMAIN s : s[i] = [text |-> "+CMT", sms |-> m]
  IN  {m \in whole : \A o \in whole : At(m) <= At(o)}

Hear ==
  /\ pc = "wait" /\ pc' = "idle"
  /\ \E n \in ReadSizes(Buffer) :
       Matches(First(n)) # {} /\ TakeAndClose(n, Matches(First(n)))
  /\ UNCHANGED <<left, rx, todo, modemState, restarted, call, outcomes, starts>>

(* Anything else that is read is ignored.                                  *)
IgnoreContent ==
  /\ pc = "wait"
  /\ \E n \in ReadSizes(Buffer) : Matches(First(n)) = {} /\ Take(n, {})
  /\ UNCHANGED <<pc, left, rx, todo, modemState, restarted, call, outcomes, starts>>

(* The refresh period is over.                                             *)
ListenTimesOut == pc = "wait" /\ Abandon("idle")

(* The port cannot be opened or read, or what is read is not UTF-8.        *)
IoError == "io" \in Faults /\ pc \in Transactions \cup {"wait"} /\ Abandon(IF pc = "wait" THEN "idle" ELSE FailsTo)

Die == "death" \in Faults /\ pc # "down" /\ Abandon("down")

-----------------------------------------------------------------------------
(* The modem (external).                                                   *)

(* The modem writes to the port; nobody may be there to keep it.           *)
Emit(s) ==
  \/ line' = line \o s /\ UNCHANGED lost
  \/ Lossy /\ pc \in {"down", "idle"} /\ lost' = lost \cup SmsIn(s) /\ UNCHANGED line

EchoCommand ==
  /\ rx # <<>>
  /\ rx' = Tail(rx) /\ todo' = Append(todo, Head(rx))
  /\ Emit(Echo(Head(rx).cmd))
  /\ UNCHANGED <<pc, left, modemState, restarted, call, outcomes, pending, handled, starts>>

Act(mode) == modem = mode /\ todo # <<>> /\ todo' = Tail(todo)

Obey ==
  /\ Act("command")
  /\ LET c == Head(todo).cmd IN
     \/ /\ c = "cmgs" /\ modem' = "prompt" /\ Emit(Answer(">"))
        /\ UNCHANGED forward
     \/ /\ c \in {"cmgf", "cnmi"} /\ Emit(Answer("OK"))
        /\ forward' = (forward \/ c = "cnmi")
        /\ UNCHANGED modem
     \/ Emit(Answer("ERROR")) /\ UNCHANGED <<modem, forward>>
  /\ UNCHANGED <<pc, left, rx, sending, restarted, call, outcomes, pending, handled, starts>>

(* At the prompt, a PDU is sent; a command is taken for the beginning of   *)
(* one, and spoils it.                                                     *)
Prompted ==
  /\ \/ /\ Act("prompt") /\ Head(todo).cmd = "pdu"
        /\ modem' = "busy" /\ sending' = Head(todo).call
        /\ UNCHANGED <<line, lost>>
     \/ /\ Act("spoilt") /\ Head(todo).cmd = "pdu"
        /\ modem' = "command" /\ Emit(Answer("ERROR"))
        /\ UNCHANGED sending
     \/ /\ Act("prompt") \/ Act("spoilt")
        /\ Head(todo).cmd # "pdu"
        /\ modem' = "spoilt"
        /\ UNCHANGED <<line, lost, sending>>
  /\ UNCHANGED <<pc, left, rx, forward, restarted, call, outcomes, pending, handled, starts>>

Sent ==
  /\ modem = "busy" /\ modem' = "command" /\ sending' = 0
  /\ \/ accepted' = accepted \cup {sending} /\ Emit(Answer("OK"))
     \/ UNCHANGED accepted /\ Emit(Answer("ERROR"))
  /\ UNCHANGED <<pc, left, rx, todo, forward, restarted, call, confirmed, pending, handled, starts>>

Forward ==
  /\ forward /\ modem \notin {"prompt", "spoilt"}
  /\ \E m \in pending : pending' = pending \ {m} /\ Emit(Indication(m))
  /\ UNCHANGED <<pc, left, rx, todo, modemState, restarted, call, outcomes, handled, starts>>

(* It restarts on its own, once, and loses its configuration.              *)
ModemRestarts ==
  /\ "modem" \in Faults /\ ~restarted /\ restarted' = TRUE
  /\ rx' = <<>> /\ todo' = <<>>
  /\ modem' = "command" /\ sending' = 0 /\ forward' = FALSE
  /\ UNCHANGED <<pc, left, line, call, outcomes, messages, starts>>

-----------------------------------------------------------------------------

Daemon ==
  \/ ReadEcho \/ Proceed \/ Succeed \/ Refused \/ SendTimesOut
  \/ Listen \/ Hear \/ IgnoreContent

Modem == EchoCommand \/ Obey \/ Prompted \/ Sent

Next ==
  \/ Daemon \/ Modem
  \/ StartInit \/ BeginSend \/ ListenTimesOut \/ IoError \/ Die
  \/ Forward \/ ModemRestarts

Spec == Init /\ [][Next]_vars

(* What the runtime owes: a read that can return does, and the time limit  *)
(* of a send passes.                                                       *)
(* The modem answers what it can.                                          *)
FairSpec ==
  /\ Spec
  /\ WF_vars(ReadEcho \/ Proceed \/ Succeed \/ Refused)
  /\ WF_vars(SendTimesOut)
  /\ WF_vars(Modem)

-----------------------------------------------------------------------------
(* Properties.                                                             *)

(* send_sms returns Ok only for an SMS that the modem sent, whatever calls *)
(* before it left on the port: the OK it reads is never that of another    *)
(* command, as long as the modem keeps the order of what it was told       *)
(* (send_sms, at_transaction).                                             *)
OkTrue == ~restarted => confirmed \subseteq accepted

(* While it goes on listening, wait_sms misses an SMS only if it shares    *)
(* the port with another one, or is read in parts, as it is if it does not *)
(* fit in a buffer with what precedes it: answers that came too late for   *)
(* their transaction do not hide it (wait_sms).                            *)
HeardIfAlone ==
  [][IgnoreContent /\ lost' # lost
       => Cardinality(SmsIn(line)) > 1 \/ line' # <<>>]_vars

(* A send ends, whatever the modem does, so that the response to one       *)
(* request never keeps the daemon from the next (send_sms).                *)
SendEnds == pc \in {"cmgs", "pdu"} ~> pc \in {"idle", "down"}

(* The set-up of the modem, which has no time limit, ends although a       *)
(* daemon died before in the middle of a transaction, unless the modem     *)
(* waits for a PDU, and takes the commands for one, or has restarted and   *)
(* forgotten them (init).                                                  *)
InitReturns ==
  pc \in {"cmgf", "cnmi"} ~>
    pc \in {"idle", "down"} \/ modem \in {"prompt", "spoilt"} \/ restarted

(* README.md: "The daemon monitors incoming SMSs and trigger specific      *)
(* commands based on their content": no SMS that the modem forwards is     *)
(* read by anything but wait_sms, or read in vain.                         *)
NoSmsLost == lost = {}

-----------------------------------------------------------------------------
(* The strengthening of OkTrue: the port keeps the order of things.        *)

(* What the modem was told and has not acted on.                           *)
Queue == todo \o rx
PdusIn(q) == {i \in DOMAIN q : q[i].cmd = "pdu"}

(* Every PDU is that of a call.                                            *)
Numbered ==
  /\ pc \in {"cmgs", "pdu"} => call # 0
  /\ modem = "busy" => sending \in 1..call
  /\ \A i \in PdusIn(Queue) : Queue[i].call \in 1..call

(* Nothing was answered since the prompt in s, if there is one.            *)
PromptLast(s) ==
  \A i, j \in DOMAIN s : i < j /\ s[i].text = ">" => s[j].text \notin {">", "OK"}

AtPrompt == modem \in {"prompt", "spoilt"}

(* A PDU is only written to a modem that waits for one, and after its      *)
(* prompt was read.                                                        *)
PromptOrder ==
  /\ PromptLast(line)
  /\ Has(line, ">") => AtPrompt
  /\ PdusIn(Queue) # {} => AtPrompt /\ ~Has(line, ">")
  /\ \A i, j \in PdusIn(Queue) : i = j

(* While its answer is awaited, a PDU is the last that the modem was told, *)
(* and no OK is on the port but its own.                                   *)
AwaitingAnswer ==
  pc = "pdu" =>
    \/ /\ Len(Queue) \in PdusIn(Queue) /\ Queue[Len(Queue)].call = call
       /\ ~Has(line, "OK")
    \/ /\ Queue = <<>> /\ modem = "busy" /\ sending = call
       /\ ~Has(line, "OK")
    \/ /\ Queue = <<>> /\ modem = "command"
       /\ Has(line, "OK") => call \in accepted

OrderInv ==
  /\ TypeOK /\ Numbered /\ OkTrue
  /\ ~restarted => PromptOrder /\ AwaitingAnswer

-----------------------------------------------------------------------------
(* The strengthening of HeardIfAlone: what is on the port of an SMS is all *)
(* of it, unless a part was read.                                          *)

(* The cells of m in s: a "+CMT" before all others, an "end" after them.   *)
Frame(s, m) ==
  \E i, j \in DOMAIN s :
    /\ s[i] = [text |-> "+CMT", sms |-> m] /\ s[j] = [text |-> "end", sms |-> m]
    /\ \A k \in DOMAIN s :
         s[k].sms = m => i <= k /\ k <= j /\ (s[k].text = "end" => k = j)

Framed ==
  /\ pending \cap SmsIn(line) = {}
  /\ \A m \in SmsIn(line) \ lost : Frame(line, m)

(* The inductive invariant of the port.                                    *)
IInv == OrderInv /\ Framed
=============================================================================
