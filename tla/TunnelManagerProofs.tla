------------------------ MODULE TunnelManagerProofs ------------------------
(***************************************************************************)
(* Proofs about TunnelManager for every configuration.  The inductive      *)
(* invariant is IInv of that module; each of its conjuncts has a lemma     *)
(* that says which part of the invariant a step needs to preserve it.      *)
(***************************************************************************)
EXTENDS TunnelManager, FiniteSetTheorems, TLAPS

-----------------------------------------------------------------------------
(* The table.                                                              *)

(* Inserting a tunnel keeps the table a finite map to tunnels.             *)
LEMMA WithTunnelOK ==
  ASSUME TableOK, NEW r \in Nat, NEW t \in Tunnel, tunnels' = WithTunnel(r, t)
  PROVE  TableOK'
<1>1. DOMAIN tunnels' = DOMAIN tunnels \cup {r}
  BY DEF WithTunnel
<1>2. IsFiniteSet(DOMAIN tunnels')
  BY <1>1, FS_AddElement DEF TableOK
<1>3. tunnels' \in [DOMAIN tunnels' -> Tunnel]
  BY DEF WithTunnel, TableOK
<1> QED
  BY <1>1, <1>2, <1>3 DEF TableOK

(* So does removing any set of references.                                 *)
LEMMA WithoutOK ==
  ASSUME TableOK, NEW S, tunnels' = Without(S)
  PROVE  TableOK'
<1>1. DOMAIN tunnels' = DOMAIN tunnels \ S
  BY DEF Without
<1>2. IsFiniteSet(DOMAIN tunnels')
  BY <1>1, FS_Difference DEF TableOK
<1>3. tunnels' \in [DOMAIN tunnels' -> Tunnel]
  BY DEF Without, TableOK
<1> QED
  BY <1>1, <1>2, <1>3 DEF TableOK

(* And a move of the clock, which changes nothing but ages, and what is    *)
(* remembered of them.                                                     *)
LEMMA AgedOK ==
  ASSUME TableOK, NEW d, ClockMoves(d)
  PROVE  /\ TableOK'
         /\ DOMAIN tunnels' = DOMAIN tunnels
         /\ \A r \in DOMAIN tunnels : /\ tunnels'[r].user = tunnels[r].user
                                      /\ tunnels'[r].app = tunnels[r].app
                                      /\ tunnels'[r].proc = tunnels[r].proc
                                      /\ tunnels[r].expired => tunnels'[r].expired
<1>1. PICK ages \in AgesAfter(d) : tunnels' = WithAges(ages)
  BY DEF ClockMoves
<1>2. DOMAIN tunnels' = DOMAIN tunnels
  BY <1>1 DEF WithAges
<1>3. ASSUME NEW r \in DOMAIN tunnels
      PROVE  /\ tunnels'[r] \in Tunnel
             /\ tunnels'[r].user = tunnels[r].user
             /\ tunnels'[r].app = tunnels[r].app
             /\ tunnels'[r].proc = tunnels[r].proc
             /\ tunnels[r].expired => tunnels'[r].expired
  <2> DEFINE e == tunnels[r].expired \/ ages[r] > TunnelTimeout
  <2>1. tunnels[r] \in Tunnel
    BY DEF TableOK
  <2>2. tunnels'[r] = [tunnels[r] EXCEPT !.age = ages[r], !.expired = e]
    BY <1>1 DEF WithAges
  <2>3. ages[r] \in -1..MaxAge /\ e \in BOOLEAN
    BY <2>1 DEF AgesAfter, Tunnel
  <2>4. (ages[r] > TunnelTimeout => e) /\ (tunnels[r].expired => e)
    OBVIOUS
  <2> HIDE DEF e
  <2> QED
    BY <2>1, <2>2, <2>3, <2>4 DEF Tunnel
<1>4. tunnels' \in [DOMAIN tunnels' -> Tunnel]
  BY <1>1, <1>2, <1>3 DEF WithAges
<1> QED
  BY <1>2, <1>3, <1>4 DEF TableOK

(* The empty table.                                                        *)
LEMMA NoTunnelsOK == ASSUME tunnels' = NoTunnels PROVE TableOK' /\ DOMAIN tunnels' = {}
BY FS_EmptySet DEF NoTunnels, TableOK

LEMMA NextReferenceType == TableOK => NextReference \in Nat
BY FS_CardinalityType DEF TableOK, NextReference

-----------------------------------------------------------------------------
(* The steps, grouped by what they leave alone.                            *)

(* Steps that only move the task from one await to another.                *)
Moves ==
  \/ ListenFails \/ ListenAgain \/ RefreshDue \/ UrlRead \/ SetupFails
  \/ HandleStatus \/ NotifyDone

(* Steps that answer without having touched the table.                     *)
RejectCloseAll ==
  /\ Handling("close_all") /\ Answer("rejected")
  /\ UNCHANGED <<table, status, request, locals>>

Answers == HandleInvalid \/ RejectOpen \/ RejectCloseAll \/ CloseUnknown \/ StatusResolved

(* Steps that begin to close references.                                   *)
BeginsClose == HandleClose \/ (Handling("close_all") /\ BeginClose(OwnReferences(UserOf[from])))

(* Steps that give up the tunnel being opened.                             *)
Abandons == StderrWritten \/ StderrClosed \/ EmailFails

(* Steps after which the daemon is down.                                   *)
Halts == Panic \/ Stop \/ MachineReset

(* Every step is one of these or of the actions that stand alone.          *)
LEMMA StepCases ==
  ASSUME [Next]_vars
  PROVE  \/ Moves \/ Answers \/ BeginsClose \/ Abandons \/ Halts
         \/ Start \/ Receive \/ Reply \/ Ignore \/ SpawnSsh \/ EmailSent
         \/ CloseNext \/ BeginCleanUp \/ CleanNext \/ CleanDone
         \/ ProcExit \/ Tick \/ SetClockBack
         \/ UNCHANGED vars
<1>1. CASE HandleCloseAll
  BY <1>1 DEF HandleCloseAll, BeginsClose, Answers, RejectCloseAll
<1> QED
  BY <1>1 DEF Next, MainStep, Environment, Moves, Answers, BeginsClose, Abandons, Halts

-----------------------------------------------------------------------------
(* Type correctness.                                                       *)

(* Each step keeps the types, given what the locals hold.                  *)
LEMMA TypeStep ==
  ASSUME TypeOK, LocalsOK, ChecksHold, [Next]_vars
  PROVE  TypeOK'
<1> USE DEF TypeOK
<1>1. CASE Moves \/ Answers
  <2>1. UNCHANGED <<table, request, locals>>
    BY <1>1 DEF Moves, Answers, ListenFails, ListenAgain, RefreshDue, UrlRead, SetupFails,
                HandleStatus, NotifyDone, HandleInvalid, RejectOpen, RejectCloseAll,
                CloseUnknown, StatusResolved
  <2>2. pc' \in PCs /\ reply' \in Replies /\ status' \in Status
    BY <1>1 DEF Moves, Answers, ListenFails, ListenAgain, RefreshDue, UrlRead, SetupFails,
                HandleStatus, NotifyDone, HandleInvalid, RejectOpen, RejectCloseAll,
                CloseUnknown, StatusResolved, Answer, PCs, Replies
  <2> QED
    BY <2>1, <2>2 DEF table, request, locals, TableOK
<1>2. CASE BeginsClose
  <2>1. PICK S : BeginClose(S) /\ S \in SUBSET Nat
    <3>1. CASE HandleClose
      <4>1. msg.arg \in Nat
        BY <3>1, ConfigAssumption DEF HandleClose, Handling, LocalsOK, Msgs
      <4> QED
        BY <3>1, <4>1 DEF HandleClose
    <3>2. CASE Handling("close_all") /\ BeginClose(OwnReferences(UserOf[from]))
      BY <3>2 DEF OwnReferences, TableOK
    <3> QED
      BY <1>2, <3>1, <3>2 DEF BeginsClose
  <2> QED
    BY <2>1 DEF BeginClose, table, request, TableOK, PCs
<1>3. CASE Abandons
  <2>1. AbandonOpen
    BY <1>3 DEF Abandons, StderrWritten, StderrClosed, EmailFails
  <2> QED
    BY <2>1 DEF AbandonOpen, DropChild, Kill, Answer, request, TableOK, PCs, Replies
<1>4. CASE Halts
  <2>1. Halt /\ alive' \in SUBSET Procs
    BY <1>4 DEF Halts, Panic, Stop, MachineReset, Kill
  <2>2. TableOK'
    BY <2>1, NoTunnelsOK DEF Halt
  <2> QED
    BY <2>1, <2>2 DEF Halt, ForgetRequest, NoStatus, Status, PCs, Replies
<1>5. CASE Start
  BY <1>5 DEF Start, table, request, locals, TableOK, PCs
<1>6. CASE Receive
  BY <1>6 DEF Receive, table, locals, TableOK, PCs
<1>7. CASE Reply \/ Ignore
  BY <1>7 DEF Reply, Ignore, ForgetRequest, table, TableOK, PCs, Replies
<1>8. CASE SpawnSsh
  BY <1>8 DEF SpawnSsh, Answer, request, TableOK, PCs, Replies
<1>9. CASE EmailSent
  <2> DEFINE t == [user |-> UserOf[from], app |-> msg.arg, proc |-> child, age |-> 0,
                   expired |-> FALSE]
  <2>1. t \in Tunnel
    BY <1>9, ConfigAssumption DEF EmailSent, LocalsOK, ChecksHold, Opening, Tunnel, MaxAge
  <2>2. NextReference \in Nat
    BY NextReferenceType
  <2>3. tunnels' = WithTunnel(NextReference, t)
    BY <1>9 DEF EmailSent
  <2> HIDE DEF t
  <2>4. TableOK'
    BY <2>1, <2>2, <2>3, WithTunnelOK
  <2> QED
    BY <1>9, <2>2, <2>4 DEF EmailSent, Kill, Answer, request, PCs, Replies
<1>10. CASE CloseNext
  <2>1. TableOK'
    BY <1>10, WithoutOK DEF CloseNext
  <2> QED
    BY <1>10, <2>1 DEF CloseNext, Kill, Answer, request, PCs, Replies
<1>11. CASE BeginCleanUp
  BY <1>11 DEF BeginCleanUp, table, request, TableOK, PCs
<1>12. CASE CleanNext
  BY <1>12 DEF CleanNext, Kill, request, TableOK, PCs
<1>13. CASE CleanDone
  <2>1. TableOK'
    BY <1>13, WithoutOK DEF CleanDone
  <2> QED
    BY <1>13, <2>1 DEF CleanDone, ForgetRequest, Kill, PCs, Replies
<1>14. CASE ProcExit
  BY <1>14 DEF ProcExit, request, locals, TableOK
<1>15. CASE Tick \/ SetClockBack
  <2>1. TableOK'
    BY <1>15, AgedOK DEF Tick, SetClockBack
  <2> QED
    BY <1>15, <2>1 DEF Tick, SetClockBack, ClockMoves, request, locals
<1>16. CASE UNCHANGED vars
  BY <1>16 DEF vars, TableOK
<1> QED
  BY <1>1, <1>2, <1>3, <1>4, <1>5, <1>6, <1>7, <1>8, <1>9, <1>10, <1>11, <1>12, <1>13,
     <1>14, <1>15, <1>16, StepCases

-----------------------------------------------------------------------------
(* The locals of the task.                                                 *)

(* A request is handled further only for a configured user.                *)
LEMMA HandlingUser ==
  ASSUME LocalsOK, NEW cmd, Handling(cmd)
  PROVE  from \in Phones /\ msg \in Msgs /\ msg.cmd = cmd /\ UserOf[from] \in Users
BY ConfigAssumption DEF LocalsOK, Handling

(* Each step leaves the locals as the await it leads to needs them.        *)
LEMMA LocalsStep ==
  ASSUME TypeOK, LocalsOK, [Next]_vars
  PROVE  LocalsOK'
<1> USE DEF Opening
<1>1. CASE Moves
  <2>1. UNCHANGED <<table, request, locals>>
    BY <1>1 DEF Moves, ListenFails, ListenAgain, RefreshDue, UrlRead, SetupFails,
                HandleStatus, NotifyDone
  <2>2. CASE HandleStatus
    BY <2>1, <2>2, HandlingUser DEF HandleStatus, Handling, LocalsOK, request, locals
  <2>3. CASE ~HandleStatus
    BY <1>1, <2>1, <2>3 DEF Moves, ListenFails, ListenAgain, RefreshDue, UrlRead, SetupFails,
                NotifyDone, LocalsOK, table, request, locals
  <2> QED
    BY <2>2, <2>3
<1>2. CASE Answers
  BY <1>2 DEF Answers, HandleInvalid, RejectOpen, RejectCloseAll, CloseUnknown,
              StatusResolved, Handling, Answer, LocalsOK, request, locals
<1>3. CASE BeginsClose
  <2>1. PICK cmd, S : Handling(cmd) /\ BeginClose(S)
    BY <1>3 DEF BeginsClose, HandleClose
  <2> QED
    BY <2>1, HandlingUser DEF BeginClose, Handling, LocalsOK, request
<1>4. CASE Abandons
  BY <1>4, ConfigAssumption
  DEF Abandons, StderrWritten, StderrClosed, EmailFails, AbandonOpen, DropChild, Answer,
      LocalsOK, request
<1>5. CASE Halts
  BY <1>5, ConfigAssumption
  DEF Halts, Panic, Stop, MachineReset, Halt, ForgetRequest, LocalsOK
<1>6. CASE Start
  BY <1>6 DEF Start, request, locals, LocalsOK
<1>7. CASE Receive
  BY <1>7 DEF Receive, locals, LocalsOK
<1>8. CASE Reply \/ Ignore
  BY <1>8, ConfigAssumption DEF Reply, Ignore, ForgetRequest, LocalsOK
<1>9. CASE SpawnSsh
  BY <1>9, HandlingUser DEF SpawnSsh, Handling, Answer, LocalsOK, request
<1>10. CASE EmailSent
  BY <1>10, ConfigAssumption DEF EmailSent, Answer, LocalsOK, request
<1>11. CASE CloseNext
  BY <1>11 DEF CloseNext, Answer, LocalsOK, request
<1>12. CASE BeginCleanUp
  BY <1>12 DEF BeginCleanUp, LocalsOK, table, request
<1>13. CASE CleanNext
  BY <1>13 DEF CleanNext, LocalsOK, request
<1>14. CASE CleanDone
  BY <1>14, ConfigAssumption DEF CleanDone, ForgetRequest, LocalsOK
<1>15. CASE ProcExit
  BY <1>15 DEF ProcExit, LocalsOK, request, locals
<1>16. CASE Tick \/ SetClockBack
  <2>1. DOMAIN tunnels' = DOMAIN tunnels
    BY <1>16, AgedOK DEF Tick, SetClockBack, TypeOK
  <2> QED
    BY <1>16, <2>1 DEF Tick, SetClockBack, ClockMoves, LocalsOK, request, locals
<1>17. CASE UNCHANGED vars
  BY <1>17 DEF vars, LocalsOK
<1> QED
  BY <1>1, <1>2, <1>3, <1>4, <1>5, <1>6, <1>7, <1>8, <1>9, <1>10, <1>11, <1>12, <1>13,
     <1>14, <1>15, <1>16, <1>17, StepCases

-----------------------------------------------------------------------------
(* The checks of an open request, from the time they are made to the time  *)
(* the tunnel is inserted.                                                 *)

(* Nothing but the task changes whose tunnels are in the table.            *)
LEMMA AgedTable ==
  ASSUME TypeOK, Tick \/ SetClockBack
  PROVE  /\ DOMAIN tunnels' = DOMAIN tunnels
         /\ \A r \in DOMAIN tunnels : /\ tunnels'[r].user = tunnels[r].user
                                      /\ tunnels'[r].app = tunnels[r].app
                                      /\ tunnels'[r].proc = tunnels[r].proc
                                      /\ tunnels[r].expired => tunnels'[r].expired
BY AgedOK DEF TypeOK, Tick, SetClockBack

LEMMA ChecksStep ==
  ASSUME TypeOK, LocalsOK, ChecksHold, [Next]_vars
  PROVE  ChecksHold'
<1> USE DEF Opening
<1>1. CASE SpawnSsh
  <2>1. CASE pc' = "ssh"
    <3>1. MayOpen(UserOf[from], msg.arg) /\ msg.cmd = "open" /\ tunnels' = tunnels
          /\ from' = from /\ msg' = msg
      BY <1>1, <2>1 DEF SpawnSsh, Handling, request
    <3>2. Cardinality(DOMAIN tunnels) \in Nat
      BY FS_CardinalityType DEF TypeOK, TableOK
    <3>3. MaxTunnels # NoMax => Cardinality(DOMAIN tunnels) < MaxTunnels
      BY <3>1, <3>2, ConfigAssumption DEF MayOpen, LimitReached
    <3> QED
      BY <3>1, <3>3 DEF MayOpen, AlreadyOpen, ChecksHold
  <2>2. CASE pc' = "reply"
    BY <2>2 DEF ChecksHold
  <2> QED
    BY <1>1, <2>1, <2>2 DEF SpawnSsh, Answer
<1>2. CASE Tick \/ SetClockBack
  <2>1. pc' = pc /\ from' = from /\ msg' = msg
    BY <1>2 DEF Tick, SetClockBack, ClockMoves, request
  <2> QED
    BY <1>2, <2>1, AgedTable DEF ChecksHold
<1>3. CASE Opening' /\ ~SpawnSsh /\ ~(Tick \/ SetClockBack)
  <2>1. UNCHANGED <<tunnels, request>> /\ Opening
    <3>1. CASE Moves
      BY <1>3, <3>1 DEF Moves, ListenFails, ListenAgain, RefreshDue, UrlRead, SetupFails,
                        HandleStatus, NotifyDone, table
    <3>2. CASE ProcExit \/ UNCHANGED vars
      BY <1>3, <3>2 DEF ProcExit, vars, request
    <3>3. CASE ~Moves /\ ~(ProcExit \/ UNCHANGED vars)
      <4>1. CASE Answers \/ BeginsClose
        BY <1>3, <4>1 DEF Answers, HandleInvalid, RejectOpen, RejectCloseAll, CloseUnknown,
                          StatusResolved, Answer, BeginsClose, HandleClose, BeginClose
      <4>2. CASE Abandons \/ Halts
        BY <1>3, <4>2 DEF Abandons, StderrWritten, StderrClosed, EmailFails, AbandonOpen,
                          Answer, Halts, Panic, Stop, MachineReset, Halt
      <4>3. CASE Start \/ Receive \/ Reply \/ Ignore \/ EmailSent \/ CloseNext
        BY <1>3, <4>3 DEF Start, Receive, Reply, Ignore, EmailSent, CloseNext, Answer
      <4>4. CASE BeginCleanUp \/ CleanNext \/ CleanDone
        BY <1>3, <4>4 DEF BeginCleanUp, CleanNext, CleanDone
      <4> QED
        BY <1>3, <3>3, <4>1, <4>2, <4>3, <4>4, StepCases
    <3> QED
      BY <3>1, <3>2, <3>3
  <2> QED
    BY <2>1 DEF ChecksHold, request
<1>4. CASE ~Opening'
  BY <1>4 DEF ChecksHold
<1> QED
  BY <1>1, <1>2, <1>3, <1>4

-----------------------------------------------------------------------------
(* How a step may change the table.                                        *)

(* It leaves it alone, adds the new tunnel, removes tunnels, or ages them. *)
Shrinks == CloseNext \/ CleanDone \/ Halts
Ages == Tick \/ SetClockBack

LEMMA TableCases == ASSUME [Next]_vars PROVE UNCHANGED tunnels \/ EmailSent \/ Shrinks \/ Ages
<1>1. CASE Moves \/ Answers
  BY <1>1 DEF Moves, Answers, ListenFails, ListenAgain, RefreshDue, UrlRead, SetupFails,
              HandleStatus, NotifyDone, HandleInvalid, RejectOpen, RejectCloseAll,
              CloseUnknown, StatusResolved, table
<1>2. CASE BeginsClose \/ Abandons
  BY <1>2 DEF BeginsClose, HandleClose, BeginClose, Abandons, StderrWritten, StderrClosed,
              EmailFails, AbandonOpen, table
<1>3. CASE Start \/ Receive \/ Reply \/ Ignore \/ SpawnSsh
  BY <1>3 DEF Start, Receive, Reply, Ignore, SpawnSsh, table
<1>4. CASE BeginCleanUp \/ CleanNext \/ ProcExit \/ UNCHANGED vars
  BY <1>4 DEF BeginCleanUp, CleanNext, ProcExit, vars, table
<1> QED
  BY <1>1, <1>2, <1>3, <1>4, StepCases DEF Shrinks, Ages

(* What is left after a removal was there before, unchanged.               *)
LEMMA ShrinksTable ==
  ASSUME Shrinks
  PROVE  /\ DOMAIN tunnels' \subseteq DOMAIN tunnels
         /\ \A r \in DOMAIN tunnels' : tunnels'[r] = tunnels[r]
<1>1. PICK S : tunnels' = Without(S) \/ tunnels' = NoTunnels
  BY DEF Shrinks, CloseNext, CleanDone, Halts, Panic, Stop, MachineReset, Halt
<1> QED
  BY <1>1 DEF Without, NoTunnels

(* After the mail was sent the new tunnel is in the table, beside all the  *)
(* others but the one that had its reference.                              *)
LEMMA EmailSentTable ==
  ASSUME TypeOK, LocalsOK, ChecksHold, EmailSent
  PROVE  /\ NextReference \in Nat
         /\ DOMAIN tunnels' = DOMAIN tunnels \cup {NextReference}
         /\ tunnels'[NextReference] = [user |-> UserOf[from], app |-> msg.arg,
                                       proc |-> child, age |-> 0, expired |-> FALSE]
         /\ \A r \in DOMAIN tunnels \ {NextReference} : tunnels'[r] = tunnels[r]
BY NextReferenceType DEF TypeOK, EmailSent, WithTunnel

-----------------------------------------------------------------------------
(* The conjuncts that relate the tunnels to each other.                    *)

(* A second tunnel of a user to an application is never inserted, because  *)
(* the checks still hold.                                                  *)
LEMMA OneTunnelStep ==
  ASSUME TypeOK, LocalsOK, ChecksHold, OneTunnelPerApplication, [Next]_vars
  PROVE  OneTunnelPerApplication'
<1>1. CASE EmailSent
  <2>1. \A r \in DOMAIN tunnels : ~(tunnels[r].user = UserOf[from] /\ tunnels[r].app = msg.arg)
    BY <1>1 DEF EmailSent, ChecksHold, Opening
  <2> QED
    BY <1>1, <2>1, EmailSentTable DEF OneTunnelPerApplication
<1>2. CASE Shrinks
  BY <1>2, ShrinksTable DEF OneTunnelPerApplication
<1>3. CASE Ages
  BY <1>3, AgedTable DEF Ages, OneTunnelPerApplication
<1>4. CASE UNCHANGED tunnels
  BY <1>4 DEF OneTunnelPerApplication
<1> QED
  BY <1>1, <1>2, <1>3, <1>4, TableCases

(* The table grows by one reference at most, and only from below the limit.*)
LEMMA TableFitsStep ==
  ASSUME TypeOK, LocalsOK, ChecksHold, TableFits, [Next]_vars
  PROVE  TableFits'
<1>0. IsFiniteSet(DOMAIN tunnels) /\ Cardinality(DOMAIN tunnels) \in Nat
  BY FS_CardinalityType DEF TypeOK, TableOK
<1>1. CASE EmailSent
  <2> DEFINE n == Cardinality(DOMAIN tunnels)
  <2>1. Cardinality(DOMAIN tunnels') = IF NextReference \in DOMAIN tunnels THEN n ELSE n + 1
    BY <1>0, <1>1, EmailSentTable, FS_AddElement
  <2>2. /\ Cardinality(DOMAIN tunnels') \in Nat
        /\ Cardinality(DOMAIN tunnels') <= n + 1
    BY <1>0, <2>1
  <2>3. MaxTunnels # NoMax => Cardinality(DOMAIN tunnels) < MaxTunnels
    BY <1>1 DEF EmailSent, ChecksHold, Opening
  <2> QED
    BY <1>0, <2>2, <2>3, ConfigAssumption DEF TableFits
<1>2. CASE Shrinks
  <2>1. DOMAIN tunnels' \in SUBSET DOMAIN tunnels
    BY <1>2, ShrinksTable
  <2>2. /\ Cardinality(DOMAIN tunnels') \in Nat
        /\ Cardinality(DOMAIN tunnels') <= Cardinality(DOMAIN tunnels)
    BY <1>0, <2>1, FS_Subset, FS_CardinalityType
  <2> QED
    BY <1>0, <2>2, ConfigAssumption DEF TableFits
<1>3. CASE Ages
  BY <1>3, AgedTable DEF Ages, TableFits
<1>4. CASE UNCHANGED tunnels
  BY <1>4 DEF TableFits
<1> QED
  BY <1>1, <1>2, <1>3, <1>4, TableCases

(* A process is held once: a new one is not held, and it enters the table  *)
(* when it stops being the child.                                          *)
LEMMA HeldOnceStep ==
  ASSUME TypeOK, LocalsOK, ChecksHold, HeldOnce, [Next]_vars
  PROVE  HeldOnce'
<1>0. \A r \in DOMAIN tunnels : tunnels[r].proc \in Procs /\ tunnels[r].proc # NoProc
  BY ConfigAssumption DEF TypeOK, TableOK, Tunnel
<1>1. CASE SpawnSsh
  <2>1. child' = child \/ child' \notin Held
    BY <1>1 DEF SpawnSsh
  <2>2. tunnels' = tunnels
    BY <1>1 DEF SpawnSsh
  <2> QED
    BY <2>1, <2>2 DEF HeldOnce, Held, TableProcs
<1>2. CASE EmailSent
  <2>1. child' = NoProc /\ child \in Procs /\ NoProc \notin Procs
    BY <1>2, ConfigAssumption DEF EmailSent, LocalsOK, Opening
  <2> QED
    BY <1>0, <1>2, <2>1, EmailSentTable DEF HeldOnce
<1>3. CASE Shrinks
  <2>1. child' = child \/ child' = NoProc
    BY <1>3 DEF Shrinks, CloseNext, CleanDone, Halts, Panic, Stop, MachineReset, Halt,
                ForgetRequest
  <2> QED
    BY <1>0, <1>3, <2>1, ShrinksTable DEF HeldOnce
<1>4. CASE Ages
  <2>1. child' = child
    BY <1>4 DEF Ages, Tick, SetClockBack, ClockMoves, locals
  <2> QED
    BY <1>4, <2>1, AgedTable DEF Ages, HeldOnce
<1>5. CASE UNCHANGED tunnels /\ ~SpawnSsh
  <2>1. child' = child \/ child' = NoProc
    <3>1. CASE Moves \/ Answers
      BY <3>1 DEF Moves, Answers, ListenFails, ListenAgain, RefreshDue, UrlRead, SetupFails,
                  HandleStatus, NotifyDone, HandleInvalid, RejectOpen, RejectCloseAll,
                  CloseUnknown, StatusResolved, locals
    <3>2. CASE BeginsClose \/ Abandons \/ Halts
      BY <3>2 DEF BeginsClose, HandleClose, BeginClose, Abandons, StderrWritten, StderrClosed,
                  EmailFails, AbandonOpen, DropChild, Halts, Panic, Stop, MachineReset, Halt,
                  ForgetRequest
    <3>3. CASE Start \/ Receive \/ Reply \/ Ignore \/ EmailSent \/ CloseNext
      BY <3>3 DEF Start, Receive, Reply, Ignore, EmailSent, CloseNext, ForgetRequest, locals
    <3>4. CASE BeginCleanUp \/ CleanNext \/ CleanDone
      BY <3>4 DEF BeginCleanUp, CleanNext, CleanDone, ForgetRequest
    <3>5. CASE ProcExit \/ Ages \/ UNCHANGED vars
      BY <3>5 DEF ProcExit, Ages, Tick, SetClockBack, ClockMoves, vars, locals
    <3> QED
      BY <1>5, <3>1, <3>2, <3>3, <3>4, <3>5, StepCases DEF Ages
  <2> QED
    BY <1>0, <1>5, <2>1 DEF HeldOnce
<1> QED
  BY <1>1, <1>2, <1>3, <1>4, <1>5, TableCases

-----------------------------------------------------------------------------
(* The close command and the answers.                                      *)

(* Steps in which the task has no part.                                    *)
Outside == ProcExit \/ Ages \/ UNCHANGED vars

LEMMA OutsideKeeps ==
  ASSUME TypeOK, Outside
  PROVE  /\ UNCHANGED <<pc, from, msg, child, refs, todo, reply>>
         /\ DOMAIN tunnels' = DOMAIN tunnels
         /\ \A r \in DOMAIN tunnels : /\ tunnels'[r].user = tunnels[r].user
                                      /\ tunnels'[r].app = tunnels[r].app
                                      /\ tunnels'[r].proc = tunnels[r].proc
<1>1. CASE Ages
  BY <1>1, AgedTable DEF Ages, Tick, SetClockBack, ClockMoves, request, locals
<1>2. CASE ProcExit \/ UNCHANGED vars
  BY <1>2 DEF ProcExit, vars, request, locals
<1> QED
  BY <1>1, <1>2 DEF Outside

(* Where the task is after a step of its own.                              *)
LEMMA NextPlace ==
  ASSUME [Next]_vars
  PROVE  \/ Outside
         \/ BeginsClose /\ pc' = "close"
         \/ CloseNext /\ pc = "close"
         \/ EmailSent /\ pc' = "reply" /\ reply' = "opened"
         \/ CleanNext /\ pc' = "notify"
         \/ BeginCleanUp /\ pc' = "clean"
         \/ NotifyDone /\ pc' = "clean"
         \/ pc' = "reply" /\ reply' \in {"rejected", "failed", "status"}
         \/ pc' \notin {"close", "reply", "clean", "notify"}
<1>1. CASE Moves \/ Answers
  BY <1>1 DEF Moves, Answers, ListenFails, ListenAgain, RefreshDue, UrlRead, SetupFails,
              HandleStatus, NotifyDone, HandleInvalid, RejectOpen, RejectCloseAll,
              CloseUnknown, StatusResolved, Answer
<1>2. CASE BeginsClose \/ CloseNext
  BY <1>2 DEF BeginsClose, HandleClose, BeginClose, CloseNext
<1>3. CASE Abandons \/ Halts
  BY <1>3 DEF Abandons, StderrWritten, StderrClosed, EmailFails, AbandonOpen, Answer,
              Halts, Panic, Stop, MachineReset, Halt
<1>4. CASE Start \/ Receive \/ Reply \/ Ignore \/ SpawnSsh \/ EmailSent
  BY <1>4 DEF Start, Receive, Reply, Ignore, SpawnSsh, EmailSent, Answer
<1>5. CASE BeginCleanUp \/ CleanNext \/ CleanDone
  BY <1>5 DEF BeginCleanUp, CleanNext, CleanDone
<1> QED
  BY <1>1, <1>2, <1>3, <1>4, <1>5, StepCases DEF Outside, Ages

(* A close without a reference begins with all the sender's tunnels, and   *)
(* each iteration takes one of what is left.                               *)
LEMMA ClosingStep ==
  ASSUME TypeOK, LocalsOK, ClosingOK, [Next]_vars
  PROVE  ClosingOK'
<1>1. CASE Outside
  BY <1>1, OutsideKeeps DEF ClosingOK
<1>2. CASE BeginsClose
  <2>1. CASE HandleClose
    BY <2>1 DEF HandleClose, Handling, BeginClose, ClosingOK, table, request
  <2>2. CASE Handling("close_all") /\ BeginClose(OwnReferences(UserOf[from]))
    BY <2>2 DEF BeginClose, OwnReferences, ClosingOK, table, request
  <2> QED
    BY <1>2, <2>1, <2>2 DEF BeginsClose
<1>3. CASE CloseNext
  <2>1. PICK r \in todo \cap DOMAIN tunnels : tunnels' = Without({r}) /\ todo' = todo \ {r}
    BY <1>3 DEF CloseNext
  <2>2. /\ DOMAIN tunnels' = DOMAIN tunnels \ {r}
        /\ \A s \in DOMAIN tunnels' : tunnels'[s] = tunnels[s]
    BY <2>1 DEF Without
  <2>3. refs' = refs /\ from' = from /\ msg' = msg /\ pc = "close"
    BY <1>3 DEF CloseNext, request
  <2> QED
    BY <2>1, <2>2, <2>3 DEF ClosingOK
<1>4. CASE pc' # "close"
  BY <1>4 DEF ClosingOK
<1> QED
  BY <1>1, <1>2, <1>3, <1>4, NextPlace

(* The responses are true when they are given, and stay true until they    *)
(* have been sent.                                                         *)
LEMMA AnswersStep ==
  ASSUME TypeOK, LocalsOK, ChecksHold, ClosingOK, AnswersHold, [Next]_vars
  PROVE  AnswersHold'
<1>1. CASE Outside
  BY <1>1, OutsideKeeps DEF AnswersHold
<1>2. CASE CloseNext
  <2>1. CASE pc' = "reply" /\ reply' = "closed"
    <3>1. todo' = {}
      BY <1>2, <2>1 DEF CloseNext, Answer
    <3>2. PICK r \in todo \cap DOMAIN tunnels : tunnels' = Without({r}) /\ todo' = todo \ {r}
      BY <1>2 DEF CloseNext
    <3>3. /\ DOMAIN tunnels' = DOMAIN tunnels \ {r}
          /\ \A s \in DOMAIN tunnels' : tunnels'[s] = tunnels[s]
      BY <3>2 DEF Without
    <3>4. refs' = refs /\ from' = from /\ msg' = msg /\ pc = "close"
      BY <1>2 DEF CloseNext, request
    <3> QED
      BY <2>1, <3>1, <3>2, <3>3, <3>4 DEF ClosingOK, AnswersHold
  <2>2. CASE pc' # "reply" \/ reply' = "failed"
    BY <2>2 DEF AnswersHold
  <2> QED
    BY <1>2, <2>1, <2>2 DEF CloseNext, Answer
<1>3. CASE EmailSent
  <2>1. refs' = {NextReference} /\ from' = from /\ msg' = msg /\ reply' = "opened"
    BY <1>3 DEF EmailSent, Answer, request
  <2> QED
    BY <1>3, <2>1, EmailSentTable DEF AnswersHold
<1>4. CASE pc' # "reply" \/ reply' \in {"rejected", "failed", "status"}
  BY <1>4 DEF AnswersHold
<1> QED
  BY <1>1, <1>2, <1>3, <1>4, NextPlace

-----------------------------------------------------------------------------
(* The clean-up.                                                           *)

(* A killed process stays dead until its tunnel has left the table, since  *)
(* no process is started during the clean-up.                              *)
LEMMA KilledStep ==
  ASSUME TypeOK, LocalsOK, KilledBeforeNotice, [Next]_vars
  PROVE  KilledBeforeNotice'
<1>1. CASE Outside
  <2>1. alive' \subseteq alive
    BY <1>1 DEF Outside, ProcExit, Ages, Tick, SetClockBack, ClockMoves, vars
  <2> QED
    BY <1>1, <2>1, OutsideKeeps DEF KilledBeforeNotice, ProcsOf
<1>2. CASE CleanNext
  <2>1. PICK r \in todo : alive' = Kill(ProcsOf({r})) /\ refs' = refs \cup {r}
    BY <1>2 DEF CleanNext
  <2>2. r \in DOMAIN tunnels /\ tunnels' = tunnels /\ pc = "clean"
    BY <1>2 DEF CleanNext, LocalsOK
  <2> QED
    BY <2>1, <2>2 DEF KilledBeforeNotice, Kill, ProcsOf
<1>3. CASE BeginCleanUp
  <2>1. refs' = {}
    BY <1>3 DEF BeginCleanUp, LocalsOK
  <2> QED
    BY <2>1 DEF KilledBeforeNotice, ProcsOf
<1>4. CASE NotifyDone
  BY <1>4 DEF NotifyDone, KilledBeforeNotice, ProcsOf, table, locals
<1>5. CASE pc' \notin {"clean", "notify"}
  BY <1>5 DEF KilledBeforeNotice
<1> QED
  BY <1>1, <1>2, <1>3, <1>4, <1>5, NextPlace DEF CloseNext, Answer

(* What was chosen stays what had expired, wherever the clock goes.        *)
LEMMA ChosenStep ==
  ASSUME TypeOK, LocalsOK, ChosenExpired, [Next]_vars
  PROVE  ChosenExpired'
<1>1. CASE Ages
  BY <1>1, OutsideKeeps, AgedTable DEF Ages, Outside, ChosenExpired
<1>2. CASE ProcExit \/ UNCHANGED vars
  BY <1>2 DEF ProcExit, vars, locals, ChosenExpired
<1>3. CASE CleanNext
  BY <1>3 DEF CleanNext, ChosenExpired
<1>4. CASE BeginCleanUp
  <2>1. refs' = {} /\ todo' = {r \in DOMAIN tunnels : Expired(r)} /\ tunnels' = tunnels
    BY <1>4 DEF BeginCleanUp, LocalsOK, table
  <2> QED
    BY <2>1 DEF ChosenExpired, Expired, TypeOK, TableOK, Tunnel
<1>5. CASE NotifyDone
  BY <1>5 DEF NotifyDone, ChosenExpired, table, locals
<1>6. CASE pc' \notin {"clean", "notify"}
  BY <1>6 DEF ChosenExpired
<1> QED
  BY <1>1, <1>2, <1>3, <1>4, <1>5, <1>6, NextPlace DEF Outside, CloseNext, Answer

-----------------------------------------------------------------------------
(* The ssh processes.                                                      *)

(* No step of the task, a panic included, makes or forgets an orphan.      *)
LEMMA OrphansKept ==
  ASSUME TypeOK, LocalsOK, [Next]_vars, ~Stop, ~ProcExit, ~MachineReset
  PROVE  alive \ Held = alive' \ Held'
<1>0. /\ NoProc \notin Procs
      /\ ~Opening => child = NoProc
      /\ Opening => child \in Procs
  BY ConfigAssumption DEF TypeOK, LocalsOK
<1>1. CASE UNCHANGED <<tunnels, alive, child>>
  BY <1>1 DEF Held, TableProcs
<1>2. CASE Reply \/ Ignore
  <2>1. child = NoProc /\ child' = NoProc
    BY <1>0, <1>2 DEF Reply, Ignore, ForgetRequest, Opening
  <2> QED
    BY <1>2, <2>1 DEF Reply, Ignore, table, Held, TableProcs
<1>3. CASE SpawnSsh
  <2>1. child = NoProc /\ tunnels' = tunnels
    BY <1>0, <1>3 DEF SpawnSsh, Handling, Opening
  <2>2. CASE UNCHANGED <<alive, child>>
    BY <2>1, <2>2 DEF Held, TableProcs
  <2>3. ASSUME NEW p \in Procs \ (alive \cup Held), child' = p, alive' = alive \cup {p}
        PROVE  alive \ Held = alive' \ Held'
    BY <1>0, <2>1, <2>3 DEF Held, TableProcs
  <2> QED
    BY <1>3, <2>2, <2>3 DEF SpawnSsh
<1>4. CASE Abandons
  <2>1. /\ child \in Procs /\ child' = NoProc
        /\ alive' = alive \ {child} /\ tunnels' = tunnels
    BY <1>0, <1>4 DEF Abandons, StderrWritten, StderrClosed, EmailFails, AbandonOpen, DropChild,
                      Kill, Opening
  <2> QED
    BY <1>0, <2>1 DEF Held, TableProcs
<1>5. CASE EmailSent
  <2>1. /\ child \in Procs /\ child' = NoProc
        /\ alive' = alive \ ProcsOf({NextReference})
        /\ tunnels' = WithTunnel(NextReference, [user |-> UserOf[from], app |-> msg.arg,
                                                 proc |-> child, age |-> 0, expired |-> FALSE])
    BY <1>0, <1>5 DEF EmailSent, Kill, Opening
  <2>2. TableProcs' = {tunnels[r].proc : r \in DOMAIN tunnels \ {NextReference}} \cup {child}
    BY <2>1 DEF TableProcs, WithTunnel
  <2> QED
    BY <1>0, <2>1, <2>2 DEF Held, TableProcs, ProcsOf
<1>6. CASE CloseNext \/ CleanDone
  <2>1. PICK S : tunnels' = Without(S) /\ alive' = alive \ ProcsOf(S)
    BY <1>6 DEF CloseNext, CleanDone, Kill
  <2>2. child = NoProc /\ child' = NoProc
    BY <1>0, <1>6 DEF CloseNext, CleanDone, ForgetRequest, Opening
  <2>3. TableProcs' = {tunnels[r].proc : r \in DOMAIN tunnels \ S}
    BY <2>1 DEF TableProcs, Without
  <2> QED
    BY <2>1, <2>2, <2>3 DEF Held, TableProcs, ProcsOf
<1>7. CASE CleanNext
  <2>1. PICK r \in todo : alive' = alive \ ProcsOf({r})
    BY <1>7 DEF CleanNext, Kill
  <2>2. tunnels' = tunnels /\ child' = child
    BY <1>7 DEF CleanNext
  <2> QED
    BY <2>1, <2>2 DEF Held, TableProcs, ProcsOf
<1>8. CASE Panic
  <2>1. alive' = alive \ Held /\ tunnels' = NoTunnels /\ child' = NoProc
    BY <1>8 DEF Panic, Halt, ForgetRequest, Kill
  <2> QED
    BY <2>1 DEF Held, TableProcs, NoTunnels
<1>9. CASE Ages
  <2>1. alive' = alive /\ child' = child
    BY <1>9 DEF Ages, Tick, SetClockBack, ClockMoves, locals
  <2>2. TableProcs' = TableProcs
    BY <1>9, AgedTable DEF Ages, TableProcs
  <2> QED
    BY <2>1, <2>2 DEF Held
<1>10. CASE Moves \/ Answers \/ BeginsClose \/ Start \/ Receive \/ BeginCleanUp \/ UNCHANGED vars
  <2>1. UNCHANGED <<tunnels, alive, child>>
    BY <1>10 DEF Moves, Answers, ListenFails, ListenAgain, RefreshDue, UrlRead, SetupFails,
                 HandleStatus, NotifyDone, HandleInvalid, RejectOpen, RejectCloseAll,
                 CloseUnknown, StatusResolved, BeginsClose, HandleClose, BeginClose,
                 Start, Receive, BeginCleanUp, table, locals, vars
  <2> QED
    BY <1>1, <2>1
<1> QED
  BY <1>2, <1>3, <1>4, <1>5, <1>6, <1>7, <1>8, <1>9, <1>10, StepCases DEF Halts, Ages

LEMMA TrackedStep ==
  ASSUME TypeOK, LocalsOK, LiveTracked, "stop" \notin Faults, [Next]_vars
  PROVE  LiveTracked'
<1>1. CASE ProcExit
  BY <1>1 DEF ProcExit, locals, LiveTracked, Held, TableProcs
<1>2. CASE MachineReset
  BY <1>2 DEF MachineReset, LiveTracked
<1>3. CASE ~ProcExit /\ ~MachineReset
  <2>1. ~Stop
    BY DEF Stop
  <2>2. alive \ Held = alive' \ Held'
    BY <1>3, <2>1, OrphansKept
  <2> QED
    BY <2>2 DEF LiveTracked
<1> QED
  BY <1>1, <1>2, <1>3

-----------------------------------------------------------------------------
(* The inductive invariant and what follows from it.                       *)

LEMMA InitInvariant == Init => IInv
<1> SUFFICES ASSUME Init PROVE IInv
  OBVIOUS
<1>1. DOMAIN tunnels = {}
  BY DEF Init, NoTunnels
<1>2. TableOK
  BY <1>1, FS_EmptySet DEF Init, NoTunnels, TableOK
<1>3. TypeOK
  BY <1>2 DEF Init, TypeOK, NoStatus, Status, PCs, Replies
<1>4. LocalsOK /\ ChecksHold
  BY ConfigAssumption DEF Init, LocalsOK, ChecksHold, Opening
<1>5. TableFits
  BY <1>1, FS_EmptySet, ConfigAssumption DEF TableFits
<1>6. HeldOnce /\ ClosingOK /\ ChosenExpired /\ OneTunnelPerApplication
  BY <1>1 DEF HeldOnce, ClosingOK, ChosenExpired, OneTunnelPerApplication, Init
<1>7. AnswersHold /\ KilledBeforeNotice /\ LiveTracked
  BY DEF Init, AnswersHold, KilledBeforeNotice, LiveTracked
<1> QED
  BY <1>3, <1>4, <1>5, <1>6, <1>7 DEF IInv

LEMMA NextInvariant == IInv /\ [Next]_vars => IInv'
<1> SUFFICES ASSUME IInv, [Next]_vars PROVE IInv'
  OBVIOUS
<1> USE DEF IInv
<1>1. TypeOK' /\ LocalsOK' /\ ChecksHold'
  BY TypeStep, LocalsStep, ChecksStep
<1>2. TableFits' /\ HeldOnce' /\ OneTunnelPerApplication'
  BY TableFitsStep, HeldOnceStep, OneTunnelStep
<1>3. ClosingOK' /\ AnswersHold'
  BY ClosingStep, AnswersStep
<1>4. KilledBeforeNotice' /\ ChosenExpired'
  BY KilledStep, ChosenStep
<1>5. "stop" \notin Faults => LiveTracked'
  BY TrackedStep
<1> QED
  BY <1>1, <1>2, <1>3, <1>4, <1>5

(* The invariant holds in every reachable state.                           *)
THEOREM Invariance == Spec => []IInv
BY InitInvariant, NextInvariant, PTL DEF Spec

(* Every variable keeps its type; in particular every tunnel in the table  *)
(* belongs to a configured user and a configured application.              *)
THEOREM TypeCorrect == Spec => []TypeOK
<1>1. IInv => TypeOK
  BY DEF IInv
<1> QED
  BY <1>1, Invariance, PTL

(* No user ever has two tunnels to one application, whatever was awaited   *)
(* between the check of handle_request and the insertion.                  *)
THEOREM OneTunnelTheorem == Spec => []OneTunnelPerApplication
<1>1. IInv => OneTunnelPerApplication
  BY DEF IInv
<1> QED
  BY <1>1, Invariance, PTL

(* What a response says about references is true while it is being sent.   *)
THEOREM AnswersTheorem == Spec => []AnswersHold
<1>1. IInv => AnswersHold
  BY DEF IInv
<1> QED
  BY <1>1, Invariance, PTL

(* A user is told that a tunnel has been closed only when its process is   *)
(* dead.                                                                   *)
THEOREM NoticeTheorem == Spec => []KilledBeforeNotice
<1>1. IInv => KilledBeforeNotice
  BY DEF IInv
<1> QED
  BY <1>1, Invariance, PTL

(* When the daemon is never signalled, no ssh process escapes it.          *)
THEOREM NoOrphans == ASSUME "stop" \notin Faults PROVE Spec => []LiveTracked
<1>1. IInv => LiveTracked
  BY DEF IInv
<1> QED
  BY <1>1, Invariance, PTL

(* When it is, nothing but the signal makes an orphan.                     *)
THEOREM OrphansTheorem == Spec => OnlyStopOrphans
<1>1. IInv /\ [Next]_vars
        => [alive \ Held # alive' \ Held' => Stop \/ ProcExit \/ MachineReset]_vars
  BY OrphansKept DEF IInv
<1> QED
  BY <1>1, Invariance, PTL DEF Spec, OnlyStopOrphans

-----------------------------------------------------------------------------
(* The limit, the clean-up's promise and the single reference.             *)

(* The processes of the table are no more than its references.             *)
LEMMA TableProcsBound ==
  ASSUME TableOK
  PROVE  /\ IsFiniteSet(TableProcs)
         /\ Cardinality(TableProcs) \in Nat
         /\ Cardinality(TableProcs) <= Cardinality(DOMAIN tunnels)
<1> DEFINE f == [r \in DOMAIN tunnels |-> tunnels[r].proc]
<1>1. f \in Surjection(DOMAIN tunnels, TableProcs)
  BY DEF Surjection, TableProcs
<1>2. IsFiniteSet(DOMAIN tunnels)
  BY DEF TableOK
<1> HIDE DEF f
<1> QED
  BY <1>1, <1>2, FS_Surjection, FS_CardinalityType

(* The check of the limit bounds the ssh processes and not only the table. *)
THEOREM TunnelLimitTheorem == ASSUME "stop" \notin Faults PROVE Spec => []TunnelLimit
<1>1. ASSUME IInv, MaxTunnels # NoMax PROVE Cardinality(alive) <= MaxTunnels
  <2> DEFINE n == Cardinality(DOMAIN tunnels)  k == Cardinality(TableProcs)
  <2>1. /\ IsFiniteSet(TableProcs) /\ k \in Nat /\ k <= n /\ n \in Nat
    BY <1>1, TableProcsBound, FS_CardinalityType DEF IInv, TypeOK, TableOK
  <2>2. /\ IsFiniteSet(Held) /\ Cardinality(Held) \in Nat
        /\ Cardinality(Held) <= MaxTunnels
    <3>1. CASE Opening
      <4>1. n < MaxTunnels /\ MaxTunnels \in Nat
        BY <1>1, <3>1, ConfigAssumption DEF IInv, ChecksHold
      <4>2. Held = TableProcs \cup {child}
        BY <1>1, <3>1, ConfigAssumption DEF IInv, LocalsOK, Held
      <4>3. /\ IsFiniteSet(Held)
            /\ Cardinality(Held) = IF child \in TableProcs THEN k ELSE k + 1
        BY <2>1, <4>2, FS_AddElement
      <4> QED
        BY <2>1, <4>1, <4>3
    <3>2. CASE ~Opening
      <4>1. n <= MaxTunnels /\ MaxTunnels \in Nat
        BY <1>1, ConfigAssumption DEF IInv, TableFits
      <4>2. child = NoProc
        BY <1>1, <3>2 DEF IInv, LocalsOK, TypeOK
      <4>3. Held = TableProcs
        BY <4>2 DEF Held
      <4> QED
        BY <2>1, <4>1, <4>3
    <3> QED
      BY <3>1, <3>2
  <2>3. alive \in SUBSET Held
    BY <1>1 DEF IInv, LiveTracked
  <2>4. Cardinality(alive) \in Nat /\ Cardinality(alive) <= Cardinality(Held)
    BY <2>2, <2>3, FS_Subset, FS_CardinalityType
  <2> QED
    BY <2>2, <2>4, <1>1, ConfigAssumption
<1>2. IInv => TunnelLimit
  BY <1>1 DEF TunnelLimit
<1> QED
  BY <1>2, Invariance, PTL

(* No tunnel is killed or removed by the clean-up before its time.         *)
THEOREM NeverEarlyTheorem == Spec => NeverCleanedEarly
<1> DEFINE Due(r) ==
      \/ tunnels[r].expired
      \/ r \in DOMAIN tunnels' /\ (tunnels[r].proc \in alive => tunnels[r].proc \in alive')
<1>1. ASSUME IInv, [Next]_vars, pc = "clean", pc' \in {"notify", "wait"},
             NEW r \in DOMAIN tunnels
      PROVE  Due(r)
  <2>1. CleanNext \/ CleanDone
    <3>1. CASE Outside
      BY <1>1, <3>1, OutsideKeeps DEF IInv
    <3>2. CASE Moves \/ Answers \/ BeginsClose \/ Abandons \/ Halts
      BY <1>1, <3>2
      DEF Moves, Answers, ListenFails, ListenAgain, RefreshDue, UrlRead, SetupFails,
          HandleStatus, NotifyDone, HandleInvalid, RejectOpen, RejectCloseAll, CloseUnknown,
          StatusResolved, Answer, Handling, BeginsClose, HandleClose, Abandons, StderrWritten,
          StderrClosed, EmailFails, Halts, Panic, Stop, MachineReset, Halt
    <3>3. CASE Start \/ Receive \/ Reply \/ Ignore \/ SpawnSsh \/ EmailSent \/ CloseNext \/ BeginCleanUp
      BY <1>1, <3>3 DEF Start, Receive, Reply, Ignore, SpawnSsh, Handling, EmailSent, CloseNext,
                        BeginCleanUp
    <3> QED
      BY <1>1, <3>1, <3>2, <3>3, StepCases DEF Outside, Ages
  <2>2. PICK S \in SUBSET (todo \cup refs) :
          /\ alive' = alive \ ProcsOf(S)
          /\ tunnels' = tunnels \/ tunnels' = Without(S)
    <3>1. CASE CleanNext
      BY <3>1 DEF CleanNext, Kill
    <3>2. CASE CleanDone
      BY <3>2 DEF CleanDone, Kill
    <3> QED
      BY <2>1, <3>1, <3>2
  <2>3. CASE r \in S
    BY <1>1, <2>2, <2>3 DEF IInv, ChosenExpired
  <2>4. CASE r \notin S
    <3>1. r \in DOMAIN tunnels'
      BY <1>1, <2>2, <2>4 DEF Without
    <3>2. tunnels[r].proc \notin ProcsOf(S)
      BY <1>1, <2>4 DEF IInv, HeldOnce, ProcsOf
    <3>3. alive' = alive \ ProcsOf(S)
      BY <2>2
    <3>4. tunnels[r].proc \in alive => tunnels[r].proc \in alive'
      BY <3>2, <3>3
    <3> QED
      BY <3>1, <3>4
  <2> QED
    BY <2>3, <2>4
<1>2. IInv /\ [Next]_vars
        => [pc = "clean" /\ pc' \in {"notify", "wait"} => \A r \in DOMAIN tunnels : Due(r)]_vars
  BY <1>1
<1> QED
  BY <1>2, Invariance, PTL DEF Spec, NeverCleanedEarly

-----------------------------------------------------------------------------
(* With tunnel_max_number = 1 the number of tunnels is a free reference.   *)

LEMMA FirstReference ==
  ASSUME IInv, MaxTunnels = 1, EmailSent
  PROVE  DOMAIN tunnels = {} /\ NextReference = 0
<1>1. IsFiniteSet(DOMAIN tunnels) /\ Cardinality(DOMAIN tunnels) \in Nat
  BY FS_CardinalityType DEF IInv, TypeOK, TableOK
<1>2. Cardinality(DOMAIN tunnels) < 1
  BY ConfigAssumption DEF IInv, ChecksHold, Opening, EmailSent
<1>3. Cardinality(DOMAIN tunnels) = 0
  BY <1>1, <1>2
<1> QED
  BY <1>1, <1>3, FS_EmptySet DEF NextReference

(* A reference then stands for one tunnel as long as it is in the table.   *)
THEOREM ReferenceTheorem == ASSUME MaxTunnels = 1 PROVE Spec => ReferenceStable
<1>1. ASSUME IInv, [Next]_vars, NEW r \in DOMAIN tunnels \cap DOMAIN tunnels'
      PROVE  tunnels'[r].proc = tunnels[r].proc
  <2>1. CASE EmailSent
    BY <1>1, <2>1, FirstReference
  <2>2. CASE Shrinks
    BY <1>1, <2>2, ShrinksTable
  <2>3. CASE Ages
    BY <1>1, <2>3, AgedTable DEF Ages, IInv
  <2>4. CASE UNCHANGED tunnels
    BY <2>4
  <2> QED
    BY <1>1, <2>1, <2>2, <2>3, <2>4, TableCases
<1>2. IInv /\ [Next]_vars
        => [\A r \in DOMAIN tunnels \cap DOMAIN tunnels' : tunnels'[r].proc = tunnels[r].proc]_vars
  BY <1>1
<1> QED
  BY <1>2, Invariance, PTL DEF Spec, ReferenceStable

(* And the daemon gives the service of TunnelService: each of its steps    *)
(* opens one tunnel there, ends some, or leaves the open tunnels alone.    *)
THEOREM ImplementationTheorem == ASSUME MaxTunnels = 1 PROVE Spec => ImplementsService
<1>1. Init => Service!Init
  BY DEF Init, Service!Init, Grants, NoTunnels
<1>2. IInv /\ [Next]_vars => [Service!Next]_Grants
  <2> SUFFICES ASSUME IInv, [Next]_vars PROVE [Service!Next]_Grants
    OBVIOUS
  <2>1. CASE EmailSent
    <3> DEFINE g == [user |-> UserOf[from], app |-> msg.arg]
    <3>1. DOMAIN tunnels = {} /\ NextReference = 0
      BY <2>1, FirstReference
    <3>2. DOMAIN Grants = {} /\ Cardinality(DOMAIN Grants) = 0
      BY <3>1, FS_EmptySet DEF Grants
    <3>3. g \in Service!Grant
      BY <2>1 DEF IInv, LocalsOK, ChecksHold, Opening, EmailSent, Service!Grant
    <3>4. 0 \in 0..Cardinality(Procs)
      BY FS_CardinalityType, ConfigAssumption
    <3>5. /\ DOMAIN tunnels' = {0}
          /\ tunnels'[0].user = UserOf[from] /\ tunnels'[0].app = msg.arg
      BY <2>1, <3>1, EmailSentTable DEF IInv
    <3>6. Grants' = [s \in DOMAIN Grants \cup {0} |-> IF s = 0 THEN g ELSE Grants[s]]
      BY <3>2, <3>5 DEF Grants
    <3>7. Service!Open
      <4>1. 0 \in (0..Cardinality(Procs)) \ DOMAIN Grants
        BY <3>2, <3>4
      <4> HIDE DEF g
      <4> QED
        BY <3>2, <3>3, <3>6, <4>1 DEF Service!Open
    <3> QED
      BY <3>7 DEF Service!Next
  <2>2. CASE Shrinks
    <3> DEFINE S == DOMAIN tunnels \ DOMAIN tunnels'
    <3>1. Grants' = [s \in DOMAIN Grants \ S |-> Grants[s]] /\ S \in SUBSET DOMAIN Grants
      BY <2>2, ShrinksTable DEF Grants
    <3>2. Service!End
      BY <3>1 DEF Service!End
    <3> QED
      BY <3>2 DEF Service!Next
  <2>3. CASE Ages \/ UNCHANGED tunnels
    <3>1. Grants' = Grants
      BY <2>3, AgedTable DEF Ages, IInv, Grants
    <3> QED
      BY <3>1
  <2> QED
    BY <2>1, <2>2, <2>3, TableCases
<1> QED
  BY <1>1, <1>2, Invariance, PTL DEF Spec, ImplementsService, Service!Spec

(* The table never outgrows the number of processes, as each of its        *)
(* tunnels has one of its own: the next reference is one of the service's. *)
LEMMA NextReferenceFits ==
  ASSUME TypeOK, HeldOnce
  PROVE  NextReference \in 0..Cardinality(Procs)
<1>1. [r \in DOMAIN tunnels |-> tunnels[r].proc] \in Injection(DOMAIN tunnels, Procs)
  <2>1. \A r \in DOMAIN tunnels : tunnels[r].proc \in Procs
    BY DEF TypeOK, TableOK, Tunnel
  <2> QED
    BY <2>1 DEF Injection, IsInjective, HeldOnce
<1>2. Cardinality(DOMAIN tunnels) <= Cardinality(Procs)
  BY <1>1, FS_Injection, ConfigAssumption
<1> QED
  BY <1>2, NextReferenceType, FS_CardinalityType, ConfigAssumption DEF TypeOK, NextReference

(* With any limit the daemon gives the weaker service, in which a new      *)
(* tunnel may take the reference of another one: what a user is granted is *)
(* never a second tunnel to an application, nor one beyond the limit.      *)
THEOREM ReusingTheorem == Spec => ImplementsReusing
<1>1. Init => Reusing!Init
  BY DEF Init, Reusing!Init, Grants, NoTunnels
<1>2. IInv /\ [Next]_vars => [Reusing!Next]_Grants
  <2> SUFFICES ASSUME IInv, [Next]_vars PROVE [Reusing!Next]_Grants
    OBVIOUS
  <2>1. CASE EmailSent
    <3> DEFINE g == [user |-> UserOf[from], app |-> msg.arg]
               n == NextReference
    <3>1. n \in 0..Cardinality(Procs)
      BY NextReferenceFits DEF IInv
    <3>2. g \in Reusing!Grant
      BY <2>1 DEF IInv, LocalsOK, ChecksHold, Opening, EmailSent, Reusing!Grant
    <3>3. /\ DOMAIN Grants = DOMAIN tunnels
          /\ \A s \in DOMAIN Grants : Grants[s] # g
          /\ MaxTunnels # NoMax => Cardinality(DOMAIN Grants) < MaxTunnels
      BY <2>1 DEF IInv, ChecksHold, Opening, EmailSent, Grants
    <3>4. /\ DOMAIN tunnels' = DOMAIN tunnels \cup {n}
          /\ tunnels'[n].user = UserOf[from] /\ tunnels'[n].app = msg.arg
          /\ \A r \in DOMAIN tunnels \ {n} : tunnels'[r] = tunnels[r]
      BY <2>1, EmailSentTable DEF IInv
    <3>5. Grants' = [s \in DOMAIN Grants \cup {n} |-> IF s = n THEN g ELSE Grants[s]]
      BY <3>4 DEF Grants
    <3>6. Reusing!Open
      <4> HIDE DEF g, n
      <4>1. \A s \in DOMAIN Grants : Grants[s] # g
        BY <3>3
      <4>2. MaxTunnels # NoMax => Reusing!Cardinality(DOMAIN Grants) < MaxTunnels
        BY <3>3 DEF Cardinality, Reusing!Cardinality
      <4> QED
        BY <3>1, <3>2, <3>5, <4>1, <4>2, Zenon DEF Reusing!Open
    <3> QED
      BY <3>6 DEF Reusing!Next
  <2>2. CASE Shrinks
    <3> DEFINE S == DOMAIN tunnels \ DOMAIN tunnels'
    <3>1. Grants' = [s \in DOMAIN Grants \ S |-> Grants[s]] /\ S \in SUBSET DOMAIN Grants
      BY <2>2, ShrinksTable DEF Grants
    <3>2. Reusing!End
      BY <3>1 DEF Reusing!End
    <3> QED
      BY <3>2 DEF Reusing!Next
  <2>3. CASE Ages \/ UNCHANGED tunnels
    <3>1. Grants' = Grants
      BY <2>3, AgedTable DEF Ages, IInv, Grants
    <3> QED
      BY <3>1
  <2> QED
    BY <2>1, <2>2, <2>3, TableCases
<1> QED
  BY <1>1, <1>2, Invariance, PTL DEF Spec, ImplementsReusing, Reusing!Spec

=============================================================================
