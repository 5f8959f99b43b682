--------------------------- MODULE TunnelManager ---------------------------
(***************************************************************************)
(* The main task of the telco-vecchio daemon and the tunnels it manages:   *)
(* the loop of run() (main.rs), the open, close and status commands of     *)
(* handle_request() (request.rs), the set-up of an ssh tunnel              *)
(* (ssh_utils.rs), the mail that carries its url (email_utils.rs) and the  *)
(* periodic removal of expired tunnels (common.rs).                        *)
(*                                                                         *)
(* The task is sequential; every value of pc other than "down" is a place  *)
(* where it awaits something.  What interleaves with it at those places    *)
(* is its environment: incoming SMSs, the ssh processes (which end when    *)
(* they like), the clock, the init script that signals the daemon and the  *)
(* power of the machine.                                                   *)
(***************************************************************************)
EXTENDS Integers, FiniteSets

CONSTANTS
  Phones,         \* phone numbers an SMS may come from
  Users,          \* names of the configured users
  UserOf,         \* the user each phone number belongs to, or NoUser
  Apps,           \* names of the configured applications
  AppNames,       \* names that may follow "open" in a request
  RefArgs,        \* numbers that may follow "close" in a request
  Procs,          \* identifiers of ssh processes
  MaxTunnels,     \* ssh_config.tunnel_max_number, or NoMax if it is not set
  TunnelTimeout,  \* ssh_config.tunnel_timeout_sec, in units of the clock
  Faults,         \* which of the faults "stop" and "clock" may happen
  NoUser, NoPhone, NoMsg, NoProc, NoMax, NoArg

ASSUME ConfigAssumption ==
  /\ UserOf \in [Phones -> Users \cup {NoUser}]
  /\ NoUser \notin Users /\ NoPhone \notin Phones /\ NoProc \notin Procs
  /\ Apps \subseteq AppNames
  /\ RefArgs \subseteq Nat
  /\ IsFiniteSet(Procs)
  /\ NoMax \notin Nat /\ MaxTunnels \in Nat \cup {NoMax}
  /\ TunnelTimeout \in Nat

(* The requests the handler tells apart; "invalid" stands for a text       *)
(* without a command, with an unknown one, without the application's name  *)
(* or with a reference that is not a number.                               *)
Msgs ==
  [cmd : {"open"}, arg : AppNames] \cup [cmd : {"close"}, arg : RefArgs]
    \cup [cmd : {"close_all", "status", "invalid"}, arg : {NoArg}]

ASSUME MsgAssumption == NoMsg \notin Msgs

VARIABLES
  tunnels,   \* context.tunnels: from the references to the open tunnels
  status,    \* context.status, as last resolved
  alive,     \* the ssh processes that are running
  pc,        \* where the main task is
  from,      \* sms.from, the sender of the request being handled
  msg,       \* sms.msg, the request being handled
  child,     \* the ssh process of the tunnel being opened
  refs,      \* references closed by the request, or id_to_remove
  todo,      \* what is left of the loop over references or tunnels
  skewed,    \* some tunnel is younger than the clean-up's current_time
  reply      \* the kind of response to send back

vars == <<tunnels, status, alive, pc, from, msg, child, refs, todo, skewed, reply>>
table == <<tunnels, alive>>
request == <<from, msg>>
locals == <<child, refs, todo, skewed>>

-----------------------------------------------------------------------------
(* Data.                                                                   *)

(* A tunnel's creation_date is kept as its age at the current clock:       *)
(* MaxAge is any age beyond TunnelTimeout, -1 that of any tunnel created   *)
(* at a time that is yet to come, after the clock was set back.  expired   *)
(* is history: whether the clock has ever shown an age beyond the timeout. *)
MaxAge == TunnelTimeout + 1
Tunnel ==
  {t \in [user : Users, app : Apps, proc : Procs, age : -1..MaxAge, expired : BOOLEAN] :
     t.age > TunnelTimeout => t.expired}

(* services: the device is ready and both the mail server and the          *)
(* tunnelling service answer; apps: the applications that answer.          *)
Status == [services : BOOLEAN, apps : SUBSET Apps]
NoStatus == [services |-> FALSE, apps |-> {}]

NoTunnels == [r \in {} |-> NoArg]
TableProcs == {tunnels[r].proc : r \in DOMAIN tunnels}
Held == TableProcs \cup ({child} \ {NoProc})

WithTunnel(r, t) == [s \in DOMAIN tunnels \cup {r} |-> IF s = r THEN t ELSE tunnels[s]]
Without(S) == [r \in DOMAIN tunnels \ S |-> tunnels[r]]

(* Process::kill, or the drop of a Child set to kill_on_drop.              *)
Kill(S) == alive \ S
ProcsOf(S) == {tunnels[r].proc : r \in S \cap DOMAIN tunnels}

PCs == {"down", "wait", "retry", "handle", "ssh", "stderr", "email", "status",
        "close", "reply", "ping", "clean", "notify"}
Replies == {"none", "opened", "closed", "status", "rejected", "failed"}

TableOK ==
  /\ DOMAIN tunnels \in SUBSET Nat /\ IsFiniteSet(DOMAIN tunnels)
  /\ tunnels \in [DOMAIN tunnels -> Tunnel]

TypeOK ==
  /\ TableOK
  /\ status \in Status
  /\ alive \in SUBSET Procs
  /\ pc \in PCs
  /\ from \in Phones \cup {NoPhone}
  /\ msg \in Msgs \cup {NoMsg}
  /\ child \in Procs \cup {NoProc}
  /\ refs \in SUBSET Nat /\ todo \in SUBSET Nat
  /\ skewed \in BOOLEAN
  /\ reply \in Replies

-----------------------------------------------------------------------------
(* Steps common to the handlers.                                           *)

Answer(r) == pc' = "reply" /\ reply' = r

ForgetRequest ==
  /\ from' = NoPhone /\ msg' = NoMsg /\ child' = NoProc
  /\ refs' = {} /\ todo' = {} /\ skewed' = FALSE /\ reply' = "none"

(* The daemon's process ends: its memory is lost.                          *)
Halt ==
  /\ pc' = "down"
  /\ tunnels' = NoTunnels /\ status' = NoStatus
  /\ ForgetRequest

Init ==
  /\ pc = "down"
  /\ tunnels = NoTunnels /\ status = NoStatus /\ alive = {}
  /\ from = NoPhone /\ msg = NoMsg /\ child = NoProc
  /\ refs = {} /\ todo = {} /\ skewed = FALSE /\ reply = "none"

(* The daemon is started and init() succeeds with whatever status it found.*)
Start ==
  /\ pc = "down" /\ pc' = "wait"
  /\ status' \in Status
  /\ UNCHANGED <<table, request, locals, reply>>

-----------------------------------------------------------------------------
(* The loop: wait for an SMS, for at most tunnel_refresh_period_sec.       *)

(* wait_sms returns a message.                                             *)
Receive ==
  /\ pc = "wait" /\ pc' = "handle"
  /\ \E p \in Phones, m \in Msgs : from' = p /\ msg' = m
  /\ UNCHANGED <<table, status, locals, reply>>

(* wait_sms returns an error, the loop begins a new wait at once.          *)
ListenFails ==
  /\ pc = "wait" /\ pc' = "retry"
  /\ UNCHANGED <<table, status, request, locals, reply>>

ListenAgain ==
  /\ pc = "retry" /\ pc' = "wait"
  /\ UNCHANGED <<table, status, request, locals, reply>>

(* The whole period elapsed in a single wait.                              *)
RefreshDue ==
  /\ pc = "wait" /\ pc' = "ping"
  /\ UNCHANGED <<table, status, request, locals, reply>>

(* The response is sent, or send_sms fails or times out: both end the      *)
(* iteration.                                                              *)
Reply ==
  /\ pc = "reply" /\ pc' = "wait"
  /\ ForgetRequest
  /\ UNCHANGED <<table, status>>

(* Error::SenderNotAllowed: the daemon stays silent.                       *)
Ignore ==
  /\ pc = "handle" /\ UserOf[from] = NoUser
  /\ pc' = "wait"
  /\ ForgetRequest
  /\ UNCHANGED <<table, status>>

Handling(cmd) == pc = "handle" /\ UserOf[from] # NoUser /\ msg.cmd = cmd

HandleInvalid ==
  /\ Handling("invalid")
  /\ Answer("rejected")
  /\ UNCHANGED <<table, status, request, locals>>

-----------------------------------------------------------------------------
(* The open command.                                                       *)

(* Mutant: one tunnel too many is let in.                                  *)
LimitExceeded == MaxTunnels # NoMax /\ Cardinality(DOMAIN tunnels) > MaxTunnels

LimitReached == MaxTunnels # NoMax /\ Cardinality(DOMAIN tunnels) >= MaxTunnels

(* Mutant: the table is not searched.                                      *)
NeverOpen(u, a) == FALSE

AlreadyOpen(u, a) == \E r \in DOMAIN tunnels : tunnels[r].user = u /\ tunnels[r].app = a

MayOpen(u, a) ==
  /\ status.services
  /\ a \in Apps
  /\ a \in status.apps
  /\ ~LimitReached
  /\ ~AlreadyOpen(u, a)

RejectOpen ==
  /\ Handling("open") /\ ~MayOpen(UserOf[from], msg.arg)
  /\ Answer("rejected")
  /\ UNCHANGED <<table, status, request, locals>>

(* The ssh process is spawned, or cannot be.  A process identifier is not  *)
(* in use again before the daemon has waited for the process that had it.  *)
SpawnSsh ==
  /\ Handling("open") /\ MayOpen(UserOf[from], msg.arg)
  /\ \/ /\ \E p \in Procs \ (alive \cup Held) : child' = p /\ alive' = alive \cup {p}
        /\ pc' = "ssh"
        /\ UNCHANGED reply
     \/ /\ Answer("failed")
        /\ UNCHANGED <<alive, child>>
  /\ UNCHANGED <<tunnels, status, request, refs, todo, skewed>>

(* The url was read; the process may have ended since it wrote it.         *)
UrlRead ==
  /\ pc = "ssh" /\ pc' = "email"
  /\ UNCHANGED <<table, status, request, locals, reply>>

(* Mutant: reading the url has no time limit.                              *)
SetupFailsAtEnd ==
  /\ pc = "ssh" /\ child \notin alive /\ pc' = "stderr"
  /\ UNCHANGED <<table, status, request, locals, reply>>

(* The service answered with an error or nonsense, or                      *)
(* tunnel_setup_timeout_sec passed.                                        *)
SetupFails ==
  /\ pc = "ssh" /\ pc' = "stderr"
  /\ UNCHANGED <<table, status, request, locals, reply>>

(* Mutant: the Child is not kill_on_drop.                                  *)
ReleaseChild == UNCHANGED alive /\ child' = NoProc

(* Dropping the local variable that holds the Child kills the process.     *)
DropChild == alive' = Kill({child}) /\ child' = NoProc

AbandonOpen ==
  /\ DropChild
  /\ Answer("failed")
  /\ UNCHANGED <<tunnels, status, request, refs, todo, skewed>>

(* After a failed set-up one read of the process's stderr is awaited, with *)
(* no time limit: it ends when the process writes there or has ended.      *)
StderrWritten == pc = "stderr" /\ child \in alive /\ AbandonOpen
StderrClosed == pc = "stderr" /\ child \notin alive /\ AbandonOpen

(* send_email fails or email_send_timeout_sec passed.                      *)
EmailFails == pc = "email" /\ AbandonOpen

(* Mutant: the reference is taken one too low.                             *)
LastReference == Cardinality(DOMAIN tunnels) - 1

NextReference == Cardinality(DOMAIN tunnels)

(* The url is mailed: the tunnel enters the table, in the place of the one *)
(* that has its reference, if any, which is dropped.                       *)
EmailSent ==
  /\ pc = "email"
  /\ tunnels' = WithTunnel(NextReference, [user |-> UserOf[from], app |-> msg.arg,
                                           proc |-> child, age |-> 0, expired |-> FALSE])
  /\ alive' = Kill(ProcsOf({NextReference}))
  /\ refs' = {NextReference}
  /\ child' = NoProc
  /\ Answer("opened")
  /\ UNCHANGED <<status, request, todo, skewed>>

-----------------------------------------------------------------------------
(* The close command.                                                      *)

(* Mutant: one tunnel of the user is found, not all.                       *)
OneOwnReference(u) ==
  LET own == {r \in DOMAIN tunnels : tunnels[r].user = u}
  IN  {r \in own : \A s \in own : r <= s}

OwnReferences(u) == {r \in DOMAIN tunnels : tunnels[r].user = u}

BeginClose(S) ==
  /\ refs' = S /\ todo' = S
  /\ pc' = "close"
  /\ UNCHANGED <<table, status, request, child, skewed, reply>>

HandleClose == Handling("close") /\ BeginClose({msg.arg})

HandleCloseAll ==
  /\ Handling("close_all")
  /\ LET own == OwnReferences(UserOf[from]) IN
     \/ own # {} /\ BeginClose(own)
     \/ /\ own = {}
        /\ Answer("rejected")
        /\ UNCHANGED <<table, status, request, locals>>

(* One iteration over references: an unknown one ends the request; a known *)
(* one leaves the table and its process is killed, but the wait for the    *)
(* process to end may fail, which ends the request too.                    *)
CloseUnknown ==
  /\ pc = "close" /\ todo \ DOMAIN tunnels # {}
  /\ Answer("rejected")
  /\ UNCHANGED <<table, status, request, locals>>

CloseNext ==
  /\ pc = "close"
  /\ \E r \in todo \cap DOMAIN tunnels :
       /\ tunnels' = Without({r})
       /\ alive' = Kill(ProcsOf({r}))
       /\ todo' = todo \ {r}
  /\ \/ todo' # {} /\ UNCHANGED <<pc, reply>>
     \/ todo' = {} /\ Answer("closed")
     \/ Answer("failed")
  /\ UNCHANGED <<status, request, child, refs, skewed>>

-----------------------------------------------------------------------------
(* The status command: get_status has no time limit of its own.            *)

HandleStatus ==
  /\ Handling("status") /\ pc' = "status"
  /\ UNCHANGED <<table, status, request, locals, reply>>

StatusResolved ==
  /\ pc = "status"
  /\ \/ status' \in Status /\ Answer("status")
     \/ UNCHANGED status /\ Answer("failed")
  /\ UNCHANGED <<table, request, locals>>

-----------------------------------------------------------------------------
(* The periodic routines.                                                  *)

(* Mutant: a tunnel as old as the timeout is closed.                       *)
ExpiredAtTimeout(r) == tunnels[r].age >= TunnelTimeout

Expired(r) == tunnels[r].age > TunnelTimeout

(* The pings are over (a reboot they ask for is a MachineReset to come):   *)
(* clean_up_expired_tunnels reads the clock once and begins its loop.      *)
BeginCleanUp ==
  /\ pc = "ping" /\ pc' = "clean"
  /\ todo' = {r \in DOMAIN tunnels : Expired(r)}
  /\ skewed' = (\E r \in DOMAIN tunnels : tunnels[r].age < 0)
  /\ UNCHANGED <<table, status, request, child, refs, reply>>

(* Mutant: the process is left to the removal from the table.              *)
CleanNextUnkilled ==
  /\ pc = "clean" /\ pc' = "notify"
  /\ \E r \in todo : todo' = todo \ {r} /\ refs' = refs \cup {r}
  /\ UNCHANGED <<table, status, request, child, skewed, reply>>

(* An expired tunnel is met and its process killed.  An error of kill is   *)
(* only logged: SIGKILL reaches a child nobody has waited for and the      *)
(* error of one that has ended already, or of the wait, leaves none alive. *)
CleanNext ==
  /\ pc = "clean" /\ pc' = "notify"
  /\ \E r \in todo :
       /\ alive' = Kill(ProcsOf({r}))
       /\ todo' = todo \ {r} /\ refs' = refs \cup {r}
  /\ UNCHANGED <<tunnels, status, request, child, skewed, reply>>

(* The tunnel's user was sent an SMS, or could not be.                     *)
NotifyDone ==
  /\ pc = "notify" /\ pc' = "clean"
  /\ UNCHANGED <<table, status, request, locals, reply>>

(* Mutant: the expired tunnels stay in the table.                          *)
CleanDoneKeeping ==
  /\ pc = "clean" /\ todo = {} /\ ~skewed
  /\ pc' = "wait"
  /\ ForgetRequest
  /\ UNCHANGED <<table, status>>

(* Only now do the expired tunnels leave the table.                        *)
CleanDone ==
  /\ pc = "clean" /\ todo = {} /\ ~skewed
  /\ tunnels' = Without(refs)
  /\ alive' = Kill(ProcsOf(refs))
  /\ pc' = "wait"
  /\ ForgetRequest
  /\ UNCHANGED status

-----------------------------------------------------------------------------
(* The environment.                                                        *)

(* An ssh process ends by itself; the daemon does not notice.              *)
ProcExit ==
  /\ \E p \in alive : alive' = alive \ {p}
  /\ UNCHANGED <<tunnels, status, pc, request, locals, reply>>

(* The ages after the clock moved by d.  Those that stand for many may be  *)
(* what they were or not, each by itself.                                  *)
AgesAfter(d) ==
  {ages \in [DOMAIN tunnels -> -1..MaxAge] :
     \A r \in DOMAIN tunnels :
       \/ ages[r] = tunnels[r].age + d
       \/ ages[r] = tunnels[r].age /\ ages[r] \in {-1, MaxAge}}

WithAges(ages) ==
  [r \in DOMAIN tunnels |->
    [tunnels[r] EXCEPT !.age = ages[r], !.expired = @ \/ ages[r] > TunnelTimeout]]

ClockMoves(d) ==
  /\ \E ages \in AgesAfter(d) : tunnels' = WithAges(ages)
  /\ tunnels' # tunnels
  /\ UNCHANGED <<alive, status, pc, request, locals, reply>>

Tick == ClockMoves(1)

(* The clock is set back, at any moment and by any number of such steps.   *)
SetClockBack == "clock" \in Faults /\ ClockMoves(-1)

(* Mutant: a panic aborts the process, without dropping anything.          *)
PanicAborts ==
  /\ pc \in {"wait", "stderr", "status"} \/ (pc = "clean" /\ skewed)
  /\ Halt
  /\ UNCHANGED alive

(* A panic of the task, on a PDU that is too short (wait_sms), on a stderr *)
(* that is not UTF-8 (setup_ssh_tunnel), on an answer of uqmi without the  *)
(* key that is looked up (get_status) or on a creation date in the future  *)
(* (clean_up_expired_tunnels), unwinds: every Child is dropped.            *)
Panic ==
  /\ pc \in {"wait", "stderr", "status"} \/ (pc = "clean" /\ skewed)
  /\ alive' = Kill(Held)
  /\ Halt

(* The init script's stop sends SIGTERM, which the daemon does not handle: *)
(* the process ends without running any destructor.                        *)
Stop ==
  /\ "stop" \in Faults /\ pc # "down"
  /\ Halt
  /\ UNCHANGED alive

(* A reboot, a shutdown or a power cut.                                    *)
MachineReset ==
  /\ alive' = {}
  /\ Halt

-----------------------------------------------------------------------------
(* The steps the daemon takes by itself within a bounded time: between two *)
(* awaits, at a time limit of the code, or when a killed process has       *)
(* ended.  The other steps are owed by nobody.                             *)
MainStep ==
  \/ ListenAgain \/ RefreshDue \/ Reply \/ Ignore
  \/ HandleInvalid \/ RejectOpen \/ SpawnSsh
  \/ SetupFails \/ StderrClosed \/ EmailFails
  \/ HandleClose \/ HandleCloseAll \/ CloseUnknown \/ CloseNext
  \/ HandleStatus
  \/ BeginCleanUp \/ CleanNext \/ NotifyDone \/ CleanDone

Environment ==
  \/ Start \/ Receive \/ ListenFails
  \/ UrlRead \/ StderrWritten \/ EmailSent \/ StatusResolved
  \/ ProcExit \/ Tick \/ SetClockBack
  \/ Panic \/ Stop \/ MachineReset

Next == MainStep \/ Environment

Spec == Init /\ [][Next]_vars

(* The runtime polls the task whenever a wait is over, and every wait that *)
(* ends with a MainStep has a limit; so does one that ends with the panic  *)
(* of the clean-up.                                                        *)
FairSpec == Spec /\ WF_vars(MainStep) /\ WF_vars(pc = "clean" /\ Panic)

-----------------------------------------------------------------------------
(* Safety.                                                                 *)

(* Every running ssh process is the one of a tunnel in the table or of the *)
(* tunnel being set up: none is left that no request and no clean-up can   *)
(* reach (kill_on_drop in ssh_utils.rs, kill in request.rs and common.rs). *)
LiveTracked == alive \subseteq Held

(* No more ssh processes run at a time than tunnel_max_number, the one     *)
(* being set up included (the check of request.rs precedes the set-up and  *)
(* the insertion by several awaits).                                       *)
TunnelLimit == MaxTunnels # NoMax => Cardinality(alive) <= MaxTunnels

(* A user never has two tunnels to one application, although the table is  *)
(* searched before the set-up and the mail, and changed after them.        *)
OneTunnelPerApplication ==
  \A r, s \in DOMAIN tunnels :
    tunnels[r].user = tunnels[s].user /\ tunnels[r].app = tunnels[s].app => r = s

(* What the response says is so when it is sent: the reference it names    *)
(* stands for a tunnel of the sender to the application asked for; the     *)
(* references it calls closed stand for none, and after a close without    *)
(* reference the sender has no tunnel left.                                *)
AnswersHold ==
  pc = "reply" =>
    /\ reply = "opened" =>
         \A r \in refs : /\ r \in DOMAIN tunnels
                         /\ tunnels[r].user = UserOf[from] /\ tunnels[r].app = msg.arg
    /\ reply = "closed" =>
         /\ refs \cap DOMAIN tunnels = {}
         /\ msg.cmd = "close_all" =>
              \A r \in DOMAIN tunnels : tunnels[r].user # UserOf[from]

(* "Expired tunnel {} has been closed" is sent (clean_up_expired_tunnels)  *)
(* while the tunnel is still in the table: its process is dead by then.    *)
KilledBeforeNotice ==
  pc \in {"clean", "notify"} =>
    /\ refs \subseteq DOMAIN tunnels
    /\ ProcsOf(refs) \cap alive = {}

(* The clean-up kills and removes no tunnel that the clock has not shown   *)
(* to have lived longer than tunnel_timeout_sec, however long it waits, or *)
(* how far the clock is set back, between the check and the removal.       *)
NeverCleanedEarly ==
  [][pc = "clean" /\ pc' \in {"notify", "wait"} =>
       \A r \in DOMAIN tunnels :
         \/ tunnels[r].expired
         \/ r \in DOMAIN tunnels' /\ (tunnels[r].proc \in alive => tunnels[r].proc \in alive')
    ]_vars

(* Only a SIGTERM leaves ssh processes behind: a failed request or a       *)
(* closed, expired or replaced tunnel never does, with or without others   *)
(* left behind before, and where there is no SIGTERM no step at all does.  *)
OnlyStopOrphans == [][alive \ Held # alive' \ Held' => Stop \/ ProcExit \/ MachineReset]_vars

(* A reference stands for the same tunnel as long as it is in the table.   *)
ReferenceStable ==
  [][\A r \in DOMAIN tunnels \cap DOMAIN tunnels' :
       tunnels'[r].proc = tunnels[r].proc]_vars

(* A tunnel of every age the clean-up calls expired.                       *)
Overdue(r) == r \in DOMAIN tunnels /\ tunnels[r].age = MaxAge

(* If from some time on the loop only times out, with neither an SMS nor a *)
(* listening error nor the end of the process, then every expired tunnel   *)
(* is removed (main.rs runs clean_up_expired_tunnels at every timeout).    *)
ExpiredEventuallyClosed ==
  <>[](pc \in {"wait", "ping", "clean", "notify"}) =>
    \A r \in 0..Cardinality(Procs) : Overdue(r) ~> ~Overdue(r)

(* A request is brought to an end, unless it awaits one of the two things  *)
(* that have no time limit, the stderr of an ssh process and the status.   *)
HandlerProgress == pc = "handle" ~> pc \in {"wait", "stderr", "status", "down"}

-----------------------------------------------------------------------------
(* The strengthening of the invariants that every step preserves.          *)

Opening == pc \in {"ssh", "stderr", "email"}

(* What the local variables of the task hold at each of its awaits.        *)
LocalsOK ==
  /\ pc \in {"handle", "ssh", "stderr", "email", "status", "close"} =>
       from \in Phones /\ msg \in Msgs
  /\ pc \in {"ssh", "stderr", "email", "status", "close"} => UserOf[from] \in Users
  /\ child \in Procs <=> Opening
  /\ pc \notin {"close", "reply", "clean", "notify"} => refs = {}
  /\ pc = "close" => todo \subseteq refs
  /\ pc \in {"clean", "notify"} => todo \subseteq DOMAIN tunnels

(* The checks made before the set-up of a tunnel still hold when the       *)
(* tunnel enters the table, because only this task changes the table.      *)
ChecksHold ==
  Opening =>
    /\ msg.cmd = "open" /\ msg.arg \in Apps
    /\ MaxTunnels # NoMax => Cardinality(DOMAIN tunnels) < MaxTunnels
    /\ \A r \in DOMAIN tunnels :
         ~(tunnels[r].user = UserOf[from] /\ tunnels[r].app = msg.arg)

(* The table never outgrows the limit, and no process is held twice.       *)
TableFits == MaxTunnels # NoMax => Cardinality(DOMAIN tunnels) <= MaxTunnels

HeldOnce ==
  \A r \in DOMAIN tunnels :
    /\ tunnels[r].proc # child
    /\ \A s \in DOMAIN tunnels : tunnels[r].proc = tunnels[s].proc => r = s

(* While references are closed, those already treated are out of the table *)
(* and none that has to be closed is forgotten.                            *)
ClosingOK ==
  pc = "close" =>
    /\ (refs \ todo) \cap DOMAIN tunnels = {}
    /\ msg.cmd = "close_all" =>
         \A r \in DOMAIN tunnels : tunnels[r].user = UserOf[from] => r \in todo

(* What the clean-up has chosen had expired when it read the clock.        *)
ChosenExpired ==
  pc \in {"clean", "notify"} =>
    \A r \in DOMAIN tunnels : r \in todo \cup refs => tunnels[r].expired

(* The inductive invariant: with these, each of the safety properties      *)
(* above is preserved by every step of the daemon and its environment.     *)
IInv ==
  /\ TypeOK /\ LocalsOK /\ ChecksHold
  /\ TableFits /\ HeldOnce /\ ClosingOK /\ ChosenExpired
  /\ OneTunnelPerApplication /\ AnswersHold /\ KilledBeforeNotice
  /\ "stop" \notin Faults => LiveTracked

-----------------------------------------------------------------------------
(* What the project's own words promise and the code does not do.          *)

(* An open request is answered: with the tunnel's reference or with the    *)
(* reason of the failure (README.md, "Opening a tunnel").                  *)
OpenAnswered ==
  pc = "handle" /\ msg # NoMsg /\ msg.cmd = "open" ~> pc \in {"reply", "wait", "down"}

-----------------------------------------------------------------------------
(* The service the daemon gives, of which the above is an implementation   *)
(* when no reference can be given out twice.                               *)
Grants == [r \in DOMAIN tunnels |-> [user |-> tunnels[r].user, app |-> tunnels[r].app]]

Service == INSTANCE TunnelService
             WITH open <- Grants, References <- 0..Cardinality(Procs),
                  Limit <- MaxTunnels, NoLimit <- NoMax, Reused <- FALSE

(* Every step of the daemon is a grant of a new tunnel under a reference   *)
(* that is free, an end of tunnels, or invisible to the users.             *)
ImplementsService == Service!Spec

(* The service it gives with any limit.                                    *)
Reusing == INSTANCE TunnelService
             WITH open <- Grants, References <- 0..Cardinality(Procs),
                  Limit <- MaxTunnels, NoLimit <- NoMax, Reused <- TRUE

(* Whatever the limit, the worst that a step of the daemon does to another *)
(* tunnel is to take its reference for a new one: one grant at a time, of  *)
(* a tunnel its user does not have yet, with room for it in the table.     *)
ImplementsReusing == Reusing!Spec

=============================================================================
