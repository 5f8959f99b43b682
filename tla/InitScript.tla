----------------------------- MODULE InitScript -----------------------------
(***************************************************************************)
(* The init script of the daemon (telco-vecchio-init): start, stop and     *)
(* restart, called by the boot, the web interface and people at a shell,   *)
(* and the pid file that is all it knows of the daemon.                    *)
(*                                                                         *)
(* A call is a shell of its own.  Each of its commands that looks at or    *)
(* changes what others see is an action; the daemon may end at any time.   *)
(***************************************************************************)
EXTENDS Naturals, FiniteSets

CONSTANTS
  Callers,  \* the shells that may run the script
  Pids,     \* the process identifiers of daemons
  NoFile,   \* there is no pid file
  Empty,    \* an empty pid file, or an empty $PID
  Other,    \* the process identifier of something that is no daemon
  Faults    \* which of "death", "wrap" happen

ASSUME ScriptAssumption ==
  /\ {NoFile, Empty, Other} \cap Pids = {}
  /\ NoFile \notin {Empty, Other}
  /\ Callers # {}

VARIABLES
  pc,       \* where each call is
  op,       \* the operation it is for: "start", "stop" or "restart"
  PID,      \* its $PID
  fd,       \* whether its redirection still writes to $PIDFILE
  pidfile,  \* what $PIDFILE holds
  daemons   \* the daemons that run

vars == <<pc, op, PID, fd, pidfile, daemons>>

Content == Pids \cup {Empty, Other}

TypeOK ==
  /\ pc \in [Callers -> {"idle", "stop?", "cat", "rm", "kill",
                         "start?", "spawn", "sleep", "write"}]
  /\ op \in [Callers -> {"start", "stop", "restart"}]
  /\ PID \in [Callers -> Content]
  /\ fd \in [Callers -> BOOLEAN]
  /\ pidfile \in Content \cup {NoFile}
  /\ daemons \subseteq Pids

(* After a boot: /var/run is in memory.                                    *)
Init ==
  /\ pc = [c \in Callers |-> "idle"]
  /\ op = [c \in Callers |-> "start"]
  /\ PID = [c \in Callers |-> Empty]
  /\ fd = [c \in Callers |-> FALSE]
  /\ pidfile = NoFile
  /\ daemons = {}

At(c, from) == pc[c] = from
Goto(c, to) == pc' = [pc EXCEPT ![c] = to]

-----------------------------------------------------------------------------

Call(c, o) ==
  /\ At(c, "idle") /\ Goto(c, IF o = "start" THEN "start?" ELSE "stop?")
  /\ op' = [op EXCEPT ![c] = o]
  /\ UNCHANGED <<PID, fd, pidfile, daemons>>

(* status: the file is there.                                              *)
Running == pidfile # NoFile

(* What follows a stop: restart calls start, whatever stop returned.       *)
AfterStop(c) == IF op[c] = "restart" THEN "start?" ELSE "idle"

StopChecks(c) ==
  /\ At(c, "stop?")
  /\ Goto(c, IF Running THEN "cat" ELSE AfterStop(c))
  /\ UNCHANGED <<op, PID, fd, pidfile, daemons>>

ReadPid(c) ==
  /\ At(c, "cat") /\ Goto(c, "rm")
  /\ PID' = [PID EXCEPT ![c] = IF pidfile = NoFile THEN Empty ELSE pidfile]
  /\ UNCHANGED <<op, fd, pidfile, daemons>>

(* Mutant: the file stays.                                                 *)
StopKeepsFile(c) ==
  /\ At(c, "rm") /\ Goto(c, "kill")
  /\ UNCHANGED <<op, PID, fd, pidfile, daemons>>

(* The file goes; what a start had opened is no longer $PIDFILE.           *)
RemoveFile(c) ==
  /\ At(c, "rm") /\ Goto(c, "kill")
  /\ pidfile' = NoFile
  /\ fd' = [d \in Callers |-> FALSE]
  /\ UNCHANGED <<op, PID, daemons>>

KillPid(c) ==
  /\ At(c, "kill") /\ Goto(c, AfterStop(c))
  /\ daemons' = daemons \ {PID[c]}
  /\ UNCHANGED <<op, PID, fd, pidfile>>

-----------------------------------------------------------------------------

(* Mutant: a start is not refused.                                         *)
StartUnchecked(c) ==
  /\ At(c, "start?") /\ Goto(c, "spawn")
  /\ UNCHANGED <<op, PID, fd, pidfile, daemons>>

StartChecks(c) ==
  /\ At(c, "start?")
  /\ Goto(c, IF Running THEN "idle" ELSE "spawn")
  /\ UNCHANGED <<op, PID, fd, pidfile, daemons>>

(* The daemon forks and its parent returns.                                *)
Spawn(c) ==
  /\ At(c, "spawn") /\ Goto(c, "sleep")
  /\ \E p \in Pids \ daemons : daemons' = daemons \cup {p}
  /\ UNCHANGED <<op, PID, fd, pidfile>>

(* After two seconds the redirection empties the file.                     *)
CreateFile(c) ==
  /\ At(c, "sleep") /\ Goto(c, "write")
  /\ pidfile' = Empty
  /\ fd' = [fd EXCEPT ![c] = TRUE]
  /\ UNCHANGED <<op, PID, daemons>>

(* Mutant: the last of the processes is taken: grep, the youngest.         *)
LastListed == {Other}

(* The first process of which the command line has the daemon's name.      *)
(* grep's has it too, if ps saw it, and is younger than a daemon, so that  *)
(* it comes after it unless the process identifiers have wrapped around.   *)
FirstListed ==
  daemons \cup (IF daemons = {} THEN {Other, Empty} ELSE {})
          \cup (IF "wrap" \in Faults THEN {Other} ELSE {})

WritePid(c) ==
  /\ At(c, "write") /\ Goto(c, "idle")
  /\ IF fd[c] THEN pidfile' \in FirstListed ELSE UNCHANGED pidfile
  /\ fd' = [fd EXCEPT ![c] = FALSE]
  /\ UNCHANGED <<op, PID, daemons>>

(* A daemon ends: its initialisation fails, it panics or is killed.        *)
DaemonEnds ==
  /\ "death" \in Faults
  /\ \E p \in daemons : daemons' = daemons \ {p}
  /\ UNCHANGED <<pc, op, PID, fd, pidfile>>

-----------------------------------------------------------------------------

Stop(c) == StopChecks(c) \/ ReadPid(c) \/ RemoveFile(c) \/ KillPid(c)
Start(c) == StartChecks(c) \/ Spawn(c) \/ CreateFile(c) \/ WritePid(c)

Next ==
  \/ \E c \in Callers :
       (\E o \in {"start", "stop", "restart"} : Call(c, o)) \/ Stop(c) \/ Start(c)
  \/ DaemonEnds

Spec == Init /\ [][Next]_vars

-----------------------------------------------------------------------------
(* Properties.                                                             *)

(* "already running": no second daemon, which would share the serial port  *)
(* with the first, although daemons end without a word to the script and a *)
(* restart goes on whatever its stop returned (start, restart).            *)
OneDaemon == \A p, q \in daemons : p = q

(* A daemon that runs while nobody calls the script can be stopped by it:  *)
(* the file names it (start writes what ps lists first).                   *)
Stoppable == (\A c \in Callers : At(c, "idle")) => daemons \subseteq {pidfile}

(* "STOPPED": when a stop has killed, no daemon that ran before is left,   *)
(* so that the start of a restart runs the new binary (stop, restart).     *)
StopStops == [][\A c \in Callers : KillPid(c) => daemons' = {}]_vars

(* The strengthening: who could be running at each place of a call.        *)
CallOK(c) ==
  /\ pc[c] \in {"idle", "stop?", "start?", "cat"} => daemons \subseteq {pidfile}
  /\ pc[c] = "rm" => daemons \subseteq {PID[c]}
  /\ pc[c] = "kill" => daemons \subseteq {PID[c]} /\ ~Running
  /\ pc[c] = "spawn" => daemons = {} /\ ~Running
  /\ pc[c] = "sleep" => ~Running
  /\ pc[c] = "write" => fd[c]

IInv == TypeOK /\ OneDaemon /\ \A c \in Callers : CallOK(c)
=============================================================================
