-------------------------- MODULE InitScriptProofs --------------------------
(***************************************************************************)
(* Theorems about InitScript: a single caller, and process identifiers     *)
(* that have not wrapped around.                                           *)
(***************************************************************************)
EXTENDS InitScript, TLAPS

OneCaller == \A c, d \in Callers : c = d
NoWrap == "wrap" \notin Faults

(* Nobody calls the script and nothing runs: the invariant holds.          *)
LEMMA InitInv == Init => IInv
  BY ScriptAssumption DEF Init, IInv, TypeOK, Content, OneDaemon, CallOK, Running

(* The commands of stop, each with the daemon still named by the file or   *)
(* by $PID.                                                                *)
LEMMA StopInv ==
  ASSUME IInv, OneCaller, NEW c \in Callers, Stop(c)
  PROVE  IInv'
<1> USE ScriptAssumption DEF IInv, TypeOK, Content, OneDaemon, CallOK, Running, OneCaller,
                             At, Goto, AfterStop
<1>1. CASE StopChecks(c) BY <1>1 DEF StopChecks
<1>2. CASE ReadPid(c) BY <1>2 DEF ReadPid
<1>3. CASE RemoveFile(c) BY <1>3 DEF RemoveFile
<1>4. CASE KillPid(c) BY <1>4 DEF KillPid
<1> QED BY <1>1, <1>2, <1>3, <1>4 DEF Stop

(* Those of start: the check finds no file, and so no daemon.              *)
LEMMA StartInv ==
  ASSUME IInv, OneCaller, NoWrap, NEW c \in Callers, Start(c)
  PROVE  IInv'
<1> USE ScriptAssumption DEF IInv, TypeOK, Content, OneDaemon, CallOK, Running, OneCaller,
                             At, Goto
<1>1. CASE StartChecks(c) BY <1>1 DEF StartChecks
<1>2. CASE Spawn(c) BY <1>2 DEF Spawn
<1>3. CASE CreateFile(c) BY <1>3 DEF CreateFile
<1>4. CASE WritePid(c) BY <1>4 DEF WritePid, FirstListed, NoWrap
<1> QED BY <1>1, <1>2, <1>3, <1>4 DEF Start

(* A call begins, or a daemon ends.                                        *)
LEMMA OtherInv ==
  ASSUME IInv, (\E c \in Callers, o \in {"start", "stop", "restart"} : Call(c, o)) \/ DaemonEnds
  PROVE  IInv'
<1>1. CASE DaemonEnds
  BY <1>1 DEF DaemonEnds, IInv, TypeOK, Content, OneDaemon, CallOK, Running
<1>2. ASSUME NEW c \in Callers, NEW o \in {"start", "stop", "restart"}, Call(c, o)
      PROVE  IInv'
  BY <1>2 DEF Call, At, Goto, IInv, TypeOK, Content, OneDaemon, CallOK, Running
<1> QED BY <1>1, <1>2

(* The inductive invariant of the script, with one caller at a time and    *)
(* daemons that may end at any moment.                                     *)
THEOREM ScriptInvariance == OneCaller /\ NoWrap /\ Spec => []IInv
<1>1. ASSUME OneCaller, NoWrap PROVE IInv /\ [Next]_vars => IInv'
  <2> SUFFICES ASSUME IInv, [Next]_vars PROVE IInv'
    OBVIOUS
  <2>1. CASE UNCHANGED vars
    BY <2>1 DEF vars, IInv, TypeOK, Content, OneDaemon, CallOK, Running
  <2>2. CASE Next
    BY <1>1, <2>2, StopInv, StartInv, OtherInv DEF Next
  <2> QED BY <2>1, <2>2
<1>2. CASE OneCaller /\ NoWrap
  <2>1. IInv /\ [Next]_vars => IInv' BY <1>1, <1>2
  <2> QED BY <2>1, InitInv, PTL DEF Spec
<1>3. CASE ~(OneCaller /\ NoWrap) BY <1>3
<1> QED BY <1>2, <1>3

(* Type correctness of the script.                                         *)
THEOREM ScriptTypeCorrect == OneCaller /\ NoWrap /\ Spec => []TypeOK
  BY ScriptInvariance, PTL DEF IInv

(* At most one daemon runs.                                                *)
THEOREM OneDaemonTheorem == OneCaller /\ NoWrap /\ Spec => []OneDaemon
  BY ScriptInvariance, PTL DEF IInv

(* A running daemon can be stopped by the script.                          *)
THEOREM StoppableTheorem == OneCaller /\ NoWrap /\ Spec => []Stoppable
<1>1. IInv => Stoppable
  BY ScriptAssumption DEF IInv, Stoppable, CallOK, At, TypeOK
<1> QED BY <1>1, ScriptInvariance, PTL

(* A stop leaves no daemon, so that a restart never finds the old one.     *)
THEOREM StopTheorem == OneCaller /\ NoWrap /\ Spec => StopStops
<1>1. ASSUME IInv, [Next]_vars PROVE [\A c \in Callers : KillPid(c) => daemons' = {}]_vars
  BY <1>1 DEF KillPid, At, IInv, CallOK
<1> QED BY <1>1, ScriptInvariance, PTL DEF Spec, StopStops
=============================================================================
