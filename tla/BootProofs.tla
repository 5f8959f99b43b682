----------------------------- MODULE BootProofs -----------------------------
(***************************************************************************)
(* Proofs about Boot for every number of retries and of tries, right PIN   *)
(* or wrong, and every set of faults.  The inductive invariant is IInv of  *)
(* that module.                                                            *)
(***************************************************************************)
EXTENDS Boot, TLAPS

LEMMA InitInvariant == Init => IInv
<1> SUFFICES ASSUME Init PROVE IInv
  OBVIOUS
<1>1. Flags
  BY DEF Init, Flags
<1>2. TypeOK
  BY <1>1, BootAssumption DEF Init, TypeOK, Running, Initialising, Resolving, Devices
<1>3. /\ SimOK /\ ServingOK /\ AttemptLeft /\ PinSpared
      /\ ListenerOwed /\ NoUnsolicitedNotice
  BY BootAssumption
  DEF Init, SimOK, ServingOK, AttemptLeft, PinSpared, ListenerOwed, NoUnsolicitedNotice,
      Initialising, Resolving
<1> QED
  BY <1>2, <1>3 DEF IInv

(* The flags stay flags.                                                   *)
LEMMA FlagsStep == ASSUME Flags, [Next]_vars PROVE Flags'
<1> USE DEF Flags, daemon, radio, network, notices
<1>1. CASE Start \/ ReadConfig \/ ReadSim \/ ReadLte \/ ReadInternet \/ QmiFails
  BY <1>1 DEF Start, ReadConfig, ReadSim, ReadLte, ReadInternet, QmiFails, Resolved, Unresolved
<1>2. CASE BeginUnlock \/ Unlock \/ BeginSleep \/ Wake \/ Settle
  BY <1>2 DEF BeginUnlock, Unlock, BeginSleep, Wake, Settle
<1>3. CASE InitSms \/ LookupListener \/ NotifyListener
  BY <1>3 DEF InitSms, LookupListener, NotifyListener
<1>4. CASE RequestStatus \/ RequestReboot \/ RequestShutdown \/ PingFails
  BY <1>4 DEF RequestStatus, RequestReboot, RequestShutdown, PingFails
<1>5. CASE ModemRestarts \/ Reset \/ Die \/ UNCHANGED vars
  BY <1>5 DEF ModemRestarts, ModemForgets, Reset, Die, vars
<1>6. CASE NetworkChanges
  BY <1>6 DEF NetworkChanges
<1> QED
  BY <1>1, <1>2, <1>3, <1>4, <1>5, <1>6 DEF Next, InitStep

(* Each step keeps the types.                                              *)
LEMMA TypeStep == ASSUME IInv, [Next]_vars PROVE TypeOK'
<1>0. Flags'
  BY FlagsStep DEF IInv, TypeOK
<1> USE <1>0, BootAssumption DEF IInv, TypeOK, SimOK, Running, Initialising, Resolving, Devices,
                                 daemon, radio, network, notices
<1>1. CASE Start
  BY <1>1 DEF Start
<1>2. CASE ReadConfig
  BY <1>2 DEF ReadConfig
<1>3. CASE ReadSim
  BY <1>3 DEF ReadSim, Resolved, Unresolved
<1>4. CASE ReadLte
  BY <1>4 DEF ReadLte, Resolved
<1>5. CASE ReadInternet
  BY <1>5 DEF ReadInternet, Resolved
<1>6. CASE BeginUnlock \/ Wake \/ Settle
  BY <1>6 DEF BeginUnlock, Wake, Settle
<1>7. CASE BeginSleep
  BY <1>7 DEF BeginSleep
<1>8. CASE Unlock
  BY <1>8 DEF Unlock
<1>9. CASE InitSms \/ LookupListener \/ NotifyListener
  BY <1>9 DEF InitSms, LookupListener, NotifyListener
<1>10. CASE QmiFails \/ Die \/ NetworkChanges
  BY <1>10 DEF QmiFails, Unresolved, Die, NetworkChanges
<1>11. CASE RequestStatus \/ RequestReboot \/ RequestShutdown \/ PingFails
  BY <1>11 DEF RequestStatus, RequestReboot, RequestShutdown, PingFails, Hears, Registered,
               NotRegistered
<1>12. CASE ModemRestarts \/ Reset
  BY <1>12 DEF ModemRestarts, ModemForgets, Reset
<1>13. CASE UNCHANGED vars
  BY <1>13 DEF vars
<1> QED
  BY <1>1, <1>2, <1>3, <1>4, <1>5, <1>6, <1>7, <1>8, <1>9, <1>10, <1>11, <1>12, <1>13
  DEF Next, InitStep

(* Each step keeps what is known of the SIM card and of its tries.         *)
LEMMA TriesStep ==
  ASSUME IInv, [Next]_vars
  PROVE  SimOK' /\ ServingOK' /\ AttemptLeft' /\ PinSpared'
<1> USE BootAssumption DEF IInv, TypeOK, Flags, SimOK, ServingOK, AttemptLeft, PinSpared, Running,
                           Initialising, Resolving, daemon, radio, network, notices
<1>1. CASE Start
  BY <1>1 DEF Start
<1>2. CASE ReadConfig \/ ReadSim \/ ReadLte \/ ReadInternet
  BY <1>2 DEF ReadConfig, ReadSim, ReadLte, ReadInternet, Resolved, Unresolved
<1>3. CASE BeginUnlock \/ BeginSleep \/ Wake \/ Settle
  BY <1>3 DEF BeginUnlock, TryUnlock, BeginSleep, Wake, Settle
<1>4. CASE Unlock
  BY <1>4 DEF Unlock
<1>5. CASE InitSms \/ LookupListener \/ NotifyListener
  BY <1>5 DEF InitSms, LookupListener, NotifyListener
<1>6. CASE QmiFails \/ Die \/ NetworkChanges
  BY <1>6 DEF QmiFails, Unresolved, Die, NetworkChanges
<1>7. CASE RequestStatus \/ RequestReboot \/ RequestShutdown \/ PingFails
  BY <1>7 DEF RequestStatus, RequestReboot, RequestShutdown, PingFails, Hears
<1>8. CASE ModemRestarts \/ Reset
  BY <1>8 DEF ModemRestarts, ModemForgets, Reset
<1>9. CASE UNCHANGED vars
  BY <1>9 DEF vars
<1> QED
  BY <1>1, <1>2, <1>3, <1>4, <1>5, <1>6, <1>7, <1>8, <1>9 DEF Next, InitStep

(* Each step registers and notifies only users who are owed a notice, or   *)
(* whose name could not be deleted.                                        *)
LEMMA NoticeStep == ASSUME IInv, [Next]_vars PROVE ListenerOwed' /\ NoUnsolicitedNotice'
<1> USE BootAssumption DEF IInv, TypeOK, ListenerOwed, NoUnsolicitedNotice, notices
<1>1. CASE LookupListener
  BY <1>1 DEF LookupListener
<1>2. CASE NotifyListener
  BY <1>2 DEF NotifyListener
<1>3. CASE RequestReboot
  BY <1>3 DEF RequestReboot, Hears, Registered, NotRegistered
<1>4. CASE Start \/ ReadConfig \/ ReadSim \/ ReadLte \/ ReadInternet
  BY <1>4 DEF Start, ReadConfig, ReadSim, ReadLte, ReadInternet, Resolved, Unresolved
<1>5. CASE BeginUnlock \/ Unlock \/ BeginSleep \/ Wake \/ Settle \/ InitSms
  BY <1>5 DEF BeginUnlock, Unlock, BeginSleep, Wake, Settle, InitSms
<1>6. CASE RequestStatus \/ RequestShutdown \/ PingFails
  BY <1>6 DEF RequestStatus, RequestShutdown, PingFails, Hears
<1>7. CASE QmiFails \/ ModemRestarts \/ Reset \/ Die \/ NetworkChanges \/ UNCHANGED vars
  BY <1>7 DEF QmiFails, Unresolved, ModemRestarts, Reset, Die, NetworkChanges, vars
<1> QED
  BY <1>1, <1>2, <1>3, <1>4, <1>5, <1>6, <1>7 DEF Next, InitStep

(* The invariant holds in every reachable state.                           *)
THEOREM Invariance == Spec => []IInv
<1>1. IInv /\ [Next]_vars => IInv'
  BY TypeStep, TriesStep, NoticeStep DEF IInv
<1> QED
  BY <1>1, InitInvariant, PTL DEF Spec

(* Every variable keeps its type: the SIM card is never asked for a try it *)
(* does not have, and the retries are never counted below zero.            *)
THEOREM BootTypeCorrect == Spec => []TypeOK
<1>1. IInv => TypeOK
  BY DEF IInv
<1> QED
  BY <1>1, Invariance, PTL

(* A start of the daemon costs the SIM card at most one try, whatever      *)
(* resets, deaths and failures come between.                               *)
THEOREM PinTheorem == Spec => []PinSpared
<1>1. IInv => PinSpared
  BY DEF IInv
<1> QED
  BY <1>1, Invariance, PTL

(* Nobody is told that the router is up who has not asked for a reboot     *)
(* since the last such notice, unless the file could not be deleted, at    *)
(* whatever point a registration, a start or a notice fails.               *)
THEOREM NoticeTheorem == Spec => []NoUnsolicitedNotice
<1>1. IInv => NoUnsolicitedNotice
  BY DEF IInv
<1> QED
  BY <1>1, Invariance, PTL
=============================================================================
