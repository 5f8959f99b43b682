-------------------------------- MODULE Boot --------------------------------
(***************************************************************************)
(* From the power button to the request loop and back: the initialisation  *)
(* of the daemon (init.rs), the resolution of the device's status and the  *)
(* unlocking of the SIM card (status.rs), the set-up of the modem          *)
(* (sms_utils.rs), the status and reboot commands (request.rs), and the    *)
(* file that remembers over a reboot whom to tell that the router is up.   *)
(*                                                                         *)
(* pc is where the daemon is; "off" is the machine without power or still  *)
(* booting, "dead" the machine up without the daemon.                      *)
(***************************************************************************)
EXTENDS Integers, FiniteSets

CONSTANTS
  Users,      \* names of the configured users
  MaxRetry,   \* init_config.init_status_refresh_max_retry
  MaxTries,   \* wrong PINs after which the SIM card blocks itself
  Pins,       \* whether sms_config.sim_pin is the PIN of the SIM card: "right", "wrong" or,
              \* as the file may be edited between starts, either
  Faults,     \* which of "power", "kill", "qmi", "modem", "send", "file", "network" happen
  NoUser

ASSUME BootAssumption ==
  /\ NoUser \notin Users
  /\ MaxRetry \in Nat /\ MaxTries \in Nat \ {0}
  /\ Pins \subseteq {"right", "wrong"}

VARIABLES
  pc,         \* where the daemon is
  device,     \* status.device_status, as last resolved
  retries,    \* sleep_loop_counter
  unlocked,   \* sim_unlock_performed
  serving,    \* whether get_status runs for a status command
  scheduled,  \* the commands spawned tasks will run: "reboot", "poweroff"
  listener,   \* the user the init-listener-register file names, if it does
  to,         \* the user being notified
  modem,      \* whether the modem forwards SMSs to the daemon
  sim,        \* pin1_status of the SIM card
  tries,      \* PINs the SIM card still accepts
  lte,        \* whether the LTE service is available
  internet,   \* whether the configured host answers pings
  \* history
  owed,       \* users who asked for a reboot and were not told of its end
  kept,       \* the user whom a file that could not be deleted still names
  starts      \* starts of the daemon since a PIN was last accepted, up to MaxTries

daemon == <<device, retries, unlocked, serving>>
radio == <<sim, tries>>
network == <<lte, internet>>
notices == <<listener, owed, kept>>
vars == <<pc, daemon, scheduled, to, modem, radio, network, notices, starts>>

Resolving == {"sim", "lte", "internet"}
Initialising == {"config", "decide", "unlock", "sleep", "sms", "lookup", "notify"} \cup Resolving
Running == Initialising \cup {"run"}
Devices == {"SimLocked", "LteNotConnected", "InternetUnreachable", "Ready"}
Deaf == {"SimLocked", "LteNotConnected"}

Flags ==
  /\ unlocked \in BOOLEAN /\ serving \in BOOLEAN
  /\ modem \in BOOLEAN /\ lte \in BOOLEAN /\ internet \in BOOLEAN

TypeOK ==
  /\ pc \in Running \cup {"off", "dead"}
  /\ Flags
  /\ device \in Devices /\ retries \in 0..MaxRetry
  /\ scheduled \subseteq {"reboot", "poweroff"}
  /\ listener \in Users \cup {NoUser} /\ to \in Users \cup {NoUser}
  /\ sim \in {"disabled", "verified", "not_verified", "blocked"} /\ tries \in 0..MaxTries
  /\ owed \subseteq Users /\ kept \in Users \cup {NoUser}
  /\ starts \in 0..MaxTries

Init ==
  /\ pc = "off"
  /\ device = "SimLocked" /\ retries = 0 /\ unlocked = FALSE /\ serving = FALSE
  /\ scheduled = {} /\ listener = NoUser /\ to = NoUser /\ modem = FALSE
  /\ sim \in {"disabled", "verified", "not_verified"} /\ tries = MaxTries
  /\ lte \in BOOLEAN /\ internet \in BOOLEAN
  /\ owed = {} /\ kept = NoUser /\ starts = 0

-----------------------------------------------------------------------------
(* Initialisation.                                                         *)

(* The init script starts the daemon, at boot or by hand.                  *)
Start ==
  /\ pc \in {"off", "dead"} /\ pc' = "config"
  /\ starts' = IF starts < MaxTries THEN starts + 1 ELSE starts
  /\ UNCHANGED <<daemon, scheduled, to, modem, radio, network, notices>>

(* The configuration is read; if it cannot be, init fails and with it the  *)
(* daemon.                                                                 *)
ReadConfig ==
  /\ pc = "config" /\ pc' \in {"sim", "dead"}
  /\ retries' = MaxRetry /\ unlocked' = FALSE
  /\ UNCHANGED <<device, serving, scheduled, to, modem, radio, network, notices, starts>>

(* get_device_status, for init or for a status command: the SIM card, then *)
(* the LTE service, then the host, until one of them settles the status.   *)
Resolved(d) ==
  /\ device' = d /\ serving' = FALSE
  /\ pc' = IF serving THEN "run" ELSE "decide"

(* An error ends init, and the command without touching the status.        *)
Unresolved ==
  /\ pc' = IF serving THEN "run" ELSE "dead"
  /\ serving' = FALSE /\ UNCHANGED device

ReadSim ==
  /\ pc = "sim"
  /\ \/ sim = "not_verified" /\ Resolved("SimLocked")
     \/ /\ sim \in {"disabled", "verified"}
        /\ pc' = "lte" /\ UNCHANGED <<device, serving>>
     \/ sim = "blocked" /\ Unresolved
  /\ UNCHANGED <<retries, unlocked, scheduled, to, modem, radio, network, notices, starts>>

ReadLte ==
  /\ pc = "lte"
  /\ \/ ~lte /\ Resolved("LteNotConnected")
     \/ lte /\ pc' = "internet" /\ UNCHANGED <<device, serving>>
  /\ UNCHANGED <<retries, unlocked, scheduled, to, modem, radio, network, notices, starts>>

ReadInternet ==
  /\ pc = "internet"
  /\ Resolved(IF internet THEN "Ready" ELSE "InternetUnreachable")
  /\ UNCHANGED <<retries, unlocked, scheduled, to, modem, radio, network, notices, starts>>

(* A command to the modem fails or is not understood.                      *)
QmiFails ==
  /\ "qmi" \in Faults /\ pc \in {"sim", "lte", "unlock"} /\ Unresolved
  /\ UNCHANGED <<retries, unlocked, scheduled, to, modem, radio, network, notices, starts>>

(* The loop of init: unlock the SIM card once, wait for the network a      *)
(* limited number of times, settle for what there is.                      *)
(* Mutant: the SIM card is unlocked whenever it is found locked.           *)
AlwaysUnlock == device = "SimLocked"

TryUnlock == device = "SimLocked" /\ ~unlocked
Disconnected == device \in {"LteNotConnected", "InternetUnreachable"}

BeginUnlock ==
  /\ pc = "decide" /\ TryUnlock /\ pc' = "unlock"
  /\ UNCHANGED <<daemon, scheduled, to, modem, radio, network, notices, starts>>

(* verify_sim_pin: a right PIN unlocks the SIM card, a wrong one costs a   *)
(* try; the command may report the wrong PIN as an error.                  *)
Unlock ==
  /\ pc = "unlock" /\ unlocked' = TRUE
  /\ \/ /\ "right" \in Pins /\ pc' = "sim"
        /\ sim' = "verified" /\ tries' = MaxTries /\ starts' = 0
     \/ /\ "wrong" \in Pins /\ pc' \in {"sim", "dead"}
        /\ tries' = tries - 1
        /\ sim' = IF tries = 1 THEN "blocked" ELSE sim
        /\ UNCHANGED starts
  /\ UNCHANGED <<device, retries, serving, scheduled, to, modem, network, notices>>

(* Mutant: the retries are not counted.                                    *)
SleepUncounted ==
  /\ pc = "decide" /\ Disconnected /\ retries > 0
  /\ retries' = retries /\ pc' = "sleep"
  /\ UNCHANGED <<device, unlocked, serving, scheduled, to, modem, radio, network, notices,
                 starts>>

(* Mutant: one retry too many.                                             *)
SleepOnceMore ==
  /\ pc = "decide" /\ Disconnected /\ retries >= 0
  /\ retries' = retries - 1 /\ pc' = "sleep"
  /\ UNCHANGED <<device, unlocked, serving, scheduled, to, modem, radio, network, notices,
                 starts>>

BeginSleep ==
  /\ pc = "decide" /\ Disconnected /\ retries > 0
  /\ retries' = retries - 1 /\ pc' = "sleep"
  /\ UNCHANGED <<device, unlocked, serving, scheduled, to, modem, radio, network, notices,
                 starts>>

Wake ==
  /\ pc = "sleep" /\ pc' = "sim"
  /\ UNCHANGED <<daemon, scheduled, to, modem, radio, network, notices, starts>>

(* SMSs are set up unless the SIM card is locked or LTE is not available.  *)
Settle ==
  /\ pc = "decide" /\ ~TryUnlock /\ ~(Disconnected /\ retries > 0)
  /\ pc' = IF device \in Deaf THEN "run" ELSE "sms"
  /\ UNCHANGED <<daemon, scheduled, to, modem, radio, network, notices, starts>>

(* sms_utils::init: PDU mode and forwarding, or init fails.  What it takes *)
(* for the modem's OK may be an older one (SmsPort).  It has no time limit *)
(* and may never return.                                                   *)
InitSms ==
  /\ pc = "sms"
  /\ pc' = "lookup" \/ ("modem" \in Faults /\ pc' = "dead")
  /\ modem' = TRUE \/ ("modem" \in Faults /\ UNCHANGED modem)
  /\ UNCHANGED <<daemon, scheduled, to, radio, network, notices, starts>>

(* Mutant: the file is read and not deleted.                               *)
ReadListener ==
  /\ pc = "lookup"
  /\ to' = listener
  /\ pc' = IF to' = NoUser THEN "run" ELSE "notify"
  /\ UNCHANGED <<daemon, scheduled, modem, radio, network, notices, starts>>

(* lookup_init_listener: the file is read, unless it cannot be or names no *)
(* user of the configuration, and in each case deleted, unless it cannot   *)
(* be: that is logged, and the user told all the same.                     *)
LookupListener ==
  /\ pc = "lookup"
  /\ to' = listener \/ ("file" \in Faults /\ to' = NoUser)
  /\ \/ listener' = NoUser /\ UNCHANGED kept
     \/ "file" \in Faults /\ listener' = listener /\ kept' = listener
  /\ pc' = IF to' = NoUser THEN "run" ELSE "notify"
  /\ UNCHANGED <<daemon, scheduled, modem, radio, network, owed, starts>>

(* "Telco-Vecchio is up." is sent, or cannot be.                           *)
NotifyListener ==
  /\ pc = "notify" /\ pc' = "run"
  /\ \/ owed' = owed \ {to}
     \/ "send" \in Faults /\ UNCHANGED owed
  /\ to' = NoUser
  /\ UNCHANGED <<daemon, scheduled, modem, radio, network, listener, kept, starts>>

-----------------------------------------------------------------------------
(* Running.                                                                *)

(* An SMS reaches the daemon.                                              *)
Hears == pc = "run" /\ modem /\ sim \in {"disabled", "verified"} /\ lte

(* The status command resolves the status anew.                            *)
RequestStatus ==
  /\ Hears /\ pc' = "sim" /\ serving' = TRUE
  /\ UNCHANGED <<device, retries, unlocked, scheduled, to, modem, radio, network, notices,
                 starts>>

(* register_init_listener: the file is emptied and the name of the user    *)
(* written in place of whoever's was there.                                *)
Registered(u) == listener' = u /\ kept' = NoUser

(* The file cannot be opened and stays as it is, or not be written and     *)
(* stays empty: both are only logged.                                      *)
NotRegistered ==
  /\ "file" \in Faults
  /\ \/ UNCHANGED <<listener, kept>>
     \/ listener' = NoUser /\ kept' = NoUser

(* The reboot command registers the sender and spawns a task that will     *)
(* reboot, be there a registration or not.                                 *)
RequestReboot ==
  /\ Hears
  /\ \E u \in Users :
       /\ Registered(u) \/ NotRegistered
       /\ owed' = owed \cup {u}
  /\ scheduled' = scheduled \cup {"reboot"}
  /\ UNCHANGED <<pc, daemon, to, modem, radio, network, starts>>

RequestShutdown ==
  /\ Hears
  /\ scheduled' = scheduled \cup {"poweroff"}
  /\ UNCHANGED <<pc, daemon, to, modem, radio, network, notices, starts>>

(* The periodic ping fails: a reboot is started at once.                   *)
PingFails ==
  /\ pc = "run" /\ ~internet
  /\ scheduled' = scheduled \cup {"reboot"}
  /\ UNCHANGED <<pc, daemon, to, modem, radio, network, notices, starts>>

-----------------------------------------------------------------------------
(* The environment.                                                        *)

(* A modem that restarts forgets its settings, and the SIM card in it that *)
(* it was unlocked.                                                        *)
ModemForgets ==
  /\ modem' = FALSE
  /\ sim' = IF sim = "verified" THEN "not_verified" ELSE sim

(* "The modem of the router may restart on its own and lose its            *)
(* configuration" (README.md).                                             *)
ModemRestarts ==
  /\ "modem" \in Faults /\ pc # "off" /\ ModemForgets
  /\ UNCHANGED <<pc, daemon, scheduled, to, tries, network, notices, starts>>

(* The machine goes down, by a command of the daemon or for want of power, *)
(* and the modem with it or not.                                           *)
Reset ==
  /\ pc # "off" /\ (scheduled # {} \/ "power" \in Faults)
  /\ pc' = "off" /\ scheduled' = {} /\ to' = NoUser /\ serving' = FALSE
  /\ UNCHANGED <<modem, sim>> \/ ModemForgets
  /\ UNCHANGED <<device, retries, unlocked, tries, network, notices, starts>>

(* The daemon dies, by a signal or a panic, and the tasks it has spawned   *)
(* with it, but not a command that they have started.  An answer of uqmi   *)
(* without the key looked for panics, which for init is a failure as any   *)
(* other.                                                                  *)
Die ==
  /\ \/ "kill" \in Faults /\ pc \in Running
     \/ "qmi" \in Faults /\ serving /\ pc \in {"sim", "lte"}
  /\ pc' = "dead" /\ scheduled' \in SUBSET scheduled /\ to' = NoUser /\ serving' = FALSE
  /\ UNCHANGED <<device, retries, unlocked, modem, radio, network, notices, starts>>

NetworkChanges ==
  /\ "network" \in Faults
  /\ \/ lte' = ~lte /\ UNCHANGED internet
     \/ internet' = ~internet /\ UNCHANGED lte
  /\ UNCHANGED <<pc, daemon, scheduled, to, modem, radio, notices, starts>>

-----------------------------------------------------------------------------

(* The steps of init and of the status command that have an end: the       *)
(* set-up of the modem need not have one.                                  *)
InitStep ==
  \/ ReadConfig \/ ReadSim \/ ReadLte \/ ReadInternet
  \/ BeginUnlock \/ Unlock \/ BeginSleep \/ Wake
  \/ Settle \/ LookupListener \/ NotifyListener

Next ==
  \/ Start \/ InitStep \/ InitSms \/ QmiFails
  \/ RequestStatus \/ RequestReboot \/ RequestShutdown \/ PingFails
  \/ ModemRestarts \/ Reset \/ Die \/ NetworkChanges

Spec == Init /\ [][Next]_vars

(* Nothing keeps init from its next step, as long as the commands it runs  *)
(* come to an end, except at the set-up of the modem.                      *)
FairSpec == Spec /\ WF_vars(InitStep)

-----------------------------------------------------------------------------
(* Safety.                                                                 *)

(* However often the daemon is started, reboots or dies, a start costs the *)
(* SIM card at most one of its tries (sim_unlock_performed in init.rs).    *)
PinSpared == MaxTries - tries <= starts

(* A user is told that the router is up only after having asked for a      *)
(* reboot since the last time, over any number of resets, deaths and       *)
(* failures to register, to read or to send (init.rs), unless the file     *)
(* still names him because it could not be deleted when he was told.       *)
NoUnsolicitedNotice == pc = "notify" => to \in owed \cup {kept}

(* Liveness: the initialisation ends, with the network up or down, unless  *)
(* it waits for the answer of the modem for ever, and goes on if it came.  *)
Working == Initialising \ {"sms"}
InitEnds == pc \in Working ~> pc \notin Working

-----------------------------------------------------------------------------
(* The strengthening of the invariants that every step preserves.          *)

(* init attempts to unlock a card that is locked, and so has a try left.   *)
SimOK ==
  /\ sim \in {"verified", "not_verified"} => tries > 0
  /\ pc = "unlock" => sim = "not_verified" /\ ~unlocked
  /\ pc = "decide" /\ device = "SimLocked" => sim = "not_verified"

(* Until a start has made its attempt, the tries lost were paid for by the *)
(* starts before it.                                                       *)
AttemptLeft ==
  pc = "config" \/ (pc \in Initialising /\ ~serving /\ ~unlocked) =>
    MaxTries - tries < starts \/ starts = MaxTries

(* Only a status command reads the status on behalf of another than init.  *)
ServingOK == serving => pc \in Resolving

(* Whoever is registered has asked for a reboot since he was told or is    *)
(* registered for want of a deletion, and nobody else is while the notice  *)
(* is being sent.                                                          *)
ListenerOwed ==
  /\ listener \in owed \cup {kept, NoUser}
  /\ pc = "notify" => listener \in {kept, NoUser}

IInv ==
  /\ TypeOK /\ SimOK /\ ServingOK /\ AttemptLeft /\ PinSpared
  /\ ListenerOwed /\ NoUnsolicitedNotice
=============================================================================
