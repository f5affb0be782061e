------------------------------- MODULE Panic -------------------------------
(***************************************************************************)
(* The panic controller of src/src/panic.cpp: iop_panic -> panic_hook ->   *)
(* entry (re-entry check, panicking := true, delay 1 s) -> halt (the       *)
(* recovery loop: give up without WiFi config, token or radio; report the  *)
(* panic and try an upgrade when connected; deep sleep).                    *)
(*                                                                         *)
(* On the ESP8266 core ESP.deepSleep(us) does not return: the chip powers  *)
(* down and the RTC timer resets it after `us` microseconds, so RAM (the    *)
(* `panicking` flag, halt's `reportedPanic`) is lost and the firmware boots *)
(* again; deepSleep(0) powers down until an external reset.  The lines     *)
(* after the sleeps in halt (reconnect, next iteration, __panic_func) are   *)
(* therefore never executed on the device, and the model follows the       *)
(* chip: a sleep with a timer ends in a reboot, a sleep of 0 never ends.    *)
(*                                                                         *)
(* Between panics the normal firmware runs; here it is an environment that *)
(* may change what halt reads: the stored WiFi config and token, the radio *)
(* mode and the link.                                                       *)
(***************************************************************************)
EXTENDS Naturals

CONSTANTS
    MaxPanics       \* bound on the panics raised in one behaviour

ASSUME PanicConstAssumption == MaxPanics \in Nat \ {0}

Client == INSTANCE Api

VARIABLES
    ppc,            \* "running" (normal firmware), "halt" (recovery loop),
                    \* "reentry" (iop_panic raised inside halt), "asleep",
                    \* "restarting" (ESP.restart after an upgrade), "dead"
    panicking,      \* panic.cpp:8, static bool in RAM
    reportedPanic,  \* panic.cpp:122, local of halt
    hasWifi,        \* flash.readWifiConfig().isSome()
    hasToken,       \* flash.readAuthToken().isSome()
    wifiMode,       \* WiFi.getMode(): "STA" or "OFF"
    connected,      \* Network::isConnected()
    msgFits,        \* the PanicData of this panic fits makeJson<2048>
    sleepUs,        \* argument of the pending ESP.deepSleep
    panics,         \* panics raised so far (bounded by MaxPanics)
    sinceAttempt    \* ms since the last report/upgrade request, saturated

vars == <<ppc, panicking, reportedPanic, hasWifi, hasToken, wifiMode,
          connected, msgFits, sleepUs, panics, sinceAttempt>>

Phases == {"running", "halt", "reentry", "asleep", "restarting", "dead"}

\* panic.cpp:124-125, the values as written (the names say microseconds).
tenMinutesUs == 10 * 60 * 1000
oneHourUs == 60 * 60 * 1000

\* panic.cpp:111, delay(oneSecond) in entry.
oneSecondMs == 1000

\* The backoff the recovery loop is meant to keep between two requests to
\* the backend, ten minutes, in ms; the ghost clock saturates there.
BackoffMs == 600000

Elapse(ms) == IF sinceAttempt + ms >= BackoffMs THEN BackoffMs
              ELSE sinceAttempt + ms

TypeOK ==
    /\ ppc \in Phases
    /\ panicking \in BOOLEAN
    /\ reportedPanic \in BOOLEAN
    /\ hasWifi \in BOOLEAN
    /\ hasToken \in BOOLEAN
    /\ wifiMode \in {"STA", "OFF"}
    /\ connected \in BOOLEAN
    /\ msgFits \in BOOLEAN
    /\ sleepUs \in {0, tenMinutesUs, oneHourUs}
    /\ panics \in 0..MaxPanics
    /\ sinceAttempt \in 0..BackoffMs

\* Boot: nothing panicked yet, flash and radio in any state.
Init ==
    /\ ppc = "running"
    /\ panicking = FALSE
    /\ reportedPanic = FALSE
    /\ hasWifi \in BOOLEAN
    /\ hasToken \in BOOLEAN
    /\ wifiMode \in {"STA", "OFF"}
    /\ connected = FALSE
    /\ msgFits \in BOOLEAN
    /\ sleepUs = 0
    /\ panics = 0
    /\ sinceAttempt = BackoffMs

-----------------------------------------------------------------------------
(* The normal firmware between panics: provisioning and the event loop    *)
(* write or remove the config and token, the radio is switched, the link  *)
(* comes and goes, and time passes (a little or a lot).                   *)
FirmwareStep ==
    /\ ppc = "running"
    /\ hasWifi' \in BOOLEAN
    /\ hasToken' \in BOOLEAN
    /\ wifiMode' \in {"STA", "OFF"}
    /\ connected' \in BOOLEAN
    /\ sinceAttempt' \in {sinceAttempt, BackoffMs}
    /\ UNCHANGED <<ppc, panicking, reportedPanic, msgFits, sleepUs, panics>>

\* The link drops or comes back while halt runs.
LinkChange ==
    /\ ppc = "halt"
    /\ connected' = ~connected
    /\ UNCHANGED <<ppc, panicking, reportedPanic, hasWifi, hasToken, wifiMode,
                   msgFits, sleepUs, panics, sinceAttempt>>

(* iop_panic in the normal firmware: panic_hook calls entry, which finds  *)
(* panicking false, sets it, waits a second, and halt starts with         *)
(* reportedPanic = false.                                                  *)
Panic ==
    /\ ppc = "running"
    /\ panics < MaxPanics
    /\ ~panicking
    /\ panicking' = TRUE
    /\ reportedPanic' = FALSE
    /\ msgFits' \in BOOLEAN
    /\ panics' = panics + 1
    /\ sinceAttempt' = Elapse(oneSecondMs)
    /\ ppc' = "halt"
    /\ UNCHANGED <<hasWifi, hasToken, wifiMode, connected, sleepUs>>

\* A panic raised by the recovery code itself (an unwrap in the flash or
\* network layer) while halt runs.
NestedPanic ==
    /\ ppc = "halt"
    /\ panics < MaxPanics
    /\ panics' = panics + 1
    /\ ppc' = "reentry"
    /\ UNCHANGED <<panicking, reportedPanic, hasWifi, hasToken, wifiMode,
                   connected, msgFits, sleepUs, sinceAttempt>>

\* entry with panicking already set: ESP.deepSleep(0), which never wakes.
Reentry ==
    /\ ppc = "reentry"
    /\ panicking
    /\ ppc' = "dead"
    /\ sleepUs' = 0
    /\ UNCHANGED <<panicking, reportedPanic, hasWifi, hasToken, wifiMode,
                   connected, msgFits, panics, sinceAttempt>>

\* The three breaks at the top of halt's loop.
Unrecoverable == ~hasWifi \/ ~hasToken \/ wifiMode = "OFF"

\* break, then ESP.deepSleep(0) after the loop.
HaltGiveUp ==
    /\ ppc = "halt"
    /\ Unrecoverable
    /\ ppc' = "dead"
    /\ sleepUs' = 0
    /\ UNCHANGED <<panicking, reportedPanic, hasWifi, hasToken, wifiMode,
                   connected, msgFits, panics, sinceAttempt>>

\* The statuses Api::reportPanic can return for this panic's message.
ReportStatuses == {Client!reportPanic(msgFits, r) : r \in Client!HttpResults}

\* upgrade() of panic.cpp (lines 13-42) on the outcome u of Api::upgrade:
\* the device restarts with the written image, CLIENT_BUFFER_OVERFLOW raises
\* iop_panic inside halt, every other status returns to halt.
AfterUpgrade(u) ==
    IF u = "RESTART" THEN "restarting"
    ELSE IF u = "CLIENT_BUFFER_OVERFLOW" THEN "reentry"
    ELSE "asleep"

\* Mutant: the connected branch runs without the breaks above it.
HaltRecoverNoCheck(s, u) ==
    /\ ppc = "halt"
    /\ connected
    /\ reportedPanic' = (reportedPanic \/ s = "OK")
    /\ sinceAttempt' = 0
    /\ ppc' = AfterUpgrade(u)
    /\ sleepUs' = IF ppc' = "asleep" THEN tenMinutesUs ELSE sleepUs
    /\ UNCHANGED <<panicking, hasWifi, hasToken, wifiMode, connected, msgFits,
                   panics>>

(* Connected: report unless already reported (reportPanic is true only on *)
(* OK), then upgrade(), then ESP.deepSleep(tenMinutesUs) if it returned.  *)
HaltRecover(s, u) ==
    /\ ppc = "halt"
    /\ ~Unrecoverable
    /\ connected
    /\ reportedPanic' = (reportedPanic \/ s = "OK")
    /\ sinceAttempt' = 0
    /\ ppc' = AfterUpgrade(u)
    /\ sleepUs' = IF ppc' = "asleep" THEN tenMinutesUs ELSE sleepUs
    /\ UNCHANGED <<panicking, hasWifi, hasToken, wifiMode, connected, msgFits,
                   panics>>

\* Mutant: the offline branch sleeps with deepSleep(0).
HaltOfflineForever ==
    /\ ppc = "halt"
    /\ ~Unrecoverable
    /\ ~connected
    /\ ppc' = "asleep"
    /\ sleepUs' = 0
    /\ UNCHANGED <<panicking, reportedPanic, hasWifi, hasToken, wifiMode,
                   connected, msgFits, panics, sinceAttempt>>

\* Not connected: ESP.deepSleep(oneHourUs).
HaltOffline ==
    /\ ppc = "halt"
    /\ ~Unrecoverable
    /\ ~connected
    /\ ppc' = "asleep"
    /\ sleepUs' = oneHourUs
    /\ UNCHANGED <<panicking, reportedPanic, hasWifi, hasToken, wifiMode,
                   connected, msgFits, panics, sinceAttempt>>

(* The RTC timer resets the chip: RAM is lost (panicking, reportedPanic), *)
(* flash and the radio mode are kept, the link is down after boot.       *)
Wake ==
    /\ ppc = "asleep"
    /\ sleepUs > 0
    /\ ppc' = "running"
    /\ panicking' = FALSE
    /\ reportedPanic' = FALSE
    /\ connected' = FALSE
    /\ sinceAttempt' = Elapse(sleepUs \div 1000)
    /\ sleepUs' = 0
    /\ UNCHANGED <<hasWifi, hasToken, wifiMode, msgFits, panics>>

\* ESP.restart() after a written image: a software reset, RAM lost.  The
\* device now runs the new image, whose requests are not retries of the
\* old one's: the ghost clock of the backoff starts afresh.
Restart ==
    /\ ppc = "restarting"
    /\ ppc' = "running"
    /\ panicking' = FALSE
    /\ reportedPanic' = FALSE
    /\ connected' = FALSE
    /\ sinceAttempt' = BackoffMs
    /\ UNCHANGED <<hasWifi, hasToken, wifiMode, msgFits, sleepUs, panics>>

RecoveryAttempt ==
    \E s \in ReportStatuses, u \in Client!UpgradeOutcomes : HaltRecover(s, u)

\* The steps of the device's own code (and its RTC timer).
DeviceStep ==
    \/ Reentry \/ HaltGiveUp \/ RecoveryAttempt \/ HaltOffline
    \/ Wake \/ Restart

Next ==
    \/ FirmwareStep \/ LinkChange \/ Panic \/ NestedPanic
    \/ DeviceStep

(* The code of panic.cpp runs to its next sleep without waiting on        *)
(* anything but the network calls, which time out; the RTC timer fires.   *)
(* Nothing forces the firmware to panic or the link to change.            *)
Spec == Init /\ [][Next]_vars /\ WF_vars(DeviceStep)

-----------------------------------------------------------------------------
(* Properties.                                                            *)

\* Spec 4.5: the situations halt cannot recover from without a human.
NeedsHuman == ~hasWifi \/ ~hasToken \/ wifiMode = "OFF"

\* A panic with a WiFi config, a token and the radio on never leaves the
\* device asleep for good: it runs the firmware again or meets a nested
\* panic (halt's sleeps at panic.cpp:150 and 153 carry a timer).
RecoverableRestarts ==
    (ppc = "halt" /\ ~NeedsHuman) ~> (ppc \in {"running", "reentry"})

\* Spec 4.5 and 5: two requests of the recovery loop to the backend (report
\* and upgrade, panic.cpp:142-150) are at least a backoff window of ten
\* minutes apart, across the resets of the timed deep sleeps too, as long
\* as the same image runs.
RecoveryBackoff ==
    [][RecoveryAttempt => sinceAttempt = BackoffMs]_vars

\* The controller seen through the abstract recovery of Recovery.tla: the
\* firmware is up while running, stopped for good once asleep with
\* deepSleep(0), and recovering in between; the recovery has panicked
\* itself while entry's re-entry branch is pending.
RecoveryPhase ==
    IF ppc = "running" THEN "up" ELSE IF ppc = "dead" THEN "stopped"
    ELSE "recovering"

Recovery == INSTANCE Recovery WITH phase <- RecoveryPhase,
              nested <- (ppc = "reentry"), human <- NeedsHuman

\* The panic controller implements the recovery: entry starts it, halt
\* brings the firmware back (a timed deep sleep or ESP.restart) only with
\* WiFi config, token and radio and no nested panic, it stops the device
\* for good only without them or on a nested panic, and the recovery code
\* never changes flash or the radio.
ImplementsRecovery == Recovery!Spec

\* Spec 4.5 and 8: a panic while panicking escalates to a hard reset, after
\* which the firmware runs again (panic.cpp:103-108).
ReentryRecovers ==
    (ppc = "reentry" /\ ~NeedsHuman) ~> (ppc = "running")
=============================================================================
