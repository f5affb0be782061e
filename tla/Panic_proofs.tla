----------------------------- MODULE Panic_proofs -----------------------------
(***************************************************************************)
(* Proofs about the panic controller for every bound on the panics.       *)
(***************************************************************************)
EXTENDS Panic, TLAPS

\* The durations of panic.cpp and the backoff window are naturals.  The
\* proofs below keep them opaque: their numerals are only needed here.
LEMMA DurationsNat ==
  /\ BackoffMs \in Nat
  /\ tenMinutesUs \in Nat
  /\ oneHourUs \in Nat
  /\ oneSecondMs \in Nat
BY SMT DEF BackoffMs, tenMinutesUs, oneHourUs, oneSecondMs

\* The ghost clock saturates within the backoff window.
LEMMA ElapseType ==
  ASSUME NEW ms \in Nat, sinceAttempt \in 0 .. BackoffMs
  PROVE  Elapse(ms) \in 0 .. BackoffMs
BY DurationsNat, SMT DEF Elapse

\* Every step of entry, halt, the deep sleeps and the firmware keeps the
\* controller's variables within their types; in particular halt only ever
\* sleeps with one of the durations of panic.cpp:124-125 or with 0.
THEOREM TypeCorrect == Spec => []TypeOK
<1>1. Init => TypeOK
  <2> SUFFICES ASSUME Init PROVE TypeOK
    OBVIOUS
  <2>1. sinceAttempt \in 0 .. BackoffMs /\ panics \in 0 .. MaxPanics
    BY DurationsNat, PanicConstAssumption, SMT DEF Init
  <2> QED BY <2>1 DEF Init, TypeOK, Phases
<1>2. TypeOK /\ [Next]_vars => TypeOK'
  <2> SUFFICES ASSUME TypeOK, [Next]_vars PROVE TypeOK'
    OBVIOUS
  <2>1. CASE FirmwareStep
    BY <2>1 DEF FirmwareStep, TypeOK
  <2>2. CASE LinkChange
    BY <2>2 DEF LinkChange, TypeOK
  <2>3. CASE Panic
    <3>1. sinceAttempt' \in 0 .. BackoffMs
      BY <2>3, DurationsNat, ElapseType DEF Panic, TypeOK
    <3>2. panics' \in 0 .. MaxPanics
      BY <2>3, PanicConstAssumption DEF Panic, TypeOK
    <3> QED BY <2>3, <3>1, <3>2 DEF Panic, TypeOK, Phases
  <2>4. CASE NestedPanic
    <3>1. panics' \in 0 .. MaxPanics
      BY <2>4, PanicConstAssumption DEF NestedPanic, TypeOK
    <3> QED BY <2>4, <3>1 DEF NestedPanic, TypeOK, Phases
  <2>5. CASE Reentry
    BY <2>5 DEF Reentry, TypeOK, Phases
  <2>6. CASE HaltGiveUp
    BY <2>6 DEF HaltGiveUp, TypeOK, Phases
  <2>7. CASE RecoveryAttempt
    <3>1. PICK s \in ReportStatuses, u \in Client!UpgradeOutcomes :
                 HaltRecover(s, u)
      BY <2>7 DEF RecoveryAttempt
    <3>2. ppc' \in Phases
      BY <3>1 DEF HaltRecover, AfterUpgrade, Phases
    <3>3. sinceAttempt' \in 0 .. BackoffMs
      BY <3>1, DurationsNat, SMT DEF HaltRecover
    <3> QED BY <3>1, <3>2, <3>3 DEF HaltRecover, TypeOK
  <2>8. CASE HaltOffline
    BY <2>8 DEF HaltOffline, TypeOK, Phases
  <2>9. CASE Wake
    <3>1. sleepUs \div 1000 \in Nat
      BY DurationsNat, SMT DEF TypeOK
    <3>2. sinceAttempt' \in 0 .. BackoffMs
      BY <2>9, <3>1, ElapseType DEF Wake, TypeOK
    <3> QED BY <2>9, <3>2 DEF Wake, TypeOK, Phases
  <2>10. CASE Restart
    <3>1. sinceAttempt' \in 0 .. BackoffMs
      BY <2>10, DurationsNat, SMT DEF Restart
    <3> QED BY <2>10, <3>1 DEF Restart, TypeOK, Phases
  <2>11. CASE UNCHANGED vars
    BY <2>11 DEF vars, TypeOK
  <2> QED
    BY <2>1, <2>2, <2>3, <2>4, <2>5, <2>6, <2>7, <2>8, <2>9, <2>10, <2>11
    DEF Next, DeviceStep
<1> QED BY <1>1, <1>2, PTL DEF Spec
-----------------------------------------------------------------------------
(* The controller implements the abstract recovery.                       *)

\* A timed sleep or a restart is pending only for a panic halt could
\* recover from: halt reaches them past its breaks (panic.cpp:127-140),
\* and nothing changes flash or the radio until the firmware runs again.
SleepRecoverable ==
  ppc \in {"asleep", "restarting"} => ~NeedsHuman

THEOREM SleepRecoverableInvariant == Spec => []SleepRecoverable
<1>1. Init => SleepRecoverable
  BY DEF Init, SleepRecoverable
<1>2. SleepRecoverable /\ [Next]_vars => SleepRecoverable'
  <2> SUFFICES ASSUME SleepRecoverable, [Next]_vars PROVE SleepRecoverable'
    OBVIOUS
  <2>1. CASE FirmwareStep
    BY <2>1 DEF FirmwareStep, SleepRecoverable
  <2>2. CASE LinkChange \/ Panic \/ NestedPanic \/ Reentry \/ HaltGiveUp
    BY <2>2 DEF LinkChange, Panic, NestedPanic, Reentry, HaltGiveUp,
                SleepRecoverable, NeedsHuman
  <2>3. CASE RecoveryAttempt
    <3>1. PICK s \in ReportStatuses, u \in Client!UpgradeOutcomes :
                 HaltRecover(s, u)
      BY <2>3 DEF RecoveryAttempt
    <3> QED BY <3>1 DEF HaltRecover, SleepRecoverable, Unrecoverable, NeedsHuman
  <2>4. CASE HaltOffline \/ Wake \/ Restart
    BY <2>4 DEF HaltOffline, Wake, Restart, SleepRecoverable, Unrecoverable,
                NeedsHuman
  <2>5. CASE UNCHANGED vars
    BY <2>5 DEF vars, SleepRecoverable, NeedsHuman
  <2> QED BY <2>1, <2>2, <2>3, <2>4, <2>5 DEF Next, DeviceStep
<1> QED BY <1>1, <1>2, PTL DEF Spec

\* Every step of entry, halt, the deep sleeps, ESP.restart, the link and
\* the firmware is a step of the abstract recovery or leaves its view
\* unchanged: the phase, whether the recovery has panicked, and whether a
\* human is needed.
THEOREM RecoveryRefinement == Spec => ImplementsRecovery
<1> DEFINE R == Recovery!rvars
<1>1. Init => Recovery!Init
  BY DEF Init, Recovery!Init, RecoveryPhase, NeedsHuman
<1>2. SleepRecoverable /\ [Next]_vars => [Recovery!Next]_R
  <2> SUFFICES ASSUME SleepRecoverable, [Next]_vars PROVE [Recovery!Next]_R
    OBVIOUS
  <2>1. CASE FirmwareStep
    BY <2>1 DEF FirmwareStep, Recovery!Next, Recovery!Change, RecoveryPhase,
                NeedsHuman
  <2>2. CASE LinkChange \/ HaltOffline
    BY <2>2 DEF LinkChange, HaltOffline, Recovery!rvars, RecoveryPhase,
                NeedsHuman
  <2>3. CASE Panic
    BY <2>3 DEF Panic, Recovery!Next, Recovery!Fail, RecoveryPhase, NeedsHuman
  <2>4. CASE NestedPanic
    BY <2>4 DEF NestedPanic, Recovery!Next, Recovery!NestedFail,
                RecoveryPhase, NeedsHuman
  <2>5. CASE Reentry
    BY <2>5 DEF Reentry, Recovery!Next, Recovery!Stop, RecoveryPhase, NeedsHuman
  <2>6. CASE HaltGiveUp
    BY <2>6 DEF HaltGiveUp, Recovery!Next, Recovery!Stop, RecoveryPhase,
                Unrecoverable, NeedsHuman
  <2>7. CASE RecoveryAttempt
    <3>1. PICK s \in ReportStatuses, u \in Client!UpgradeOutcomes :
                 HaltRecover(s, u)
      BY <2>7 DEF RecoveryAttempt
    <3>2. UNCHANGED NeedsHuman /\ ppc = "halt"
      BY <3>1 DEF HaltRecover, NeedsHuman
    <3>3. CASE u = "CLIENT_BUFFER_OVERFLOW"
      <4>1. ppc' = "reentry"
        BY <3>1, <3>3 DEF HaltRecover, AfterUpgrade
      <4> QED BY <3>2, <4>1 DEF Recovery!Next, Recovery!NestedFail, RecoveryPhase
    <3>4. CASE u # "CLIENT_BUFFER_OVERFLOW"
      <4>1. ppc' \in {"restarting", "asleep"}
        BY <3>1, <3>4 DEF HaltRecover, AfterUpgrade
      <4> QED BY <3>2, <4>1 DEF Recovery!rvars, RecoveryPhase
    <3> QED BY <3>3, <3>4
  <2>8. CASE Wake \/ Restart
    <3>1. ppc \in {"asleep", "restarting"} /\ ppc' = "running"
          /\ UNCHANGED <<hasWifi, hasToken, wifiMode>>
      BY <2>8 DEF Wake, Restart
    <3>2. ~NeedsHuman /\ UNCHANGED NeedsHuman
      BY <3>1 DEF SleepRecoverable, NeedsHuman
    <3> QED BY <3>1, <3>2 DEF Recovery!Next, Recovery!Resume, RecoveryPhase
  <2>9. CASE UNCHANGED vars
    BY <2>9 DEF vars, Recovery!rvars, RecoveryPhase, NeedsHuman
  <2> QED BY <2>1, <2>2, <2>3, <2>4, <2>5, <2>6, <2>7, <2>8, <2>9
          DEF Next, DeviceStep
<1> QED BY <1>1, <1>2, SleepRecoverableInvariant, PTL
        DEF Spec, ImplementsRecovery, Recovery!Spec
=============================================================================
