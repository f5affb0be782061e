------------------------------ MODULE Recovery ------------------------------
(***************************************************************************)
(* What the panic controller promises (spec.md 4.5), with the mechanism   *)
(* hidden: the device is up, recovering from a panic, or stopped for good. *)
(*                                                                         *)
(*  - A panic of the running firmware starts a recovery.                  *)
(*  - A recovery may itself panic (nested).                                *)
(*  - A recovery ends with the firmware up again only when nothing needs  *)
(*    a human and it did not panic itself.                                 *)
(*  - It ends with the device stopped for good only when a human is       *)
(*    needed (no WiFi config, no token, the radio off) or it panicked     *)
(*    itself; a stopped device stays stopped.                              *)
(*  - What needs a human changes only while the firmware is up.           *)
(***************************************************************************)
VARIABLES
  phase,   \* "up", "recovering" or "stopped"
  nested,  \* the recovery in progress has itself panicked
  human    \* the device cannot recover without a human

rvars == <<phase, nested, human>>

Init ==
  /\ phase = "up"
  /\ nested = FALSE
  /\ human \in BOOLEAN

\* The firmware panics.
Fail ==
  /\ phase = "up"
  /\ phase' = "recovering"
  /\ UNCHANGED <<nested, human>>

\* The recovery code panics.
NestedFail ==
  /\ phase = "recovering"
  /\ ~nested
  /\ nested' = TRUE
  /\ UNCHANGED <<phase, human>>

\* The firmware runs again.
Resume ==
  /\ phase = "recovering"
  /\ ~nested
  /\ ~human
  /\ phase' = "up"
  /\ UNCHANGED <<nested, human>>

\* The device stops for good; no recovery is in progress any more.
Stop ==
  /\ phase = "recovering"
  /\ nested \/ human
  /\ phase' = "stopped"
  /\ nested' = FALSE
  /\ UNCHANGED human

\* The running firmware provisions, forgets or switches the radio.
Change ==
  /\ phase = "up"
  /\ human' \in BOOLEAN
  /\ UNCHANGED <<phase, nested>>

Next == Fail \/ NestedFail \/ Resume \/ Stop \/ Change

Spec == Init /\ [][Next]_rvars
=============================================================================
