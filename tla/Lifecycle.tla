----------------------------- MODULE Lifecycle -----------------------------
(***************************************************************************)
(* What the orchestration loop promises about the device's credentials     *)
(* (spec.md 3, 4.4 and 7), with everything else hidden: the stored WiFi    *)
(* configuration, token and plant id, and the backend's view of them.      *)
(*                                                                         *)
(*  - A token is stored only into an empty slot, in the step that stores  *)
(*    the WiFi configuration it was obtained over.                         *)
(*  - A plant id is stored only into an empty slot, only while a token is  *)
(*    stored that the backend accepts, and only one the backend knows.     *)
(*  - A token is removed only when the backend refuses it, and a plant id  *)
(*    only when the backend does not know it; each removal keeps the       *)
(*    other credential.                                                    *)
(*  - A factory reset removes both and the WiFi configuration.            *)
(*  - The backend issues and revokes credentials on its own.               *)
(***************************************************************************)
CONSTANTS
  Tokens, Plants,   \* credentials the backend can issue
  TokenVals,        \* values a stored token can have
  Configs,          \* WiFi configurations
  NoWifi, NoToken, NoPlant  \* an empty slot

VARIABLES
  wifi,      \* the stored WiFi configuration, or NoWifi
  token,     \* the stored token, or NoToken
  plant,     \* the stored plant id, or NoPlant
  accepted,  \* the tokens the backend accepts
  known      \* the plant ids the backend knows

avars == <<wifi, token, plant, accepted, known>>

Init ==
  /\ wifi = NoWifi
  /\ token = NoToken
  /\ plant = NoPlant
  /\ accepted = {}
  /\ known = {}

\* A token is obtained into the empty slot, over a configuration stored in
\* the same step.
Obtain ==
  /\ token = NoToken
  /\ token' \in TokenVals
  /\ wifi' \in Configs
  /\ plant' = plant

\* A plant id the backend knows is obtained under an accepted token.
Register ==
  /\ token \in accepted
  /\ plant = NoPlant
  /\ plant' \in Plants \cap known'
  /\ UNCHANGED <<wifi, token>>

\* The backend refused the stored token: only the token is removed.
Refused ==
  /\ token # NoToken
  /\ token \notin accepted
  /\ token' = NoToken
  /\ UNCHANGED <<wifi, plant>>

\* The backend does not know the stored plant id: only it is removed.
Unknown ==
  /\ plant # NoPlant
  /\ plant \notin known
  /\ plant' = NoPlant
  /\ UNCHANGED <<wifi, token>>

FactoryReset ==
  /\ wifi' = NoWifi
  /\ token' = NoToken
  /\ plant' = NoPlant

\* Only the WiFi configuration and the backend's view change.
Rest ==
  /\ wifi' \in Configs \cup {NoWifi}
  /\ UNCHANGED <<token, plant>>

Next ==
  /\ Obtain \/ Register \/ Refused \/ Unknown \/ FactoryReset \/ Rest
  /\ accepted' \subseteq Tokens
  /\ known' \subseteq Plants

Spec == Init /\ [][Next]_avars
=============================================================================
