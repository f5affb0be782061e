----------------------------- MODULE EventLoop -----------------------------
(***************************************************************************)
(* The device orchestration loop of the nodemcu firmware                   *)
(* (src/nodemcu/src/main.cpp, class EventLoop) together with the calls it  *)
(* makes: the nodemcu Api (src/nodemcu/src/api.cpp), the credentials       *)
(* server (its interface is src/include/server.hpp, its body is not under  *)
(* src/ and is modelled from spec.md 4.3), the flash store, the radio, the *)
(* interrupt slot shared with the interrupt service routine, and the       *)
(* backend that answers the requests.                                      *)
(*                                                                         *)
(* One call of EventLoop::loop() is three steps: reading the interrupt     *)
(* slot (main.cpp:77), clearing it and handling the event read             *)
(* (main.cpp:78-117), and the rest of the pass (main.cpp:44-63) with one   *)
(* of its four branches.  The read and the clear are two statements, and   *)
(* the interrupt routine may write the slot between them.                  *)
(***************************************************************************)
EXTENDS Naturals, FiniteSets

CONSTANTS
  Ssids, Psks,          \* network names and pre-shared keys (model values)
  GoodConfigs,          \* the WiFi configurations of access points in range
  Tokens,               \* auth tokens the backend can issue
  Plants,               \* plant ids the backend can issue
  NoWifi, NoToken, NoPlant, NoResponse,  \* absent values
  ErrorBody,            \* a short body of an error response
  TooBig,               \* a body longer than the fixed-size array it fills
  Modulus,              \* 2^w, w the bit width of unsigned long (2^32 on the device)
  Interval,             \* the measurement interval of configuration.h
  FlashCooldown,        \* the server's stored-WiFi retry cooldown
  MaxStep,              \* largest advance of millis() between two steps
  MaxFaults,            \* bound on environment faults in one behaviour
  FactoryResetEnabled   \* whether IOP_FACTORY_RESET is defined

Configs == [ssid : Ssids, psk : Psks]

ASSUME ConstAssumption ==
  /\ GoodConfigs \subseteq Configs
  /\ Modulus \in Nat \ {0}
  /\ Interval \in Nat \ {0}
  /\ FlashCooldown \in Nat \ {0}
  /\ MaxStep \in Nat \ {0}
  /\ MaxFaults \in Nat
  /\ FactoryResetEnabled \in BOOLEAN
  /\ {NoToken, ErrorBody, TooBig} \cap Tokens = {}
  /\ {NoPlant, ErrorBody, TooBig} \cap Plants = {}
  /\ NoResponse \notin {200, 403, 404}

VARIABLES
  flashWifi, flashToken, flashPlant,  \* the Flash store (main.cpp:20)
  station,          \* the station configuration kept by the WiFi SDK
  connected,        \* Api::isConnected()
  interruptEvent,   \* the volatile slot written by the interrupt routine
  lpc,              \* where the current loop() pass is
  event,            \* the local copy read at main.cpp:77
  now,              \* millis()
  nextTime,         \* EventLoop::nextTime
  isServerOpen,     \* CredentialsServer::isServerOpen
  nextTryFlash,     \* CredentialsServer::nextTryFlashWifiCredentials
  validTokens,      \* backend: tokens it currently accepts
  validPlants,      \* backend: plant ids it currently knows
  faults,           \* environment faults so far
  ticked,           \* millis() advanced since the last loop() pass began
  sinceReport       \* history: ms since the last measurement (saturated)

vars == <<flashWifi, flashToken, flashPlant, station, connected,
          interruptEvent, lpc, event, now, nextTime, isServerOpen,
          nextTryFlash, validTokens, validPlants, faults, ticked, sinceReport>>

Events == {"NONE", "FACTORY_RESET", "ON_CONNECTION"}
Time == 0 .. (Modulus - 1)

\* Unsigned long arithmetic wraps modulo 2^w.
Wrap(x) == x % Modulus

\* Tokens a call to Api::authenticate can return: the ones the backend
\* issued and, see authenticate below, the error body read as a token.
TokenValues == Tokens \cup {ErrorBody}

\* A response of the HTTP layer: Option<Response>.
Response(c, b) == [code |-> c, body |-> b]

TypeOK ==
  /\ flashWifi \in Configs \cup {NoWifi}
  /\ flashToken \in TokenValues \cup {NoToken}
  /\ flashPlant \in Plants \cup {NoPlant}
  /\ station \in Configs \cup {NoWifi}
  /\ connected \in BOOLEAN
  /\ interruptEvent \in Events
  /\ lpc \in {"idle", "read", "tick"}
  /\ event \in Events
  /\ now \in Time
  /\ nextTime \in Time
  /\ isServerOpen \in BOOLEAN
  /\ nextTryFlash \in Time
  /\ validTokens \subseteq Tokens
  /\ validPlants \subseteq Plants
  /\ faults \in 0 .. MaxFaults
  /\ ticked \in BOOLEAN
  /\ sinceReport \in 0 .. Interval

(***************************************************************************)
(* Initial state: the firmware has just booted with an empty Flash.  The  *)
(* WiFi SDK keeps its own station configuration across boots, so it may    *)
(* hold any network.  EventLoop::nextTime has no initializer and the       *)
(* constructor does not set it (main.cpp:22, 68-73): its first value is    *)
(* whatever the heap held, any unsigned long.                              *)
(***************************************************************************)
Init ==
  /\ flashWifi = NoWifi
  /\ flashToken = NoToken
  /\ flashPlant = NoPlant
  /\ station \in Configs \cup {NoWifi}
  /\ connected = FALSE
  /\ interruptEvent = "NONE"
  /\ lpc = "idle"
  /\ event = "NONE"
  /\ now = 0
  /\ nextTime \in Time
  /\ isServerOpen = FALSE
  /\ nextTryFlash = 0
  /\ validTokens = {}
  /\ validPlants = {}
  /\ faults = 0
  /\ ticked = FALSE
  /\ sinceReport = Interval

-----------------------------------------------------------------------------
(***************************************************************************)
(* The nodemcu Api (src/nodemcu/src/api.cpp), as functions of the HTTP     *)
(* response.  Results are records: ok, value, and the Option<HttpCode>     *)
(* error (NoResponse when the Option is empty).                            *)
(***************************************************************************)
Ok(v) == [ok |-> TRUE, value |-> v, code |-> NoResponse]
Err(c) == [ok |-> FALSE, value |-> NoResponse, code |-> c]

\* AuthToken::fromString of a payload: TOO_BIG, or the bytes as a token.
\* A short body that the backend did not issue becomes ErrorBody.
AsToken(b) == IF b \in Tokens THEN b ELSE ErrorBody

\* Fault variant of authenticate: the TOO_BIG check of AuthToken::fromString
\* is missing and an oversized payload is taken as it is.
authenticateNoSizeCheck(emptyFields, r) ==
  IF emptyFields THEN Err(400)
  ELSE IF r = NoResponse THEN Err(NoResponse)
  ELSE Ok(r.body)

\* Api::authenticate: empty fields give 400 without a request, no response
\* gives an empty error, and otherwise the payload is parsed as a token
\* whatever the status code of the response.
authenticate(emptyFields, r) ==
  IF emptyFields THEN Err(400)
  ELSE IF r = NoResponse THEN Err(NoResponse)
  ELSE IF r.body = TooBig THEN Err(500)
  ELSE Ok(AsToken(r.body))

\* Api::registerPlant: the payload is parsed only on a 200 response.
registerPlant(r) ==
  IF r = NoResponse THEN Err(NoResponse)
  ELSE IF r.code # 200 THEN Err(r.code)
  ELSE IF r.body \notin Plants THEN Err(500)
  ELSE Ok(r.body)

\* Api::registerEvent: the status code, or NoResponse.
registerEvent(r) == IF r = NoResponse THEN NoResponse ELSE r.code

(***************************************************************************)
(* The backend.  It refuses a token it does not accept with 403, a plant  *)
(* id it does not know with 404, and answers any request with a 500 page   *)
(* or not at all when it or the network misbehaves.                        *)
(***************************************************************************)
Transient == {Response(500, ErrorBody), Response(500, TooBig), NoResponse}

LoginResponses(accountValid) ==
  Transient \cup
    IF accountValid THEN {Response(200, t) : t \in Tokens}
                    ELSE {Response(403, ErrorBody)}

PlantResponses(tok) ==
  Transient \cup
    IF tok \in validTokens
      THEN {Response(200, p) : p \in Plants} \cup {Response(200, TooBig)}
      ELSE {Response(403, ErrorBody)}

EventResponses(tok, pl) ==
  Transient \cup
    IF tok \notin validTokens THEN {Response(403, ErrorBody)}
    ELSE IF pl \notin validPlants THEN {Response(404, ErrorBody)}
    ELSE {Response(200, ErrorBody)}

\* What the backend remembers after answering r: an issued value is valid.
Issued(set, r, values) ==
  IF r # NoResponse /\ r.code = 200 /\ r.body \in values
    THEN set \cup {r.body} ELSE set

-----------------------------------------------------------------------------
(***************************************************************************)
(* The interrupt service routine and the WiFi SDK.                        *)
(***************************************************************************)

\* The factory-reset button interrupt writes the slot at any moment, also
\* between the read and the clear of handleInterrupt.
FactoryResetInterrupt ==
  /\ faults < MaxFaults
  /\ interruptEvent' = "FACTORY_RESET"
  /\ faults' = faults + 1
  /\ UNCHANGED <<flashWifi, flashToken, flashPlant, station, connected, lpc,
                 event, now, nextTime, isServerOpen, nextTryFlash,
                 validTokens, validPlants, ticked, sinceReport>>

\* The access point goes away.  SDK events run only while loop() yields.
ConnectionLost ==
  /\ lpc = "idle"
  /\ connected
  /\ faults < MaxFaults
  /\ connected' = FALSE
  /\ faults' = faults + 1
  /\ UNCHANGED <<flashWifi, flashToken, flashPlant, station, interruptEvent,
                 lpc, event, now, nextTime, isServerOpen, nextTryFlash,
                 validTokens, validPlants, ticked, sinceReport>>

\* The SDK reconnects by itself to its station configuration and the
\* connection callback posts ON_CONNECTION.
AutoReconnect ==
  /\ lpc = "idle"
  /\ ~connected
  /\ station \in GoodConfigs
  /\ connected' = TRUE
  /\ interruptEvent' = "ON_CONNECTION"
  /\ UNCHANGED <<flashWifi, flashToken, flashPlant, station, lpc, event, now,
                 nextTime, isServerOpen, nextTryFlash, validTokens,
                 validPlants, faults, ticked, sinceReport>>

\* The account deletes the device's token or its plant on the backend.
Revoke ==
  /\ faults < MaxFaults
  /\ \/ \E t \in validTokens : validTokens' = validTokens \ {t}
                               /\ UNCHANGED validPlants
     \/ \E p \in validPlants : validPlants' = validPlants \ {p}
                               /\ UNCHANGED validTokens
  /\ faults' = faults + 1
  /\ UNCHANGED <<flashWifi, flashToken, flashPlant, station, connected,
                 interruptEvent, lpc, event, now, nextTime, isServerOpen,
                 nextTryFlash, ticked, sinceReport>>

\* millis() advances, by at most MaxStep ms between two loop() passes: a
\* pass that only waits takes far less than a millisecond, so MaxStep = 1
\* is the waiting loop that reads every value of millis(), and a larger
\* MaxStep covers passes that block in a network call.
Tick ==
  /\ lpc = "idle"
  /\ ~ticked
  /\ ticked' = TRUE
  /\ \E d \in 1 .. MaxStep :
       /\ now' = Wrap(now + d)
       /\ sinceReport' = IF sinceReport + d > Interval THEN Interval
                                                       ELSE sinceReport + d
  /\ UNCHANGED <<flashWifi, flashToken, flashPlant, station, connected,
                 interruptEvent, lpc, event, nextTime, isServerOpen,
                 nextTryFlash, validTokens, validPlants, faults>>

Environment == FactoryResetInterrupt \/ ConnectionLost \/ AutoReconnect
                 \/ Revoke \/ Tick
-----------------------------------------------------------------------------
(***************************************************************************)
(* EventLoop::handleInterrupt (main.cpp:76-118).                          *)
(***************************************************************************)

\* The read of main.cpp:77.
ReadInterrupt ==
  /\ lpc = "idle"
  /\ event' = interruptEvent
  /\ lpc' = "read"
  /\ ticked' = FALSE
  /\ UNCHANGED <<flashWifi, flashToken, flashPlant, station, connected,
                 interruptEvent, now, nextTime, isServerOpen, nextTryFlash,
                 validTokens, validPlants, faults, sinceReport>>

\* ON_CONNECTION (main.cpp:104-111): the station configuration is written
\* only when a configuration is stored and it is not the case that both
\* strcmp calls are non-zero, i.e. when ssid or psk equals the stored one.
StoreOnConnection(stored, st) ==
  IF stored = NoWifi THEN stored
  ELSE IF stored.ssid # st.ssid /\ stored.psk # st.psk THEN stored
  ELSE st

\* The clear of main.cpp:78 and the switch on the value read.
handleInterrupt ==
  /\ lpc = "read"
  /\ interruptEvent' = "NONE"
  /\ lpc' = "tick"
  /\ IF event = "FACTORY_RESET" /\ FactoryResetEnabled
       THEN /\ flashWifi' = NoWifi
            /\ flashToken' = NoToken
            /\ flashPlant' = NoPlant
            /\ connected' = FALSE
       ELSE /\ flashWifi' = IF event = "ON_CONNECTION"
                              THEN StoreOnConnection(flashWifi, station)
                              ELSE flashWifi
            /\ UNCHANGED <<flashToken, flashPlant, connected>>
  /\ UNCHANGED <<station, event, now, nextTime, isServerOpen, nextTryFlash,
                 validTokens, validPlants, faults, ticked, sinceReport>>

-----------------------------------------------------------------------------
(***************************************************************************)
(* The branches of EventLoop::loop (main.cpp:44-63), in their priority    *)
(* order.  The close of main.cpp:48-50 is part of the branches in which    *)
(* its condition holds: measuring and waiting.                             *)
(***************************************************************************)

\* Whether CredentialsServer::serve authenticates the submitted account:
\* only when the loop passed no token (spec.md 4.3 step 5).
ServeAuthenticates(tok) == tok = NoToken

\* serve, first case: not connected, a stored configuration, and its
\* cooldown elapsed.  The server tries it and returns no token.
StoredWifiEligible ==
  /\ ~connected
  /\ flashWifi # NoWifi
  /\ nextTryFlash <= now

ServeStoredWifi(ok) ==
  /\ StoredWifiEligible
  /\ ok => flashWifi \in GoodConfigs
  /\ station' = flashWifi
  /\ connected' = ok
  /\ interruptEvent' = IF ok THEN "ON_CONNECTION" ELSE interruptEvent
  /\ nextTryFlash' = Wrap(now + FlashCooldown)
  /\ UNCHANGED <<flashWifi, flashToken, validTokens>>

\* serve, otherwise: the captive portal handles its clients.  No form, or
\* a form with an empty field, changes nothing.
ServeNoForm ==
  /\ ~StoredWifiEligible
  /\ UNCHANGED <<flashWifi, flashToken, station, connected, interruptEvent,
                 nextTryFlash, validTokens>>

\* A complete form: connect to cfg; on failure serve returns
\* INVALID_WIFI_CONFIG and handleCredentials removes the stored
\* configuration (main.cpp:124-125); on success the server stores cfg,
\* authenticates if it has to, and handleCredentials stores the token
\* returned (main.cpp:130-131).
ServeForm(cfg, accountValid, ok, r) ==
  /\ ~StoredWifiEligible
  /\ ok => cfg \in GoodConfigs
  /\ r \in LoginResponses(accountValid)
  /\ station' = cfg
  /\ connected' = ok
  /\ UNCHANGED nextTryFlash
  /\ IF ~ok
       THEN /\ flashWifi' = NoWifi
            /\ UNCHANGED <<flashToken, interruptEvent, validTokens>>
       ELSE /\ flashWifi' = cfg
            /\ interruptEvent' = "ON_CONNECTION"
            /\ IF ServeAuthenticates(flashToken)
                 THEN LET a == authenticate(FALSE, r) IN
                      /\ flashToken' = IF a.ok THEN a.value ELSE flashToken
                      /\ validTokens' = Issued(validTokens, r, Tokens)
                 ELSE UNCHANGED <<flashToken, validTokens>>

\* EventLoop::handleCredentials (main.cpp:52-53, 120-134).
HandleCredentials(serveStep) ==
  /\ lpc = "tick"
  /\ ~connected \/ flashToken = NoToken
  /\ serveStep
  /\ isServerOpen' = TRUE
  /\ lpc' = "idle"
  /\ UNCHANGED <<flashPlant, event, now, nextTime, validPlants, faults,
                 ticked, sinceReport>>

\* Fault variant of PlantForbidden: any HTTP error is taken as a refusal.
PlantForbiddenAnyError(code) == code # NoResponse

\* The status of registerPlant on which handlePlant removes the token.
PlantForbidden(code) == code = 403

\* EventLoop::handlePlant (main.cpp:54-55, 136-148).
HandlePlant(r) ==
  /\ lpc = "tick"
  /\ connected
  /\ flashToken # NoToken
  /\ flashPlant = NoPlant
  /\ r \in PlantResponses(flashToken)
  /\ LET res == registerPlant(r) IN
       /\ flashPlant' = IF res.ok THEN res.value ELSE flashPlant
       /\ flashToken' = IF ~res.ok /\ PlantForbidden(res.code)
                          THEN NoToken ELSE flashToken
  /\ validPlants' = Issued(validPlants, r, Plants)
  /\ lpc' = "idle"
  /\ UNCHANGED <<flashWifi, station, connected, interruptEvent, event, now,
                 nextTime, isServerOpen, nextTryFlash, validTokens, faults,
                 ticked, sinceReport>>

\* Fault variant of EventForbidden: a 403 on /event is only logged.
EventForbiddenIgnored(s) == FALSE

\* Fault variant of EventForbidden: a 404 is also taken as a refused token.
EventForbiddenAlsoNotFound(s) == s \in {403, 404}

\* The statuses of registerEvent on which handleMeasurements removes the
\* token and the plant id.
EventForbidden(s) == s = 403
EventNotFound(s) == s = 404

\* Both stored and connected: loop() closes the server (main.cpp:48-50).
Provisioned ==
  /\ connected
  /\ flashToken # NoToken
  /\ flashPlant # NoPlant

\* EventLoop::handleMeasurements (main.cpp:56-59, 150-172).
HandleMeasurements(r) ==
  /\ lpc = "tick"
  /\ Provisioned
  /\ nextTime <= now
  /\ r \in EventResponses(flashToken, flashPlant)
  /\ nextTime' = Wrap(now + Interval)
  /\ isServerOpen' = FALSE
  /\ LET s == registerEvent(r) IN
       /\ flashToken' = IF EventForbidden(s) THEN NoToken ELSE flashToken
       /\ flashPlant' = IF EventNotFound(s) THEN NoPlant ELSE flashPlant
  /\ sinceReport' = 0
  /\ lpc' = "idle"
  /\ UNCHANGED <<flashWifi, station, connected, interruptEvent, event, now,
                 nextTryFlash, validTokens, validPlants, faults, ticked>>

\* The last branch (main.cpp:60-63): only a log line.
Wait ==
  /\ lpc = "tick"
  /\ Provisioned
  /\ ~(nextTime <= now)
  /\ isServerOpen' = FALSE
  /\ lpc' = "idle"
  /\ UNCHANGED <<flashWifi, flashToken, flashPlant, station, connected,
                 interruptEvent, event, now, nextTime, nextTryFlash,
                 validTokens, validPlants, faults, ticked, sinceReport>>

ServeStep ==
  \/ \E ok \in BOOLEAN : ServeStoredWifi(ok)
  \/ ServeNoForm
  \/ \E cfg \in Configs, acc \in BOOLEAN, ok \in BOOLEAN,
        r \in LoginResponses(TRUE) \cup LoginResponses(FALSE) :
       ServeForm(cfg, acc, ok, r)

PlantResponseSet == Transient \cup {Response(403, ErrorBody)}
                      \cup {Response(200, b) : b \in Plants \cup {TooBig}}
EventResponseSet == Transient \cup {Response(c, ErrorBody) : c \in {200, 403, 404}}

LoopStep ==
  \/ ReadInterrupt
  \/ handleInterrupt
  \/ HandleCredentials(ServeStep)
  \/ \E r \in PlantResponseSet : HandlePlant(r)
  \/ \E r \in EventResponseSet : HandleMeasurements(r)
  \/ Wait

Next == LoopStep \/ Environment

(***************************************************************************)
(* Fairness.  loop() is called again after every pass: weak fairness.     *)
(* millis() always advances; Tick is enabled only between two passes, so   *)
(* it is strongly fair.  The remaining conditions are about the world,     *)
(* not the code: a person eventually submits a working network and         *)
(* account, a stored network in range eventually accepts the connection,   *)
(* and the backend eventually gives its real answer to a request it is     *)
(* asked again and again.                                                  *)
(***************************************************************************)
PortalSucceeds ==
  \E cfg \in GoodConfigs, t \in Tokens :
    HandleCredentials(ServeForm(cfg, TRUE, TRUE, Response(200, t)))
StoredWifiConnects == HandleCredentials(ServeStoredWifi(TRUE))
PlantAnswered ==
  \E r \in {Response(403, ErrorBody)} \cup {Response(200, p) : p \in Plants} :
    HandlePlant(r)
EventAnswered ==
  \E c \in {200, 403, 404} : HandleMeasurements(Response(c, ErrorBody))

Fairness ==
  /\ WF_vars(LoopStep)
  /\ SF_vars(Tick)
  /\ SF_vars(PortalSucceeds)
  /\ SF_vars(StoredWifiConnects)
  /\ SF_vars(PlantAnswered)
  /\ SF_vars(EventAnswered)

Spec == Init /\ [][Next]_vars /\ Fairness
-----------------------------------------------------------------------------
(***************************************************************************)
(* Properties.                                                            *)
(***************************************************************************)

\* The factory-reset branch of handleInterrupt runs in this step.
FactoryResetHandled ==
  /\ lpc = "read"
  /\ event = "FACTORY_RESET"
  /\ FactoryResetEnabled

\* A measurement report is sent in this step.
Measuring == \E r \in EventResponseSet : HandleMeasurements(r)

\* The device reports and is accepted: connected, and the backend accepts
\* both the stored token and the stored plant id.
Reporting ==
  /\ connected
  /\ flashToken \in validTokens
  /\ flashPlant \in validPlants

\* handlePlant and handleMeasurements remove the stored token, and
\* handleMeasurements the stored plant id, only when the backend no longer
\* accepts it; otherwise only the factory reset of handleInterrupt does.
\* A transient error (500, no response, an oversized body) never costs the
\* device its credentials.
KeepAcceptedCredentials ==
  [][/\ (flashToken # NoToken /\ flashToken' = NoToken)
          => (flashToken \notin validTokens \/ FactoryResetHandled)
     /\ (flashPlant # NoPlant /\ flashPlant' = NoPlant)
          => (flashPlant \notin validPlants \/ FactoryResetHandled)]_vars

\* Self-healing: whatever faults happen (revoked token or plant, lost
\* access point, factory reset, transient errors), once they stop the loop
\* gets the device back to reporting with credentials the backend accepts,
\* and it stays there.
SelfHealing == <>[]Reporting

\* The clear of handleInterrupt (main.cpp:78) discards only the event read
\* at main.cpp:77: an event posted between the two statements is not lost
\* (spec.md 9: the read-clear must be indivisible).
InterruptNotLost ==
  [][(lpc = "read" /\ lpc' = "tick") => interruptEvent = event]_vars

\* After handleInterrupt handles a connection notification, Flash holds the
\* network the device is connected to (spec.md 3: WiFi credentials are
\* persisted once a connection succeeds).
ConnectionPersisted ==
  [][(lpc = "read" /\ lpc' = "tick" /\ event = "ON_CONNECTION" /\ connected)
       => flashWifi' = station]_vars

\* Every token in Flash is one the backend issued (spec.md 3: an AuthToken
\* is produced only by a successful authentication).
TokenIssued == flashToken \in Tokens \cup {NoToken}

\* The credential lifecycle of spec.md 3 and 4.4 seen through Flash and
\* the backend: the stored token and plant id, what the backend accepts.
Lifecycle == INSTANCE Lifecycle WITH wifi <- flashWifi,
               token <- flashToken, plant <- flashPlant,
               accepted <- validTokens, known <- validPlants,
               TokenVals <- TokenValues

\* The loop implements the lifecycle: handleCredentials stores a token only
\* into an empty slot, handlePlant stores a plant id the backend issued and
\* only under a token it accepts, handlePlant and handleMeasurements remove
\* the token only on a refusal and the plant id only when it is unknown,
\* each keeping the other, and only the factory reset removes both.
ImplementsLifecycle == Lifecycle!Spec

\* Flash is always in one of the three stages the loop branches on: no
\* token, a token without a plant id, or both (spec.md 3).  A plant id is
\* never stored without a token.
CredentialStage == flashToken = NoToken => flashPlant = NoPlant

\* Two measurement reports are at least Interval ms apart (spec.md 4.4: one
\* measurement attempt per interval).
ReportSpacing == [][Measuring => sinceReport = Interval]_vars
=============================================================================
