--------------------------- MODULE EventLoop_proofs ---------------------------
(***************************************************************************)
(* Proofs about EventLoop for every value of its constants.               *)
(***************************************************************************)
EXTENDS EventLoop, TLAPS

\* The modulus of unsigned long arithmetic is a positive natural.
LEMMA ModulusPositive == Modulus \in Nat \ {0}
BY ConstAssumption

\* A wrapped sum of naturals is a value of millis().
LEMMA WrapInTime ==
  ASSUME NEW x \in Nat
  PROVE  Wrap(x) \in Time
BY ModulusPositive DEF Wrap, Time

\* 0 is a value of millis().
LEMMA ZeroInTime == 0 \in Time
BY ModulusPositive DEF Time

\* authenticate returns, when ok, a token value.
LEMMA AuthenticateType ==
  ASSUME NEW e, NEW r
  PROVE  authenticate(e, r).ok => authenticate(e, r).value \in TokenValues
BY DEF authenticate, Ok, Err, AsToken, TokenValues

\* registerPlant returns, when ok, a plant id.
LEMMA RegisterPlantType ==
  ASSUME NEW r
  PROVE  registerPlant(r).ok => registerPlant(r).value \in Plants
BY DEF registerPlant, Ok, Err

\* What the backend remembers stays within the values it can issue.
LEMMA IssuedType ==
  ASSUME NEW S, NEW V, NEW set \in SUBSET V, NEW r
  PROVE  Issued(set, r, V) \in SUBSET V
BY DEF Issued

\* The configuration written on a connection notification is a configuration.
LEMMA StoreOnConnectionType ==
  ASSUME NEW stored \in Configs \cup {NoWifi}, NEW st \in Configs \cup {NoWifi}
  PROVE  StoreOnConnection(stored, st) \in Configs \cup {NoWifi}
BY DEF StoreOnConnection

-----------------------------------------------------------------------------
(* TypeOK is inductive.                                                   *)

\* Every step of the loop, the interrupt routine, the radio and the backend
\* keeps every variable within its type: in particular the wrapped
\* additions of millis() (Tick, handleMeasurements, the server's cooldown)
\* stay values of an unsigned long, and the token stored by
\* handleCredentials is one authenticate can return.
THEOREM TypeCorrect == Spec => []TypeOK
<1>1. Init => TypeOK
  <2> SUFFICES ASSUME Init PROVE TypeOK
    OBVIOUS
  <2>1. faults \in 0 .. MaxFaults /\ sinceReport \in 0 .. Interval
    BY ConstAssumption DEF Init
  <2> QED BY <2>1, ZeroInTime DEF Init, TypeOK, Events
<1>2. TypeOK /\ [Next]_vars => TypeOK'
  <2> SUFFICES ASSUME TypeOK, [Next]_vars PROVE TypeOK'
    OBVIOUS
  <2>1. CASE FactoryResetInterrupt
    BY <2>1, ConstAssumption DEF FactoryResetInterrupt, TypeOK, Events
  <2>2. CASE ConnectionLost
    <3>1. faults' \in 0 .. MaxFaults
      BY <2>2, ConstAssumption DEF ConnectionLost, TypeOK
    <3> QED BY <2>2, <3>1 DEF ConnectionLost, TypeOK
  <2>3. CASE AutoReconnect
    BY <2>3 DEF AutoReconnect, TypeOK, Events
  <2>4. CASE Revoke
    BY <2>4, ConstAssumption DEF Revoke, TypeOK
  <2>5. CASE Tick
    <3>1. PICK d \in 1 .. MaxStep : now' = Wrap(now + d)
                  /\ sinceReport' = IF sinceReport + d > Interval THEN Interval
                                                         ELSE sinceReport + d
      BY <2>5 DEF Tick
    <3>2. now' \in Time
      <4>1. now + d \in Nat
        BY <3>1, ModulusPositive DEF TypeOK, Time
      <4> QED BY <3>1, <4>1, WrapInTime
    <3>3. sinceReport' \in 0 .. Interval
      BY <3>1, ConstAssumption DEF TypeOK
    <3> QED BY <2>5, <3>2, <3>3 DEF Tick, TypeOK
  <2>6. CASE ReadInterrupt
    BY <2>6 DEF ReadInterrupt, TypeOK
  <2>7. CASE handleInterrupt
    BY <2>7, StoreOnConnectionType DEF handleInterrupt, TypeOK, Events
  <2>8. CASE HandleCredentials(ServeStep)
    <3>1. CASE \E ok \in BOOLEAN : ServeStoredWifi(ok)
      <4>1. Wrap(now + FlashCooldown) \in Time
        <5>1. now + FlashCooldown \in Nat
          BY ConstAssumption, ModulusPositive DEF TypeOK, Time
        <5> QED BY <5>1, WrapInTime
      <4> QED BY <2>8, <3>1, <4>1
              DEF HandleCredentials, ServeStoredWifi, StoredWifiEligible,
                  TypeOK, Events
    <3>2. CASE ServeNoForm
      BY <2>8, <3>2 DEF HandleCredentials, ServeNoForm, TypeOK
    <3>3. CASE \E cfg \in Configs, acc \in BOOLEAN, ok \in BOOLEAN,
                  r \in LoginResponses(TRUE) \cup LoginResponses(FALSE) :
                 ServeForm(cfg, acc, ok, r)
      <4>1. PICK cfg \in Configs, acc \in BOOLEAN, ok \in BOOLEAN,
                 r \in LoginResponses(TRUE) \cup LoginResponses(FALSE) :
                 ServeForm(cfg, acc, ok, r)
        BY <3>3
      <4>2. flashToken' \in TokenValues \cup {NoToken}
        BY <4>1, AuthenticateType DEF ServeForm, TypeOK
      <4>3. validTokens' \subseteq Tokens
        <5>1. CASE ~ok
          BY <4>1, <5>1 DEF ServeForm, TypeOK
        <5>2. CASE ok /\ ServeAuthenticates(flashToken)
          <6>1. validTokens' = Issued(validTokens, r, Tokens)
            BY <4>1, <5>2 DEF ServeForm
          <6> QED BY <6>1, IssuedType DEF TypeOK
        <5>3. CASE ok /\ ~ServeAuthenticates(flashToken)
          BY <4>1, <5>3 DEF ServeForm, TypeOK
        <5> QED BY <5>1, <5>2, <5>3
      <4> QED BY <2>8, <4>1, <4>2, <4>3
              DEF HandleCredentials, ServeForm, TypeOK, Events
    <3> QED BY <2>8, <3>1, <3>2, <3>3 DEF HandleCredentials, ServeStep
  <2>9. CASE \E r \in PlantResponseSet : HandlePlant(r)
    <3>1. PICK r \in PlantResponseSet : HandlePlant(r)
      BY <2>9
    <3>2. flashPlant' \in Plants \cup {NoPlant}
      BY <3>1, RegisterPlantType DEF HandlePlant, TypeOK
    <3>3. validPlants' \subseteq Plants
      BY <3>1, IssuedType DEF HandlePlant, TypeOK
    <3> QED BY <3>1, <3>2, <3>3 DEF HandlePlant, TypeOK
  <2>10. CASE \E r \in EventResponseSet : HandleMeasurements(r)
    <3>1. PICK r \in EventResponseSet : HandleMeasurements(r)
      BY <2>10
    <3>2. Wrap(now + Interval) \in Time
      <4>1. now + Interval \in Nat
        BY ConstAssumption, ModulusPositive DEF TypeOK, Time
      <4> QED BY <4>1, WrapInTime
    <3>3. sinceReport' \in 0 .. Interval
      BY <3>1, ConstAssumption DEF HandleMeasurements
    <3> QED BY <3>1, <3>2, <3>3 DEF HandleMeasurements, TypeOK
  <2>11. CASE Wait
    BY <2>11 DEF Wait, TypeOK
  <2>12. CASE UNCHANGED vars
    BY <2>12 DEF vars, TypeOK
  <2> QED
    BY <2>1, <2>2, <2>3, <2>4, <2>5, <2>6, <2>7, <2>8, <2>9, <2>10, <2>11,
       <2>12 DEF Next, LoopStep, Environment
<1> QED BY <1>1, <1>2, PTL DEF Spec
-----------------------------------------------------------------------------
(* The loop implements the credential lifecycle.                          *)

\* A successful registerPlant answer comes from the branch of the backend
\* that accepts the token, and carries a plant id it now knows.
LEMMA PlantAccepted ==
  ASSUME TypeOK, NEW r \in PlantResponses(flashToken), registerPlant(r).ok
  PROVE  /\ flashToken \in validTokens
         /\ registerPlant(r).value \in Plants \cap Issued(validPlants, r, Plants)
BY DEF PlantResponses, Transient, Response, registerPlant, Ok, Err, Issued

\* A registerPlant error of 403 comes from the branch that refuses the token.
LEMMA PlantRefused ==
  ASSUME NEW r \in PlantResponses(flashToken), ~registerPlant(r).ok,
         PlantForbidden(registerPlant(r).code)
  PROVE  flashToken \notin validTokens
BY ConstAssumption
   DEF PlantResponses, Transient, Response, registerPlant, Ok, Err, PlantForbidden

\* A registerEvent status of 403 comes from the branch that refuses the token.
LEMMA EventRefused ==
  ASSUME NEW r \in EventResponses(flashToken, flashPlant),
         EventForbidden(registerEvent(r))
  PROVE  flashToken \notin validTokens
BY ConstAssumption DEF EventResponses, Transient, Response, registerEvent, EventForbidden

\* A registerEvent status of 404 comes from the branch that does not know
\* the plant id.
LEMMA EventUnknown ==
  ASSUME NEW r \in EventResponses(flashToken, flashPlant),
         EventNotFound(registerEvent(r))
  PROVE  flashPlant \notin validPlants
BY ConstAssumption DEF EventResponses, Transient, Response, registerEvent, EventNotFound

\* 403 and 404 exclude each other.
LEMMA EventStatusExclusive ==
  ASSUME NEW s, EventForbidden(s)
  PROVE  ~EventNotFound(s)
BY DEF EventForbidden, EventNotFound

\* Every step of the loop, of the interrupt routine, of the radio and of
\* the backend is a step of the lifecycle or leaves the stored WiFi
\* configuration, token, plant id and the backend's view unchanged.
THEOREM Refinement == Spec => ImplementsLifecycle
<1> DEFINE A == Lifecycle!avars
<1>1. Init => Lifecycle!Init
  BY DEF Init, Lifecycle!Init
<1>2. TypeOK /\ TypeOK' /\ [Next]_vars => [Lifecycle!Next]_A
  <2> SUFFICES ASSUME TypeOK, TypeOK', [Next]_vars
               PROVE  [Lifecycle!Next]_A
    OBVIOUS
  <2>1. (validTokens' \subseteq Tokens /\ validPlants' \subseteq Plants)
        /\ flashWifi' \in Configs \cup {NoWifi}
    BY DEF TypeOK
  <2>2. CASE UNCHANGED A
    BY <2>2
  \* A step that keeps the token and the plant id is a step of Rest.
  <2>3. CASE UNCHANGED <<flashToken, flashPlant>>
    BY <2>1, <2>3 DEF Lifecycle!Next, Lifecycle!Rest
  <2>4. CASE handleInterrupt /\ event = "FACTORY_RESET" /\ FactoryResetEnabled
    BY <2>1, <2>4 DEF handleInterrupt, Lifecycle!Next, Lifecycle!FactoryReset
  <2>5. CASE handleInterrupt /\ ~(event = "FACTORY_RESET" /\ FactoryResetEnabled)
    BY <2>3, <2>5 DEF handleInterrupt
  <2>6. CASE HandleCredentials(ServeStep)
    <3>1. UNCHANGED <<flashPlant, validPlants>>
      BY <2>6 DEF HandleCredentials
    <3>2. CASE \E ok \in BOOLEAN : ServeStoredWifi(ok)
      BY <2>2, <3>1, <3>2 DEF ServeStoredWifi, Lifecycle!avars
    <3>3. CASE ServeNoForm
      BY <2>2, <3>1, <3>3 DEF ServeNoForm, Lifecycle!avars
    <3>4. CASE \E cfg \in Configs, acc \in BOOLEAN, ok \in BOOLEAN,
                  r \in LoginResponses(TRUE) \cup LoginResponses(FALSE) :
                 ServeForm(cfg, acc, ok, r)
      <4>1. PICK cfg \in Configs, acc \in BOOLEAN, ok \in BOOLEAN,
                 r \in LoginResponses(TRUE) \cup LoginResponses(FALSE) :
                 ServeForm(cfg, acc, ok, r)
        BY <3>4
      <4>2. CASE ok /\ ServeAuthenticates(flashToken) /\ authenticate(FALSE, r).ok
        <5>1. flashToken = NoToken /\ flashWifi' = cfg
              /\ flashToken' = authenticate(FALSE, r).value
          BY <4>1, <4>2 DEF ServeForm, ServeAuthenticates
        <5>2. flashToken' \in TokenValues
          BY <4>2, <5>1, AuthenticateType
        <5> QED BY <2>1, <3>1, <5>1, <5>2
                DEF Lifecycle!Next, Lifecycle!Obtain
      <4>3. CASE ~(ok /\ ServeAuthenticates(flashToken) /\ authenticate(FALSE, r).ok)
        <5>1. UNCHANGED flashToken
          BY <4>1, <4>3 DEF ServeForm
        <5> QED BY <2>3, <3>1, <5>1
      <4> QED BY <4>2, <4>3
    <3> QED BY <2>6, <3>2, <3>3, <3>4 DEF HandleCredentials, ServeStep
  <2>7. CASE \E r \in PlantResponseSet : HandlePlant(r)
    <3>1. PICK r \in PlantResponseSet : HandlePlant(r)
      BY <2>7
    <3>2. r \in PlantResponses(flashToken) /\ flashPlant = NoPlant
          /\ validPlants' = Issued(validPlants, r, Plants)
          /\ UNCHANGED <<flashWifi, validTokens>>
      BY <3>1 DEF HandlePlant
    <3>3. CASE registerPlant(r).ok
      <4>1. flashPlant' = registerPlant(r).value /\ UNCHANGED flashToken
        BY <3>1, <3>3 DEF HandlePlant
      <4>2. flashToken \in validTokens
            /\ flashPlant' \in Plants \cap validPlants'
        BY <3>2, <3>3, <4>1, PlantAccepted
      <4> QED BY <2>1, <3>2, <4>1, <4>2 DEF Lifecycle!Next, Lifecycle!Register
    <3>4. CASE ~registerPlant(r).ok /\ PlantForbidden(registerPlant(r).code)
      <4>1. flashToken' = NoToken /\ UNCHANGED flashPlant
        BY <3>1, <3>4 DEF HandlePlant
      <4>2. flashToken \notin validTokens /\ flashToken # NoToken
        BY <3>1, <3>2, <3>4, PlantRefused DEF HandlePlant
      <4> QED BY <2>1, <3>2, <4>1, <4>2 DEF Lifecycle!Next, Lifecycle!Refused
    <3>5. CASE ~registerPlant(r).ok /\ ~PlantForbidden(registerPlant(r).code)
      BY <2>3, <3>1, <3>5 DEF HandlePlant
    <3> QED BY <3>3, <3>4, <3>5
  <2>8. CASE \E r \in EventResponseSet : HandleMeasurements(r)
    <3>1. PICK r \in EventResponseSet : HandleMeasurements(r)
      BY <2>8
    <3>2. /\ r \in EventResponses(flashToken, flashPlant)
          /\ Provisioned
          /\ UNCHANGED <<flashWifi, validTokens, validPlants>>
      BY <3>1 DEF HandleMeasurements
    <3>3. CASE EventForbidden(registerEvent(r))
      <4>1. ~EventNotFound(registerEvent(r))
        BY <3>3, EventStatusExclusive
      <4>2. flashToken' = NoToken /\ UNCHANGED flashPlant
        BY <3>1, <3>3, <4>1 DEF HandleMeasurements
      <4>3. flashToken \notin validTokens /\ flashToken # NoToken
        BY <3>2, <3>3, EventRefused DEF Provisioned
      <4> QED BY <2>1, <3>2, <4>2, <4>3 DEF Lifecycle!Next, Lifecycle!Refused
    <3>4. CASE ~EventForbidden(registerEvent(r)) /\ EventNotFound(registerEvent(r))
      <4>1. flashPlant' = NoPlant /\ UNCHANGED flashToken
        BY <3>1, <3>4 DEF HandleMeasurements
      <4>2. flashPlant \notin validPlants /\ flashPlant # NoPlant
        BY <3>2, <3>4, EventUnknown DEF Provisioned
      <4> QED BY <2>1, <3>2, <4>1, <4>2 DEF Lifecycle!Next, Lifecycle!Unknown
    <3>5. CASE ~EventForbidden(registerEvent(r)) /\ ~EventNotFound(registerEvent(r))
      BY <2>3, <3>1, <3>5 DEF HandleMeasurements
    <3> QED BY <3>3, <3>4, <3>5
  <2>9. CASE Environment \/ ReadInterrupt \/ Wait
    BY <2>3, <2>9 DEF Environment, FactoryResetInterrupt, ConnectionLost,
                      AutoReconnect, Revoke, Tick, ReadInterrupt, Wait
  <2>10. CASE UNCHANGED vars
    BY <2>2, <2>10 DEF vars, Lifecycle!avars
  <2> QED BY <2>4, <2>5, <2>6, <2>7, <2>8, <2>9, <2>10 DEF Next, LoopStep
<1> QED BY <1>1, <1>2, TypeCorrect, PTL
        DEF Spec, ImplementsLifecycle, Lifecycle!Spec
-----------------------------------------------------------------------------
(* Transient errors keep the credentials.                                 *)

\* One step removes a stored token only if the backend refuses it, and a
\* stored plant id only if the backend does not know it, unless the step
\* is the factory-reset branch of handleInterrupt.
KeepStep ==
  /\ (flashToken # NoToken /\ flashToken' = NoToken)
       => (flashToken \notin validTokens \/ FactoryResetHandled)
  /\ (flashPlant # NoPlant /\ flashPlant' = NoPlant)
       => (flashPlant \notin validPlants \/ FactoryResetHandled)

\* handlePlant removes the token only on a 403, handleMeasurements removes
\* the token only on a 403 and the plant id only on a 404, and the backend
\* answers those only for a token it refuses or a plant id it does not
\* know; handleCredentials stores a token only into an empty slot.  So a
\* 500, an oversized body or no response never costs the device an
\* accepted credential, for every value of the constants.
THEOREM AcceptedCredentialsKept == Spec => KeepAcceptedCredentials
<1>1. [Next]_vars => KeepStep
  <2> SUFFICES ASSUME [Next]_vars PROVE KeepStep
    OBVIOUS
  <2>1. CASE UNCHANGED <<flashToken, flashPlant>>
    BY <2>1 DEF KeepStep
  <2>2. CASE handleInterrupt /\ event = "FACTORY_RESET" /\ FactoryResetEnabled
    BY <2>2 DEF handleInterrupt, KeepStep, FactoryResetHandled
  <2>3. CASE handleInterrupt /\ ~(event = "FACTORY_RESET" /\ FactoryResetEnabled)
    BY <2>1, <2>3 DEF handleInterrupt
  <2>4. CASE HandleCredentials(ServeStep)
    <3>1. UNCHANGED flashPlant
      BY <2>4 DEF HandleCredentials
    <3>2. CASE \E ok \in BOOLEAN : ServeStoredWifi(ok)
      BY <2>1, <3>1, <3>2 DEF ServeStoredWifi
    <3>3. CASE ServeNoForm
      BY <2>1, <3>1, <3>3 DEF ServeNoForm
    <3>4. CASE \E cfg \in Configs, acc \in BOOLEAN, ok \in BOOLEAN,
                  r \in LoginResponses(TRUE) \cup LoginResponses(FALSE) :
                 ServeForm(cfg, acc, ok, r)
      <4>1. flashToken = NoToken \/ UNCHANGED flashToken
        BY <3>4 DEF ServeForm, ServeAuthenticates
      <4> QED BY <3>1, <4>1 DEF KeepStep
    <3> QED BY <2>4, <3>2, <3>3, <3>4 DEF HandleCredentials, ServeStep
  <2>5. CASE \E r \in PlantResponseSet : HandlePlant(r)
    <3>1. PICK r \in PlantResponseSet : HandlePlant(r)
      BY <2>5
    <3>2. r \in PlantResponses(flashToken) /\ flashPlant = NoPlant
      BY <3>1 DEF HandlePlant
    <3>3. CASE ~registerPlant(r).ok /\ PlantForbidden(registerPlant(r).code)
      <4>1. flashToken \notin validTokens
        BY <3>2, <3>3, PlantRefused
      <4> QED BY <3>2, <4>1 DEF KeepStep
    <3>4. CASE ~(~registerPlant(r).ok /\ PlantForbidden(registerPlant(r).code))
      <4>1. UNCHANGED flashToken
        BY <3>1, <3>4 DEF HandlePlant
      <4> QED BY <3>2, <4>1 DEF KeepStep
    <3> QED BY <3>3, <3>4
  <2>6. CASE \E r \in EventResponseSet : HandleMeasurements(r)
    <3>1. PICK r \in EventResponseSet : HandleMeasurements(r)
      BY <2>6
    <3>2. r \in EventResponses(flashToken, flashPlant)
      BY <3>1 DEF HandleMeasurements
    <3>3. flashToken' = NoToken => flashToken = NoToken \/ flashToken \notin validTokens
      <4>1. CASE EventForbidden(registerEvent(r))
        BY <3>2, <4>1, EventRefused
      <4>2. CASE ~EventForbidden(registerEvent(r))
        BY <3>1, <4>2 DEF HandleMeasurements
      <4> QED BY <4>1, <4>2
    <3>4. flashPlant' = NoPlant => flashPlant = NoPlant \/ flashPlant \notin validPlants
      <4>1. CASE EventNotFound(registerEvent(r))
        BY <3>2, <4>1, EventUnknown
      <4>2. CASE ~EventNotFound(registerEvent(r))
        BY <3>1, <4>2 DEF HandleMeasurements
      <4> QED BY <4>1, <4>2
    <3> QED BY <3>3, <3>4 DEF KeepStep
  <2>7. CASE Environment \/ ReadInterrupt \/ Wait
    BY <2>1, <2>7 DEF Environment, FactoryResetInterrupt, ConnectionLost,
                      AutoReconnect, Revoke, Tick, ReadInterrupt, Wait
  <2>8. CASE UNCHANGED vars
    BY <2>1, <2>8 DEF vars
  <2> QED BY <2>2, <2>3, <2>4, <2>5, <2>6, <2>7, <2>8 DEF Next, LoopStep
<1> QED BY <1>1, PTL DEF Spec, KeepAcceptedCredentials, KeepStep
=============================================================================
