# Verification of the Internet of Plants embedded firmware

TLA+ models of the firmware under `src/`, TLC runs on small instances and
TLAPS proofs of the main invariants. The source mixes two generations of the
firmware, and the models follow each one where it is complete:

- the nodemcu event loop `src/nodemcu/src/main.cpp`, with its client
  `src/nodemcu/src/api.cpp`, which returns `Option<HttpCode>`;
- the newer client `src/src/api.cpp`, which returns `ApiStatus`;
- the panic controller `src/src/panic.cpp`.

The two generations do not fully agree:

- `include/server.hpp` declares `serve(storedWifi, api) -> Option<AuthToken>`,
  while `main.cpp` calls `serve(wifi, token)` and expects a
  `Result<Option<AuthToken>, ServeError>`;
- `nodemcu/include/utils.hpp` has `enum InterruptEvent { NONE, WPS }`, while
  `main.cpp` uses `FACTORY_RESET` and `ON_CONNECTION`.

Each model follows the calling code, `main.cpp`.

## 1. Inventory

| Part | Source | State | Operations | Model |
|---|---|---|---|---|
| Event loop | nodemcu/src/main.cpp | flash (WiFi config, token, plant id); `nextTime` | `loop`, `handleInterrupt`, `handleCredentials`, `handlePlant`, `handleMeasurements` | `EventLoop` |
| Interrupt slot | nodemcu/include/utils.hpp:88 | `volatile interruptEvent` | written by the reset interrupt and the connection callback; read and then cleared by the loop | `EventLoop` |
| Captive portal | include/server.hpp (header only) | `isServerOpen`, `nextTryFlashWifiCredentials` | `serve`, `close` | `EventLoop` (modelled from spec 4.3) |
| nodemcu Api | nodemcu/src/api.cpp | none | `authenticate`, `registerPlant`, `registerEvent` | `EventLoop` operators |
| Api with ApiStatus | src/api.cpp | none | `reportPanic`, `registerEvent`, `authenticate`, `reportError`, `registerPlant`, `upgrade` | `Api` |
| Panic controller | src/panic.cpp | `panicking`, `reportedPanic` | `entry`, `halt`, `upgrade`, `reportPanic` | `Panic` |
| CertStore | src/certificate_storage.cpp, nodemcu/src/certificate_storage.cpp | `_x509`, the heap | `findHashedTA`, `freeHashedTA` (BearSSL callbacks) | `CertStore` |
| Log, measurement, UnsafeRawString | src/core/log.cpp, measurement.cpp, unsafe_raw_string.cpp | — | — | not modelled (section 6) |

How the parts interact:

- The loop runs forever, single-threaded.
- The reset-button interrupt and the WiFi SDK's connection callback post into
  the one-slot mailbox `interruptEvent`.
- Every pass of the loop reads the mailbox, handles the event, reads flash
  and takes one branch:
  - no connection or no token: one tick of the portal;
  - no plant id: register the plant;
  - the interval has elapsed: report a measurement;
  - otherwise: wait.
- The backend answers 403 for a revoked token and 404 for an unknown plant.
  The loop deletes the credential concerned and provisions or registers again
  (self-healing).
- A panic anywhere enters `panic_hook` → `entry` → `halt`, which:
  - reports the panic;
  - tries an upgrade;
  - deep-sleeps.

  On the ESP8266 core `ESP.deepSleep(t)` does not return: the RTC resets the
  chip after `t` µs, and `deepSleep(0)` sleeps until an external reset. So
  `halt` runs one iteration per boot, and a reboot clears RAM (`panicking`,
  `reportedPanic`).

## 2. Modules

- **`EventLoop.tla`**: the loop with the portal, the nodemcu client, flash,
  the radio, the interrupt routine and the backend.
  - One `loop()` pass is three steps:
    1. `ReadInterrupt` (main.cpp:77);
    2. `handleInterrupt` (the clear at :78 and the switch);
    3. one branch action: `HandleCredentials(ServeStep)`, `HandlePlant`,
       `HandleMeasurements` or `Wait`. The close of :48-50 is folded into the
       branches where its condition holds.
  - The read and the clear are separate steps because they are separate
    statements and the interrupt routine can run between them.
  - `millis()` is `now` modulo the constant `Modulus` (2^32 on the device).
  - `nextTime` starts at any value: it is never initialized (main.cpp:22,
    68-73).
  - Environment actions:
    - `FactoryResetInterrupt`, at any moment;
    - `ConnectionLost` and `AutoReconnect`, only between passes (SDK events
      run when the loop yields);
    - `Revoke`: the backend forgets a token or a plant;
    - `Tick`: `millis()` advances.

    Faults share the bound `MaxFaults`.
  - The backend's answer to each request is a nondeterministic choice:
    - the real answer (200, 403 for an invalid token, 404 for an unknown
      plant);
    - or a transient failure (500, an oversized body, no response).
- **`Api.tla`**: the `ApiStatus` classification of `src/api.cpp`, one pure
  operator per endpoint of the observed outcome: does the JSON fit, a
  transport error, the mapped status, the payload. `upgrade` returns `OK` for
  every HTTP code of a completed GET, and `RESTART` after a written image.
- **`Panic.tla`**: `entry` and `halt`, with the deep-sleep semantics above.
  - Phases: `running`, `halt`, `reentry`, `asleep`, `restarting`, `dead`.
  - Between panics, `FirmwareStep` stands for the normal firmware changing
    flash, the radio and the link.
  - The statuses come from `Api`: `reportPanic` over every transport outcome,
    `upgrade` over `UpgradeOutcomes`.
  - The ghost `sinceAttempt` measures ms since the last request of `halt`,
    saturated at the ten-minute backoff of spec 4.5.
- **`Lifecycle.tla`**: the abstract specification of what the loop promises
  about credentials (spec 3, 4.4, 7). Its state is the three flash slots and
  the backend's sets of accepted tokens and known plant ids. Its actions:
  - `Obtain`: a token enters the empty slot, with a WiFi configuration;
  - `Register`: a known plant id enters the empty slot under an accepted token;
  - `Refused`, `Unknown`: a refused token, or an unknown plant id, is
    removed alone;
  - `FactoryReset`: all three slots are emptied;
  - `Rest`: only the WiFi slot and the backend change.

  `EventLoop` instantiates it with the identity mapping from flash
  (`flashWifi`, `flashToken`, `flashPlant`, `validTokens`, `validPlants`),
  and `ImplementsLifecycle == Lifecycle!Spec` is checked and proved.
- **`CertStore.tla`**: the trust-anchor callbacks. `Variant` selects the
  copy of the file.
  - The heap is a function from live `X509List` objects to their sizes,
    plus the share `other` held by the rest of the firmware (`OtherHeap`
    changes it).
  - `findHashedTA` (src): the DER buffer is allocated and filled without a
    check. A null buffer is `crashed`. The list is built while the old one
    is still alive, and the `unique_ptr` assignment then deletes the old one
    or stores null.
  - `findHashedTANodemcu`: `new` overwrites `_x509` without deleting it. A
    failed `new` either aborts or returns null.
  - `freeHashedTA`: deletes whatever `_x509` holds.
  - `Lookup` and `Release` are the BearSSL engine calling the callbacks,
    holding at most `MaxHeld` anchors. `Reboot` is the reset after a crash.
- **`Recovery.tla`**: the abstract recovery protocol the panic controller
  promises. `phase` is up, recovering or stopped; `nested` is a panic inside
  the recovery; `human` is "WiFi config, token or radio missing". `Fail`,
  `NestedFail`, `Resume` (only when neither nested nor human), `Stop` (only
  when nested or human) and `Change` (the firmware changes flash while up).
  `Panic` maps `running` to up, `dead` to stopped and every other `ppc` to
  recovering, `nested` to `ppc = "reentry"` and `human` to `NeedsHuman`, and
  checks `ImplementsRecovery == Recovery!Spec`.
- **`MC_EventLoop.tla`, `MC_Panic.tla`, `MC_CertStore.tla`**: the model
  values and the symmetry set for TLC.
- **`EventLoop_proofs.tla`, `Panic_proofs.tla`, `CertStore_proofs.tla`**: the TLAPS theorems.

## 3. Runs

| Run | cfg | Result | What it shows |
|---|---|---|---|
| eventloop_safety | EventLoop.cfg | pass, about 650k states | `TypeOK`; `KeepAcceptedCredentials` (a transient error never deletes a token or plant id: only 403/404 of a revoked one, or a factory reset) `ImplementsLifecycle` (every step of the loop is a step of `Lifecycle` or leaves its variables unchanged) |
| eventloop_selfhealing | EventLoop_live.cfg | pass, about 155k states | `SelfHealing` = `<>[]Reporting`: after the faults stop, the device reports with accepted credentials forever |
| interrupt_lost | EventLoop_interrupt.cfg | violation | `InterruptNotLost`: a factory reset posted between the read and the clear is wiped |
| connection_not_persisted | EventLoop_connection.cfg | violation | `ConnectionPersisted`: the strcmp test of main.cpp:107 writes flash only if something is stored and one field matches |
| error_body_token | EventLoop_token.cfg | violation | `TokenIssued`: `authenticate` parses a 403/500 body as the token |
| report_flood_wrap | EventLoop_spacing.cfg | violation | `ReportSpacing`: `millis()+interval` wraps and reports are sent on every pass |
| plant_without_token | EventLoop_stage.cfg | violation | `CredentialStage` (no plant id without a token, the stages of spec 3): a 403 on `/event` removes only the token |
| certstore_ownership | CertStore.cfg | pass, 336 states | `NoLeak` (once every anchor is released no `X509List` is left), for both copies (`variant` is chosen at boot) |
| certstore_oom_null_write | CertStore_oom.cfg | violation | `NoNullWrite`: a DER buffer that does not fit is a null pointer passed to `memcpy_P` |
| panic_recovery | Panic.cfg | pass, 836 states | `RecoverableRestarts` (a recoverable panic always gets back to running firmware, or meets a nested panic); `ImplementsRecovery` (the controller refines `Recovery`: it resumes only when no human is needed, and stops for good only on a nested panic or when one is) |
| panic_backoff | Panic_backoff.cfg | violation | `RecoveryBackoff`: a panic that recurs after each wake reports every 1.6 s, because `tenMinutesUs = 10*60*1000` µs is a 0.6 s sleep, followed by the 1 s delay of `entry`. With the constant in microseconds the run passes. The ghost clock restarts when `ESP.restart()` boots a newly written image, whose requests are not retries |
| panic_reentry_sleeps_forever | Panic_reentry.cfg | violation | `ReentryRecovers`: a nested panic ends in `deepSleep(0)`, not in the hard reset of spec 4.5/8 |

Every property of a passing run has a mutant in `PROJECT.json`: a plausible
bug in the mapped definition that TLC catches.

Bounds and why they are enough:

- **EventLoop safety**:
  - two SSIDs, one PSK, one good access point;
  - two tokens (symmetric), one plant;
  - `Modulus = 8`, `Interval = 3`, `FlashCooldown = 2`, `MaxStep = 2`;
  - two faults.

  That is enough for a revocation followed by re-provisioning, a wrap of
  `millis()` within one interval, and an interrupt racing the clear.
- **EventLoop liveness**: `MaxStep = 1` and `MaxFaults = 1`, no symmetry.
- **CertStore**: two certificates of sizes 2 and 3 and a heap of 8 units,
  so that depending on `other` both allocations fit, only the DER buffer
  fits, or neither fits; six list objects and one held anchor. With
  `MaxHeld = 2`, `NoLeak` fails in the nodemcu copy (`new` overwrites
  `_x509`), while the src copy keeps it (proved, section 5). The runs keep one anchor
  at a time, as BearSSL's minimal X.509 engine releases a dynamic anchor
  before it looks up the next. That engine is not under `src/`.
- **Panic**: three panics, enough for two boots that each panic and a nested
  panic.

## 4. Fairness

- **EventLoop**:
  - `WF(LoopStep)`: `loop()` is called again after every pass.
  - `SF(Tick)`: `Tick` is enabled only between passes; `millis()` always
    advances. Using `MaxStep = 1` in the liveness run reflects that a waiting
    pass takes far less than 1 ms, so the loop observes every value of
    `millis()`.
  - Strong fairness on four cooperative outcomes of the world:
    - a person eventually submits a working network and account;
    - a stored network in range accepts a connection;
    - the backend eventually gives its real answer to a repeated request
      (plant, event).

  Without these no liveness can hold, since the backend may fail forever.
- **Panic**: `WF(DeviceStep)`. `halt` runs to its next sleep, since the
  network calls time out, and the RTC timer fires. Panics, firmware steps and
  link changes are not fair.

## 5. Proofs

Checked by `tlapm`, every obligation proved:

- **`EventLoop_proofs`**:
  - `TypeCorrect`: `Spec => []TypeOK` for every value of the constants. The
    proof has one step per action, on the lemmas:
    - `WrapInTime`: `x % Modulus` is in `0..Modulus-1`, from `ConstAssumption`
      (`Modulus \in Nat \ {0}`);
    - `AuthenticateType`, `RegisterPlantType`, `IssuedType`,
      `StoreOnConnectionType`.

    TypeOK is inductive as it stands.
  - `Refinement`: `Spec => ImplementsLifecycle`.
    - Initial states map to `Lifecycle!Init`.
    - Under `TypeOK /\ TypeOK'` every step is a `Lifecycle!Next` step or
      leaves the five mapped variables unchanged. The proof has one case per
      action of `Next`:
      - `handleInterrupt` is either `FactoryReset` or `Rest`;
      - `HandleCredentials` is `Obtain` when the server authenticated and
        `Rest` otherwise;
      - `HandlePlant` is `Register`, `Refused` (403) or `Rest`;
      - `HandleMeasurements` is `Refused` (403), `Unknown` (404) or `Rest`;
      - the environment and `Wait` are `Rest` or stutter.
    - The lemmas `PlantAccepted`, `PlantRefused`, `EventRefused` and
      `EventUnknown` relate the backend's answer to `validTokens` and
      `validPlants`. They need `NoResponse \notin {200, 403, 404}` from
      `ConstAssumption`.
    - `TypeCorrect` supplies the invariant, and PTL combines the two.
  - `AcceptedCredentialsKept`: `Spec => KeepAcceptedCredentials`, with one
    case per action. The lemmas `PlantRefused`, `EventRefused` and
    `EventUnknown` say that a 403 or 404 is only the answer of the backend's
    refusing branch. `handleCredentials` writes the token only when the slot
    is empty; that rests on `ServeAuthenticates`, modelled from the spec
    because the server is not under `src/`. No invariant is needed.
- **`Panic_proofs`**:
  - `TypeCorrect`, `Spec => []TypeOK`. The durations are kept opaque behind
    `DurationsNat`, because Zenon cannot handle numerals of that size.
  - `SleepRecoverableInvariant`: `Spec => []SleepRecoverable`: in
    `asleep` and `restarting` nothing a human must fix is missing. Only
    `HaltRecover` enters these, and only under `~Unrecoverable`; the
    firmware cannot change flash while `ppc` is not `running`.
  - `RecoveryRefinement`: `Spec => ImplementsRecovery`. One case per
    action: `FirmwareStep` is `Change`; `Panic` is `Fail`; `NestedPanic`
    is `NestedFail`; `Reentry` and `HaltGiveUp` are `Stop`; a recovery
    attempt where `Api::upgrade` returns CLIENT_BUFFER_OVERFLOW, which
    `upgrade()` of `panic.cpp:29` turns into a nested panic, is
    `NestedFail`, the others stutter; `Wake` and `Restart` are `Resume`, whose guard
    `~human` is `SleepRecoverable`. That invariant is why the theorem
    needs more than the type invariant.
- **`CertStore_proofs`**: `NoLeakHolds` holds for every certificate set,
  size, heap and `MaxAllocs`, in both copies, under the hypothesis
  `MaxHeld = 1`. It follows from `OwnershipInvariant`,
  `Spec => []Ownership`, where `Ownership` says:
  - either `_x509` is null, nothing is held and the heap holds no list;
  - or the one live list is `_x509` and its anchor is the one held.

  `NoLeak` alone is not inductive: it says nothing while an anchor is
  held. `Ownership` adds which list is live then, and TLC checks it on the
  CertStore instance as well. `LookupFromEmpty` uses
  `FS_Singleton`: with one anchor held, the engine cannot look up another.
  The heap arithmetic stays opaque, because every branch of `findHashedTA`
  keeps `Ownership`.

  `SrcNoLeak` proves `NoLeak` for the src copy for every `MaxHeld`, from
  `SrcOwnershipInvariant`: the heap holds no list when `_x509` is null and
  only `_x509` otherwise, and `_x509` is among the held anchors. The lemma
  `FindSrcOwnership` follows the three outcomes of the `unique_ptr`
  assignment. TLC checks `SrcOwnership` with `MaxHeld = 3`, and finds
  `NoLeak` violated in the nodemcu copy with `MaxHeld = 2`.

Only model-checked, out of the provers' reach:

- liveness (`SelfHealing`, `RecoverableRestarts`), because it needs fairness
  and ENABLED;
- nothing else. The CertStore theorem on both copies is stated for
  `MaxHeld = 1`, the discipline of BearSSL's engine; only the src copy's
  `NoLeak` is proved for every bound.

The modulus is a constant, not `2^W`: the provers cannot establish facts
about `2^W` without induction.

## 6. Not modelled

- **Log**: formatting.
- **Measurement and UnsafeRawString**: I/O and a string view.
- **Hardcoded-WiFi fallback of the portal**: its body is not under `src/`.
- **`nodemcu` `reportError`**: never called by the loop.
- **The bodies of Flash, Network and reset**: not under `src/`; they are the
  environment of the models.

`PROJECT.json` lists every hazard, with the properties that cover it or why
none does.

## 7. Plan for the next sittings

1. A run that compares `Api` with the spec 4.1 taxonomy over all inputs
   (403 on upgrade becomes OK; transport errors become BROKEN_SERVER).
2. `Device.tla`: the event loop and the panic controller composed, with
   panics at any point of a pass, reboot clearing RAM (`nextTime`, the
   server's timers, `panicking`) and flash surviving.
3. A `Log` module: hook replacement and the sticky tracing flag.
