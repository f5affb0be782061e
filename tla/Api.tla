-------------------------------- MODULE Api --------------------------------
(***************************************************************************)
(* The status classification of the newer backend client, src/src/api.cpp. *)
(* Every endpoint is a pure function from what the client observed (does  *)
(* the request fit the fixed JSON buffer, did the transport return a      *)
(* response, which status did the network layer map it to, is there a     *)
(* payload and does it fit) to the ApiStatus (or Result) the caller sees.  *)
(* The module has no state: Panic and the checks use its operators.        *)
(***************************************************************************)
EXTENDS Integers

\* The enumerators of ApiStatus the network layer can produce.
ApiStatuses == {"OK", "FORBIDDEN", "NOT_FOUND", "MUST_UPGRADE",
                "CLIENT_BUFFER_OVERFLOW", "BROKEN_SERVER", "CONNECTION_ISSUES"}

\* What a POST through Network::httpPost returns: either a raw error code
\* (err = TRUE) or a Response whose status the network layer already mapped,
\* with a payload that is absent, parseable into the fixed buffer, or too big.
HttpResults == [err : BOOLEAN, status : ApiStatuses,
                payload : {"none", "fits", "toobig"}]

\* reportPanic, registerEvent and reportError share one shape: a JSON body
\* that does not fit its StaticJsonDocument is a local overflow, a raw
\* transport error is a broken server, otherwise the mapped status.
PostStatus(fits, r) ==
    IF ~fits THEN "CLIENT_BUFFER_OVERFLOW"
    ELSE IF r.err THEN "BROKEN_SERVER"
    ELSE r.status

reportPanic(fits, r) == PostStatus(fits, r)
registerEvent(fits, r) == PostStatus(fits, r)
reportError(fits, r) == PostStatus(fits, r)

\* Result<T, ApiStatus> as a record: ok, and the status when not ok.
ResultOk == [ok |-> TRUE, status |-> "OK"]
ResultErr(s) == [ok |-> FALSE, status |-> s]

\* authenticate and registerPlant: a non-OK status is returned as is, an OK
\* response without payload or with one too large for the token/plant buffer
\* is a broken server.
ParsedResult(fits, r) ==
    IF ~fits THEN ResultErr("CLIENT_BUFFER_OVERFLOW")
    ELSE IF r.err THEN ResultErr("BROKEN_SERVER")
    ELSE IF r.status # "OK" THEN ResultErr(r.status)
    ELSE IF r.payload # "fits" THEN ResultErr("BROKEN_SERVER")
    ELSE ResultOk

authenticate(emptyFields, fits, r) ==
    IF emptyFields THEN ResultErr("FORBIDDEN") ELSE ParsedResult(fits, r)

registerPlant(fits, r) == ParsedResult(fits, r)

\* What Api::upgrade observes: httpClient failed with a raw status that the
\* network layer maps to an ApiStatus or to nothing ("unmapped"), or the GET
\* returned a code (<= 0 a transport error) and a body length relative to
\* the flashed partition, and runUpdate succeeded or not.
UpgradeInputs ==
    [clientErr : BOOLEAN, raw : ApiStatuses \cup {"unmapped"},
     code : {-1, 200, 304, 403, 404, 500},
     len : {"zero", "fits", "toobig"}, runOk : BOOLEAN]

\* The outcome of Api::upgrade: an ApiStatus, or "RESTART" when the image was
\* written and ESP.restart() was called (it does not return).  Every HTTP code
\* of a completed GET, 403 included, ends in ApiStatus::OK.
upgrade(u) ==
    IF u.clientErr
    THEN IF u.raw # "unmapped" THEN u.raw ELSE "BROKEN_SERVER"
    ELSE IF u.code <= 0 THEN "BROKEN_SERVER"
    ELSE IF u.code = 200 /\ u.len = "fits" /\ u.runOk THEN "RESTART"
    ELSE "OK"

\* Every outcome Api::upgrade can produce.
UpgradeOutcomes == {upgrade(u) : u \in UpgradeInputs}
=============================================================================
