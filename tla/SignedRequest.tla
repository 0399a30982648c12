---------------------------- MODULE SignedRequest ---------------------------
(***************************************************************************)
(* What a caller of BinanceFuturesRestClient.signed_request may conclude   *)
(* from its answer.  The call ends in "ok" (a payload), "rejected"         *)
(* (BinanceRequestError) or "transport" (RestClientError).  Only "ok" says *)
(* whether the exchange carried the request out; after the two errors it   *)
(* may or may not have.  RestClient is shown to implement this, and        *)
(* LiveExecution and the startup recovery rely on nothing more.            *)
(***************************************************************************)
EXTENDS Integers

VARIABLES
    stage,      \* "idle", "busy" or "answered"
    effect,     \* has the exchange carried the current request out?
    answer      \* what the call returned

Answers == {"ok", "rejected", "transport"}

RequestInit == stage = "idle" /\ effect = FALSE /\ answer = "none"

Ask == stage = "idle" /\ stage' = "busy" /\ UNCHANGED <<effect, answer>>

CarryOut == stage = "busy" /\ effect' = TRUE /\ UNCHANGED <<stage, answer>>

Reply ==
    /\ stage = "busy" /\ stage' = "answered"
    /\ effect' \in {effect, TRUE}
    /\ answer' \in Answers
    /\ answer' = "ok" => effect'

Leave == stage = "answered" /\ stage' = "idle" /\ effect' = FALSE /\ answer' = "none"

RequestNext == Ask \/ CarryOut \/ Reply \/ Leave

RequestSpec == RequestInit /\ [][RequestNext]_<<stage, effect, answer>>
=============================================================================
