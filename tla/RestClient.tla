----------------------------- MODULE RestClient -----------------------------
(***************************************************************************)
(* BinanceFuturesRestClient: the retry loop of _request_with_retry and the *)
(* ProxyTransport it sends through.  One step is one attempt: get_proxies, *)
(* the request, handle_response, and the decision to retry or to end the   *)
(* call.  The waiting between attempts is left out; the session's age is a *)
(* nondeterministic "expired".  All calls come from one thread.            *)
(***************************************************************************)
EXTENDS Integers

CONSTANTS
    MaxRetries,     \* RestClientConfig.max_retries
    Proxies,        \* how many proxies there are: the primary and the failover list
    MaxCalls        \* bound: calls made

ASSUME RetriesAssumption == MaxRetries \in Nat
ASSUME ProxiesAssumption == Proxies \in Nat \ {0}
ASSUME CallsAssumption   == MaxCalls \in Nat

VARIABLES
    pc,         \* "idle", "send" or "answered"
    kind,       \* what the exchange does with a repeated request: "once" or "idempotent"
    attempt,    \* range(max_retries + 1)
    executed,   \* how often the exchange carried the current request out
    answer,     \* how the call ended
    session,    \* ProxyTransport._current_session
    calls,      \* bound: counts calls
    lastBanned  \* history: the proxy a ban was just seen on, or 0

vars == <<pc, kind, attempt, executed, answer, session, calls, lastBanned>>

Kinds     == {"once", "idempotent"}
NoSession == [proxy |-> 0, failCount |-> 0]

(* How an attempt can come back: no usable response (network error, timeout *)
(* or a body that is not JSON), 2xx, 4xx, 5xx, and the last two with the    *)
(* marks of a CloudFront ban (status 404 or the x-cache header).            *)
Replies == {"lost", "ok", "refused", "failed", "banRefused", "banFailed"}
IsBan(reply)     == reply \in {"banRefused", "banFailed"}
Retryable(reply) == reply \in {"lost", "failed", "banFailed"}

TypeOK ==
    /\ pc \in {"idle", "send", "answered"}
    /\ kind \in Kinds
    /\ attempt \in 0 .. MaxRetries
    /\ executed \in Nat
    /\ answer \in {"none", "ok", "rejected", "transport"}
    /\ session \in [proxy : 0 .. Proxies, failCount : Nat]
    /\ calls \in 0 .. MaxCalls
    /\ lastBanned \in 0 .. Proxies

-----------------------------------------------------------------------------
(* ProxyTransport *)

InitSession(p) == [proxy |-> p, failCount |-> 0]

(* Mutant: an expired session starts over at the primary proxy. *)
PrimaryAfterExpiry(expired) == IF session = NoSession \/ expired THEN InitSession(1) ELSE session

GetProxies(expired) ==
    CASE session = NoSession -> InitSession(1)
      [] session # NoSession /\ expired -> InitSession(session.proxy)
      [] OTHER -> session

NextProxy(p) == IF p = Proxies THEN 1 ELSE p + 1

RotateProxy(s) == [proxy |-> NextProxy(s.proxy), failCount |-> s.failCount + 1]

HandleResponse(s, reply) ==
    LET counted == [s EXCEPT !.failCount = s.failCount + 1]
    IN  CASE ~IsBan(reply) -> s
          [] IsBan(reply) /\ Proxies > 1 -> RotateProxy(counted)
          [] OTHER -> counted

-----------------------------------------------------------------------------
(* _request_with_retry *)

Call(k) ==
    /\ pc = "idle" /\ pc' = "send" /\ kind' = k
    /\ calls < MaxCalls /\ calls' = calls + 1
    /\ UNCHANGED <<attempt, executed, answer, session, lastBanned>>

(* The exchange's side of an attempt: whether it carries the request out. A *)
(* request that it takes only once (an order, by its client order id) is    *)
(* refused when it comes again.                                             *)
Exchange(reply) ==
    LET taken == kind = "idempotent" \/ executed = 0
    IN  CASE reply = "ok" -> taken /\ executed' = executed + 1
          [] reply \in {"refused", "banRefused"} -> executed' = executed
          [] OTHER -> executed' = executed \/ (taken /\ executed' = executed + 1)

(* Mutant: the last lost attempt returns an empty payload. *)
EmptyPayloadAfterRetries(reply) == IF reply \in {"ok", "lost"} THEN "ok" ELSE "rejected"

(* The end of the call: a payload, RestClientError or BinanceRequestError. *)
Outcome(reply) ==
    CASE reply = "ok" -> "ok"
      [] reply = "lost" -> "transport"
      [] OTHER -> "rejected"

RetryOrEnd(reply) ==
    IF Retryable(reply) /\ attempt < MaxRetries
    THEN attempt' = attempt + 1 /\ UNCHANGED <<pc, answer>>
    ELSE pc' = "answered" /\ answer' = Outcome(reply) /\ UNCHANGED attempt

Attempt(reply, expired) ==
    LET s == GetProxies(expired)
    IN  /\ pc = "send"
        /\ Exchange(reply)
        /\ session' = HandleResponse(s, reply)
        /\ RetryOrEnd(reply)
        /\ lastBanned' = IF IsBan(reply) THEN s.proxy ELSE 0
        /\ UNCHANGED <<kind, calls>>

Return ==
    /\ pc = "answered" /\ pc' = "idle"
    /\ attempt' = 0 /\ executed' = 0 /\ answer' = "none"
    /\ UNCHANGED <<kind, session, calls, lastBanned>>

Init ==
    /\ pc = "idle" /\ kind = "idempotent" /\ attempt = 0 /\ executed = 0 /\ answer = "none"
    /\ session = NoSession /\ calls = 0 /\ lastBanned = 0

Next ==
    \/ \E k \in Kinds : Call(k)
    \/ \E reply \in Replies, expired \in BOOLEAN : Attempt(reply, expired)
    \/ Return

Spec == Init /\ [][Next]_vars

-----------------------------------------------------------------------------
(* Properties *)

(* A caller sees a signed request behave as SignedRequest says: an "ok" is  *)
(* never reported for a request the exchange did not carry out, whatever    *)
(* the retries, lost answers and bans in between.                           *)
Abstract == INSTANCE SignedRequest
                WITH stage <- IF pc = "send" THEN "busy" ELSE pc, effect <- executed > 0

ImplementsRequest == Abstract!RequestSpec

(* Where there is a failover proxy, the attempt after a ban goes through    *)
(* another proxy than the banned one, also when the sticky session expires  *)
(* between the two and also when the ban ended an earlier call.             *)
BanMovesOn ==
    lastBanned # 0 /\ Proxies > 1 => \A expired \in BOOLEAN : GetProxies(expired).proxy # lastBanned

=============================================================================
