------------------------------- MODULE Proxy --------------------------------
(***************************************************************************)
(* handle_request (src/src/proxy.rs): the pipeline a request goes through, *)
(* from its arrival to the response or the error that answers it.          *)
(*                                                                         *)
(* The pipeline awaits in two places: for the head of the upstream's       *)
(* response, under request_timeout, and for its body, piece by piece, when *)
(* it is collected for masking.  Everything before, between and after runs *)
(* without a stop and is one action.  At an await the client may go away,  *)
(* and the future is dropped where it stands.                              *)
(***************************************************************************)
EXTENDS Naturals, Sequences, Masking

CONSTANTS
    Slot,           \* requests that may be in progress at once
    Backend,        \* upstreams that balancer.next() may return
    Schemeless,     \* ... those whose address has no scheme
    NoBackend,      \* no backend
    Limiter,        \* whether a rate limiter is configured
    Ceiling,        \* mask_max_body_size, in bytes
    MaxRules        \* bound on the number of masked parameters

ASSUME PipelineAssumption ==
    /\ NoBackend \notin Backend /\ Schemeless \subseteq Backend
    /\ Limiter \in BOOLEAN /\ Ceiling \in Nat /\ MaxRules \in Nat

(* What the checks tell apart in a request: the client's rate is over its  *)
(* limit; both framing headers; the declared length is over the limit; a   *)
(* blocked header; a blocked parameter; and the body, whatever its         *)
(* declared length, turns out to be over the limit while it is streamed.   *)
Flag == {"over_rate", "ambiguous", "declared_long", "blocked_header",
         "blocked_param", "streams_long"}

(* What build_response tells apart in the head of a response: a text or    *)
(* form content type; a content coding other than identity; and a declared *)
(* length that is within the ceiling.                                      *)
HeadFact == {"text", "coded", "within_ceiling"}

VARIABLES
    rules,      \* config.mask_rules, in the order of masked_params
    pc,         \* "free", "arrived", "sent", "collecting" or "answered"
    flags,      \* the flags of the request in the slot
    upstream,   \* the backend it was sent to
    head,       \* the status of the response it began, 0 if it began none
    record,     \* what was recorded of that backend: "none", "success", "failure"
    answer,     \* "ok" or the ProxyError that answers it
    buffer,     \* the part of the response's body collected so far
    masked      \* the body and Content-Length of a masked response

reply == <<buffer, masked>>
vars == <<rules, pc, flags, upstream, head, record, answer, buffer, masked>>

Unmasked == [text |-> <<>>, length |-> 0]

Error == {"RateLimited", "RequestSmuggling", "BodyTooLarge", "BlockedHeader",
          "BlockedParam", "NoHealthyUpstream", "InvalidUpstream", "Internal",
          "Upstream", "Timeout"}

(* ProxyError::status_code.                                                *)
StatusCode(e) ==
    CASE e = "RateLimited" -> 429
      [] e = "RequestSmuggling" -> 400
      [] e = "BodyTooLarge" -> 413
      [] e \in {"BlockedHeader", "BlockedParam"} -> 403
      [] e = "NoHealthyUpstream" -> 503
      [] e \in {"InvalidUpstream", "Internal"} -> 500
      [] e = "Upstream" -> 502
      [] e = "Timeout" -> 504

(* The statuses of backends: a backend may itself be a gateway, whose 502  *)
(* and 504 look like the proxy's own.                                      *)
BackendStatus == {200, 502, 504}

(* The status the client gets: that of the error, or the backend's own,    *)
(* which build_response relays whatever it is.                             *)
Status(q) == IF answer[q] = "ok" THEN head[q] ELSE StatusCode(answer[q])

(* masked_params lists names in any order, and may repeat one.             *)
RuleLists == UNION {[1..n -> Param] : n \in 0..MaxRules}

Init ==
    /\ rules \in RuleLists
    /\ pc = [q \in Slot |-> "free"]
    /\ flags = [q \in Slot |-> {}]
    /\ upstream = [q \in Slot |-> NoBackend]
    /\ head = [q \in Slot |-> 0]
    /\ record = [q \in Slot |-> "none"]
    /\ answer = [q \in Slot |-> "none"]
    /\ buffer = [q \in Slot |-> <<>>]
    /\ masked = [q \in Slot |-> Unmasked]

-----------------------------------------------------------------------------
(* A request arrives in a free slot.                                       *)
Arrive(q) ==
    /\ pc[q] = "free"
    /\ pc' = [pc EXCEPT ![q] = "arrived"]
    /\ \E F \in SUBSET Flag : flags' = [flags EXCEPT ![q] = F]
    /\ UNCHANGED <<rules, upstream, head, record, answer, reply>>

(* An error answers the request.                                           *)
Fail(q, e) ==
    /\ pc' = [pc EXCEPT ![q] = "answered"]
    /\ answer' = [answer EXCEPT ![q] = e]
    /\ UNCHANGED <<rules, flags, head, masked>>

(* The checks, in the order in which they are made.                        *)
RefusalByHeadersOnly(F) ==
    IF Limiter /\ "over_rate" \in F THEN "RateLimited"
    ELSE IF "ambiguous" \in F THEN "RequestSmuggling"
    ELSE IF "declared_long" \in F THEN "BodyTooLarge"
    ELSE IF "blocked_header" \in F THEN "BlockedHeader"
    ELSE "none"

Refusal(F) ==
    IF Limiter /\ "over_rate" \in F THEN "RateLimited"
    ELSE IF "ambiguous" \in F THEN "RequestSmuggling"
    ELSE IF "declared_long" \in F THEN "BodyTooLarge"
    ELSE IF "blocked_header" \in F THEN "BlockedHeader"
    ELSE IF "blocked_param" \in F THEN "BlockedParam"
    ELSE "none"

Refuse(q) ==
    /\ pc[q] = "arrived"
    /\ Refusal(flags[q]) # "none"
    /\ Fail(q, Refusal(flags[q]))
    /\ UNCHANGED <<upstream, record, buffer>>

(* Past the checks: balancer.next(), which may find no backend; then the   *)
(* URI for the backend, which is refused if the backend has no scheme and  *)
(* may not be buildable; then the request is on its way.                   *)
FindNone(q) ==
    /\ pc[q] = "arrived"
    /\ Refusal(flags[q]) = "none"
    /\ Fail(q, "NoHealthyUpstream")
    /\ UNCHANGED <<upstream, record, buffer>>

(* rewrite_uri needs the scheme of the backend's address.                  *)
Rewritable(b) == b \notin Schemeless

Forward(q) ==
    /\ pc[q] = "arrived"
    /\ Refusal(flags[q]) = "none"
    /\ \E b \in Backend :
          /\ upstream' = [upstream EXCEPT ![q] = b]
          /\ \/ ~Rewritable(b) /\ Fail(q, "InvalidUpstream")
             \/ Rewritable(b) /\ Fail(q, "Internal")
             \/ /\ Rewritable(b)
                /\ pc' = [pc EXCEPT ![q] = "sent"]
                /\ UNCHANGED <<rules, flags, head, answer, masked>>
    /\ UNCHANGED <<record, buffer>>

(* build_response: a response is collected for masking only when there is  *)
(* something to mask, it is plain text, and it declares a length within    *)
(* the ceiling.                                                            *)
ToMask(H) == rules # <<>> /\ "text" \in H /\ "coded" \notin H /\ "within_ceiling" \in H

(* The head of the response arrives: whatever its status, the backend is   *)
(* credited at once.  The body is streamed to the client, or, if it is to  *)
(* be masked, collected.                                                   *)
Responded(q) ==
    /\ pc[q] = "sent"
    /\ record' = [record EXCEPT ![q] = "success"]
    /\ \E s \in BackendStatus : head' = [head EXCEPT ![q] = s]
    /\ \E H \in SUBSET HeadFact :
          \/ /\ ~ToMask(H)
             /\ pc' = [pc EXCEPT ![q] = "answered"]
             /\ answer' = [answer EXCEPT ![q] = "ok"]
          \/ /\ ToMask(H)
             /\ pc' = [pc EXCEPT ![q] = "collecting"]
             /\ UNCHANGED answer
    /\ UNCHANGED <<rules, flags, upstream, reply>>

(* The request's own body runs over the limit: the client's doing, which   *)
(* is_length_limit_error tells from the backend's.                         *)
BodyOverLimitBlamed(q) ==
    /\ pc[q] = "sent"
    /\ "streams_long" \in flags[q]
    /\ Fail(q, "BodyTooLarge")
    /\ record' = [record EXCEPT ![q] = "failure"]
    /\ UNCHANGED <<upstream, buffer>>

BodyOverLimit(q) ==
    /\ pc[q] = "sent"
    /\ "streams_long" \in flags[q]
    /\ Fail(q, "BodyTooLarge")
    /\ UNCHANGED <<upstream, record, buffer>>

(* A transport error, or request_timeout passes.                           *)
UpstreamFailed(q) ==
    /\ pc[q] = "sent"
    /\ Fail(q, "Upstream")
    /\ record' = [record EXCEPT ![q] = "failure"]
    /\ UNCHANGED <<upstream, buffer>>

TimeoutUnarmed(q) == FALSE

RequestTimeout(q) ==
    /\ pc[q] = "sent"
    /\ Fail(q, "Timeout")
    /\ record' = [record EXCEPT ![q] = "failure"]
    /\ UNCHANGED <<upstream, buffer>>

(* More of the body arrives while it is collected: Limited lets it grow up *)
(* to the ceiling, whatever the head declared, and fails beyond it.        *)
CollectUnlimited(q, t) ==
    /\ pc[q] = "collecting"
    /\ Size(buffer[q]) <= Ceiling
    /\ buffer' = [buffer EXCEPT ![q] = Append(@, t)]
    /\ UNCHANGED <<rules, pc, flags, upstream, head, record, answer, masked>>

Collect(q, t) ==
    /\ pc[q] = "collecting"
    /\ Size(Append(buffer[q], t)) <= Ceiling
    /\ buffer' = [buffer EXCEPT ![q] = Append(@, t)]
    /\ UNCHANGED <<rules, pc, flags, upstream, head, record, answer, masked>>

(* The body goes over the ceiling, or breaks off.  The proxy answers, and  *)
(* what was collected is dropped.                                          *)
MaskFailed(q) ==
    /\ pc[q] = "collecting"
    /\ Fail(q, "Internal")
    /\ buffer' = [buffer EXCEPT ![q] = <<>>]
    /\ UNCHANGED <<upstream, record>>

(* The body is whole: it is masked, and Content-Length says the length of  *)
(* the masked body.  No timeout bounds the collection.                     *)
MaskedReply(text) ==
    LET body == MaskSensitiveData(rules, FromUtf8Lossy(text))
    IN  [text |-> body, length |-> Size(body)]

Masked(q) ==
    /\ pc[q] = "collecting"
    /\ pc' = [pc EXCEPT ![q] = "answered"]
    /\ answer' = [answer EXCEPT ![q] = "ok"]
    /\ masked' = [masked EXCEPT ![q] = MaskedReply(buffer[q])]
    /\ UNCHANGED <<rules, flags, upstream, head, record, buffer>>

(* The answer has been handed to the connection, or the client has gone    *)
(* and the future was dropped at its await: the slot is free again.        *)
Release(q) ==
    /\ pc[q] \in {"sent", "collecting", "answered"}
    /\ pc' = [pc EXCEPT ![q] = "free"]
    /\ flags' = [flags EXCEPT ![q] = {}]
    /\ upstream' = [upstream EXCEPT ![q] = NoBackend]
    /\ head' = [head EXCEPT ![q] = 0]
    /\ record' = [record EXCEPT ![q] = "none"]
    /\ answer' = [answer EXCEPT ![q] = "none"]
    /\ buffer' = [buffer EXCEPT ![q] = <<>>]
    /\ masked' = [masked EXCEPT ![q] = Unmasked]
    /\ UNCHANGED rules

-----------------------------------------------------------------------------
(* What an upstream may send: anything but the replacement character and   *)
(* the mask, which the proxy writes.                                       *)
Sendable == Token \ {Mask, "fffd"}

(* What the proxy does by itself, and what needs its upstream or a client. *)
OwnStep(q) == Refuse(q) \/ FindNone(q) \/ Forward(q) \/ RequestTimeout(q)

Next ==
    \E q \in Slot :
        \/ OwnStep(q) \/ Arrive(q) \/ Release(q)
        \/ Responded(q) \/ BodyOverLimit(q) \/ UpstreamFailed(q)
        \/ Masked(q) \/ MaskFailed(q) \/ \E t \in Sendable : Collect(q, t)

Spec == Init /\ [][Next]_vars

(* tokio polls a ready future and fires its timers; nothing is asked of    *)
(* backends or clients.                                                    *)
Fairness == \A q \in Slot : WF_vars(OwnStep(q))

FairSpec == Spec /\ Fairness

-----------------------------------------------------------------------------
(* Every slot is in a state of the pipeline, and no request is on its way  *)
(* to a backend that has no scheme (rewrite_uri).  Nothing larger than the *)
(* masking ceiling is ever held, whatever the backend declares or sends    *)
(* (Limited::new(body, ceiling)).                                          *)
TypeOK ==
    /\ rules \in RuleLists
    /\ pc \in [Slot -> {"free", "arrived", "sent", "collecting", "answered"}]
    /\ flags \in [Slot -> SUBSET Flag]
    /\ upstream \in [Slot -> Backend \cup {NoBackend}]
    /\ head \in [Slot -> BackendStatus \cup {0}]
    /\ record \in [Slot -> {"none", "success", "failure"}]
    /\ answer \in [Slot -> Error \cup {"ok", "none"}]
    /\ \A q \in Slot : pc[q] \in {"sent", "collecting"} =>
          upstream[q] \in Backend \ Schemeless
    /\ buffer \in [Slot -> Seq(Token)] /\ DOMAIN masked = Slot
    /\ \A q \in Slot : pc[q] = "collecting" => rules # <<>>
    /\ \A q \in Slot : buffer[q] # <<>> =>
          pc[q] \in {"collecting", "answered"} /\ Size(buffer[q]) <= Ceiling

(* A backend is charged a turn, and may be sent a trial, only for a        *)
(* request that passes every check: whatever else is wrong with a request  *)
(* that is refused, no backend is selected for it.                         *)
RefusedBeforeSelection ==
    \A q \in Slot :
        upstream[q] # NoBackend =>
            /\ flags[q] \subseteq {"over_rate", "streams_long"}
            /\ Limiter => "over_rate" \notin flags[q]

(* A backend's health follows what the backend did, not what the client    *)
(* got (record_success and record_failure in handle_request).  It is       *)
(* credited exactly for the responses it began, a 502 or 504 of its own    *)
(* included, even if the proxy then answers 500.  It is blamed exactly     *)
(* where a client gets a 502 or 504 without such a response.  It is        *)
(* neither for a body that its client made too long.                       *)
BlameMatchesOutcome ==
    \A q \in Slot :
        /\ pc[q] \in {"collecting", "answered"} => (record[q] = "success" <=> head[q] # 0)
        /\ pc[q] = "answered" =>
              (record[q] = "failure" <=> head[q] = 0 /\ Status(q) \in {502, 504})

(* A masked response is the text the backend sent with, in every field,    *)
(* everything after the first masked name replaced: for any order of the   *)
(* rules, wherever one value holds another's name, and with the Content-   *)
(* Length of what is sent (mask_sensitive_data, build_response).           *)
MaskedWhole ==
    \A q \in Slot :
        buffer[q] # <<>> /\ pc[q] = "answered" =>
            /\ masked[q].text = MaskedText({rules[i] : i \in DOMAIN rules},
                                           FromUtf8Lossy(buffer[q]))
            /\ masked[q].length = Size(masked[q].text)

(* However a backend behaves, no request waits for it for ever before the  *)
(* head of a response has come (request_timeout around client.request).    *)
HeadWaitEnds ==
    \A q \in Slot :
        pc[q] \in {"arrived", "sent"} ~> pc[q] \notin {"arrived", "sent"}

(* A request that has been accepted for forwarding is answered, or its     *)
(* client goes away, however the backend behaves: "Total timeout in        *)
(* seconds for the entire upstream round-trip [...] Requests exceeding     *)
(* this receive 504" (config.rs TimeoutsConfig::request).                  *)
RoundTripEnds ==
    \A q \in Slot : pc[q] # "free" ~> pc[q] \in {"answered", "free"}

=============================================================================
