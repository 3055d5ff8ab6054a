------------------------------ MODULE Headers -------------------------------
(***************************************************************************)
(* The header maps of a request and of its response on their way through   *)
(* the proxy (src/src/headers.rs and the parts of handle_request that call *)
(* it).                                                                    *)
(*                                                                         *)
(* A header map gives every name its lines, in order.  A line is a         *)
(* sequence of tokens, those that a comma separates in its value; a line   *)
(* that is not visible ASCII, which to_str refuses, is Opaque.             *)
(***************************************************************************)
EXTENDS Sequences, Naturals

CONSTANTS
    Extra,          \* end-to-end header names that the code does not name
    Requests,       \* header maps that clients send
    Responses,      \* header maps that backends send
    Configs         \* configurations

Opaque == <<"opaque">>

HopByHop == {"connection", "keep-alive", "proxy-authenticate",
             "proxy-authorization", "te", "trailers", "transfer-encoding",
             "upgrade"}

(* The names that the proxy may write in a request and in a response.      *)
ToBackend == {"host", "x-forwarded-for", "x-forwarded-proto", "x-forwarded-host"}
ToClient == {"content-length", "x-request-id"}
Written == ToBackend \cup ToClient

Name == HopByHop \cup Extra \cup Written

(* into_runtime parses the blocked names as header names; a name to strip  *)
(* that is not a header name is passed over, and is left out here.         *)
ASSUME ConfigAssumption ==
    \A c \in Configs : c.blocked \subseteq Name /\ c.strip \subseteq Name

ASSUME MapAssumption ==
    Requests \cup Responses \subseteq [Name -> Seq(Seq(STRING))]

Absent == [n \in Name |-> <<>>]

VARIABLES
    stage,      \* "request", "refused", "forwarded", "response" or "returned"
    config,     \* blocked, strip: names; trust, tls: flags
    received,   \* the header map that came in
    sent,       \* the header map that went out
    asked,      \* history: the lines of X-Request-Id in the request
    id          \* request_id, a local of handle_request

vars == <<stage, config, received, sent, asked, id>>

-----------------------------------------------------------------------------
(* HeaderMap: contains_key, get (the first line of a name), insert (which  *)
(* replaces every line) and remove.                                        *)
ContainsKey(h, n) == h[n] # <<>>
Get(h, n) == h[n][1]
InsertAppends(h, n, line) == [h EXCEPT ![n] = Append(@, line)]
Insert(h, n, line) == [h EXCEPT ![n] = <<line>>]
Remove(h, N) == [n \in Name |-> IF n \in N THEN <<>> ELSE h[n]]

Readable(h, n) == ContainsKey(h, n) /\ Get(h, n) # Opaque

Tokens(line) == {line[i] : i \in 1..Len(line)}

(* The names that the Connection header declares, and their removal.       *)
Declared(h) == IF Readable(h, "connection") THEN Tokens(Get(h, "connection")) ELSE {}

StripHopByHopFixedFirst(h) ==
    LET g == Remove(h, HopByHop) IN Remove(g, Declared(g))

StripHopByHop(h) == Remove(Remove(h, Declared(h)), HopByHop)

InjectForwardingHeaders(h, tls, trust) ==
    LET xff == IF trust /\ Readable(h, "x-forwarded-for")
                 THEN Append(Get(h, "x-forwarded-for"), "client_ip")
                 ELSE <<"client_ip">>
        h1 == Insert(h, "x-forwarded-for", xff)
        h2 == IF trust /\ ContainsKey(h1, "x-forwarded-proto")
                THEN h1
                ELSE Insert(h1, "x-forwarded-proto",
                            <<IF tls THEN "https" ELSE "http">>)
    IN  IF ContainsKey(h2, "host")
          THEN Insert(h2, "x-forwarded-host", Get(h2, "host"))
          ELSE h2

RewriteHost(h) == Insert(h, "host", <<"upstream">>)

(* What is forwarded: the order of the calls in handle_request.            *)
ForwardStrippingLast(h, c) ==
    Remove(RewriteHost(StripHopByHop(InjectForwardingHeaders(h, c.tls, c.trust))),
           c.blocked)

Forwarded(h, c) ==
    Remove(RewriteHost(InjectForwardingHeaders(StripHopByHop(h), c.tls, c.trust)),
           c.blocked)

(* What is returned: hop-by-hop and configured names stripped, the length  *)
(* of a masked body corrected, the request id added last.                  *)
ReturnedIdFirst(h, c, masked, rid) ==
    LET h1 == Remove(StripHopByHop(Insert(h, "x-request-id", rid)), c.strip)
    IN  IF masked THEN Insert(h1, "content-length", <<"masked_len">>) ELSE h1

Returned(h, c, masked, rid) ==
    LET h1 == Remove(StripHopByHop(h), c.strip)
        h2 == IF masked THEN Insert(h1, "content-length", <<"masked_len">>) ELSE h1
    IN  Insert(h2, "x-request-id", rid)

(* inbound_request_id: the first line, if it can be read and is one run of *)
(* visible characters, not empty and not too long; else the proxy's own    *)
(* number.                                                                 *)
OwnId == <<"seq">>
MalformedId == {<<"">>, <<"two words">>, <<"longer than 128">>}

RequestId(lines) ==
    IF lines # <<>> /\ lines[1] \notin MalformedId \cup {Opaque}
      THEN lines[1]
      ELSE OwnId

-----------------------------------------------------------------------------
Init ==
    /\ stage = "request"
    /\ config \in Configs
    /\ received \in Requests
    /\ sent = Absent
    /\ asked = received["x-request-id"]
    /\ id = RequestId(asked)

(* is_smuggling_attempt and the header half of inspect_request.            *)
Rejects(h, c) ==
    \/ ContainsKey(h, "content-length") /\ ContainsKey(h, "transfer-encoding")
    \/ \E n \in c.blocked : ContainsKey(h, n)

Reject ==
    /\ stage = "request"
    /\ Rejects(received, config)
    /\ stage' = "refused"
    /\ UNCHANGED <<config, received, sent, asked, id>>

ForwardRequest ==
    /\ stage = "request"
    /\ ~Rejects(received, config)
    /\ stage' = "forwarded"
    /\ sent' = Forwarded(received, config)
    /\ UNCHANGED <<config, received, asked, id>>

(* The backend answers with headers of its own.                            *)
Respond ==
    /\ stage = "forwarded"
    /\ stage' = "response"
    /\ \E h \in Responses : received' = h
    /\ sent' = Absent
    /\ UNCHANGED <<config, asked, id>>

(* build_response masks a body only if the response declares its length;   *)
(* it looks after the names have been stripped.                            *)
ReturnResponse ==
    /\ stage = "response"
    /\ stage' = "returned"
    /\ \E masked \in BOOLEAN :
          /\ masked => Readable(Remove(StripHopByHop(received), config.strip),
                                "content-length")
          /\ sent' = Returned(received, config, masked, id)
    /\ UNCHANGED <<config, received, asked, id>>

Next == Reject \/ ForwardRequest \/ Respond \/ ReturnResponse

Spec == Init /\ [][Next]_vars

-----------------------------------------------------------------------------
(* What goes out is a header map, in which no name has more lines than it  *)
(* came in with or than the one that the proxy writes.                     *)
TypeOK ==
    /\ stage \in {"request", "refused", "forwarded", "response", "returned"}
    /\ DOMAIN sent = Name
    /\ \A n \in Name : Len(sent[n]) <= 1 \/ Len(sent[n]) <= Len(received[n])

(* What a header map's Connection lines list, all of them.                 *)
Listed(h) == UNION {Tokens(h["connection"][i]) : i \in 1..Len(h["connection"])}

(* No connection-scoped header crosses the proxy in either direction: none *)
(* of the fixed ones, and none that a Connection header of one readable    *)
(* line lists, but for what the proxy itself writes there.  No blocked     *)
(* header reaches a backend even if the proxy itself would have added it,  *)
(* and no header configured to be stripped reaches a client unless it is   *)
(* the request id; a Content-Length that is stripped or listed does not    *)
(* come back by masking (handle_request, steps 6 to 15).                   *)
NothingScopedCrosses ==
    /\ stage \in {"forwarded", "returned"} =>
          \A n \in HopByHop : ~ContainsKey(sent, n)
    /\ Len(received["connection"]) = 1 /\ Readable(received, "connection") =>
          /\ stage = "forwarded" =>
                \A n \in (Listed(received) \cap Name) \ ToBackend : ~ContainsKey(sent, n)
          /\ stage = "returned" =>
                \A n \in (Listed(received) \cap Name) \ {"x-request-id"} :
                    ~ContainsKey(sent, n)
    /\ stage = "forwarded" =>
          \A n \in config.blocked : ~ContainsKey(sent, n)
    /\ stage = "returned" =>
          \A n \in config.strip \ {"x-request-id"} : ~ContainsKey(sent, n)

(* What the client says of itself is replaced unless it is trusted, and    *)
(* what the proxy adds is there whatever the client's Connection header    *)
(* lists: one X-Forwarded-For line that ends in the observed address, and  *)
(* the real scheme (inject_forwarding_headers after strip_hop_by_hop).     *)
(* X-Forwarded-Host is the client's Host, if there is one that Connection  *)
(* does not list; nothing is said of it otherwise, for without a Host the  *)
(* code leaves alone what a client sent under that name.                   *)
ForwardingIsTheProxys ==
    stage = "forwarded" =>
        /\ "x-forwarded-for" \notin config.blocked =>
              /\ Len(sent["x-forwarded-for"]) = 1
              /\ LET line == Get(sent, "x-forwarded-for")
                 IN  /\ line[Len(line)] = "client_ip"
                     /\ ~config.trust => Len(line) = 1
        /\ "x-forwarded-proto" \notin config.blocked =>
              /\ ContainsKey(sent, "x-forwarded-proto")
              /\ ~config.trust =>
                    sent["x-forwarded-proto"] =
                        << <<IF config.tls THEN "https" ELSE "http">> >>
        /\ ContainsKey(received, "host") /\ "host" \notin Listed(received)
              /\ "x-forwarded-host" \notin config.blocked =>
                    sent["x-forwarded-host"] = <<Get(received, "host")>>
        /\ "host" \notin config.blocked => sent["host"] = << <<"upstream">> >>

(* The client sees exactly one request id, even if a backend sends one or  *)
(* names it in Connection, and even if it is configured to be stripped: a  *)
(* usable one that the client sent comes back to it, and nothing else that *)
(* a client sends under that name does (handle_request, step 15).          *)
OneRequestId ==
    stage = "returned" =>
        /\ sent["x-request-id"] = <<id>>
        /\ \/ id = OwnId /\ (asked = <<>> \/ asked[1] \in MalformedId \cup {Opaque})
           \/ asked # <<>> /\ id = asked[1] /\ id \notin MalformedId \cup {Opaque}

=============================================================================
