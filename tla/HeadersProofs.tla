--------------------------- MODULE HeadersProofs ----------------------------
(***************************************************************************)
(* What crosses the proxy, for every set of requests, responses and        *)
(* configurations.                                                         *)
(***************************************************************************)
EXTENDS Headers, TLAPS

IsMap(h) == h = [n \in Name |-> h[n]]

(* The names of N are absent from h.                                       *)
Clear(h, N) == \A n \in N : h[n] = <<>>

(* The names that strip_hop_by_hop removes.                                *)
Stripped(h) == HopByHop \cup (Declared(h) \cap Name)

(* insert keeps a header map a header map, sets the name and leaves the    *)
(* other names alone.                                                      *)
LEMMA InsertOnly ==
    ASSUME NEW h, IsMap(h), NEW m \in Name, NEW line
    PROVE  /\ IsMap(Insert(h, m, line))
           /\ Insert(h, m, line)[m] = <<line>>
           /\ \A n \in Name \ {m} : Insert(h, m, line)[n] = h[n]
BY DEF Insert, IsMap

(* remove keeps a header map a header map, clears the names and leaves the *)
(* other names alone.                                                      *)
LEMMA RemoveOnly ==
    ASSUME NEW h, NEW N
    PROVE  /\ IsMap(Remove(h, N))
           /\ \A n \in Name \cap N : Remove(h, N)[n] = <<>>
           /\ \A n \in Name \ N : Remove(h, N)[n] = h[n]
BY DEF Remove, IsMap

LEMMA WrittenAreNames == Written \subseteq Name
BY DEF Name

(* The fixed names are none that the proxy writes.                         *)
LEMMA FixedAreNames == HopByHop \subseteq Name \ Written
BY DEF Name, HopByHop, Written, ToBackend, ToClient

LEMMA StrippedAreNames ==
    ASSUME NEW h
    PROVE  Stripped(h) \subseteq Name
BY FixedAreNames DEF Stripped

(* strip_hop_by_hop leaves none of the names it removes and all others.    *)
LEMMA StripClears ==
    ASSUME NEW h
    PROVE  /\ IsMap(StripHopByHop(h)) /\ Clear(StripHopByHop(h), Stripped(h))
           /\ \A n \in Name \ Stripped(h) : StripHopByHop(h)[n] = h[n]
<1> DEFINE g == Remove(h, Declared(h))
<1>1. /\ \A n \in Name \cap Declared(h) : g[n] = <<>>
      /\ \A n \in Name \ Declared(h) : g[n] = h[n]
  BY RemoveOnly
<1> HIDE DEF g
<1>2. /\ \A n \in Name : n \in HopByHop \/ g[n] = <<>> => Remove(g, HopByHop)[n] = <<>>
      /\ \A n \in Name \ HopByHop : Remove(g, HopByHop)[n] = g[n]
  BY RemoveOnly
<1>3. \A n \in Stripped(h) : n \in Name /\ (n \in HopByHop \/ n \in Name \cap Declared(h))
  BY StrippedAreNames DEF Stripped
<1>4. \A n \in Stripped(h) : Remove(g, HopByHop)[n] = <<>>
  BY <1>1, <1>2, <1>3
<1>5. \A n \in Name \ Stripped(h) : Remove(g, HopByHop)[n] = h[n]
  BY <1>1, <1>2 DEF Stripped
<1> QED BY <1>4, <1>5, RemoveOnly DEF StripHopByHop, Clear, g

(* Neither insert of another name nor remove brings a name back.           *)
LEMMA InsertKeepsClear ==
    ASSUME NEW h, IsMap(h), NEW N \in SUBSET Name, Clear(h, N),
           NEW m \in Name \ N, NEW line
    PROVE  IsMap(Insert(h, m, line)) /\ Clear(Insert(h, m, line), N)
<1>1. \A n \in N : n \in Name \ {m}
  OBVIOUS
<1> QED BY <1>1, InsertOnly DEF Clear

LEMMA RemoveKeepsClear ==
    ASSUME NEW h, IsMap(h), NEW N \in SUBSET Name, Clear(h, N), NEW R
    PROVE  IsMap(Remove(h, R)) /\ Clear(Remove(h, R), N)
<1>1. \A n \in N : Remove(h, R)[n] = <<>>
  BY RemoveOnly DEF Clear
<1> QED BY <1>1, RemoveOnly DEF Clear

(* The names that the proxy writes, one by one.                            *)
LEMMA WrittenNames ==
    /\ "host" \in ToBackend /\ "x-forwarded-for" \in ToBackend
    /\ "x-forwarded-proto" \in ToBackend /\ "x-forwarded-host" \in ToBackend
    /\ "content-length" \in Name /\ "x-request-id" \in Name
    /\ ToBackend \subseteq Name
BY DEF ToBackend, ToClient, Written, Name

(* inject_forwarding_headers writes only the names that the proxy writes.  *)
LEMMA InjectKeepsClear ==
    ASSUME NEW h, IsMap(h), NEW N \in SUBSET (Name \ ToBackend), Clear(h, N),
           NEW tls, NEW trust
    PROVE  /\ IsMap(InjectForwardingHeaders(h, tls, trust))
           /\ Clear(InjectForwardingHeaders(h, tls, trust), N)
<1> DEFINE xff == IF trust /\ Readable(h, "x-forwarded-for")
                    THEN Append(Get(h, "x-forwarded-for"), "client_ip")
                    ELSE <<"client_ip">>
           h1 == Insert(h, "x-forwarded-for", xff)
           h2 == IF trust /\ ContainsKey(h1, "x-forwarded-proto")
                   THEN h1
                   ELSE Insert(h1, "x-forwarded-proto",
                               <<IF tls THEN "https" ELSE "http">>)
           h3 == IF ContainsKey(h2, "host")
                   THEN Insert(h2, "x-forwarded-host", Get(h2, "host"))
                   ELSE h2
<1> HIDE DEF xff
<1>1. IsMap(h1) /\ Clear(h1, N)
  BY InsertKeepsClear, WrittenNames
<1> HIDE DEF h1
<1>2. IsMap(h2) /\ Clear(h2, N)
  BY <1>1, InsertKeepsClear, WrittenNames
<1> HIDE DEF h2
<1>3. IsMap(h3) /\ Clear(h3, N)
  BY <1>2, InsertKeepsClear, WrittenNames
<1>4. InjectForwardingHeaders(h, tls, trust) = h3
  BY DEF InjectForwardingHeaders, xff, h1, h2
<1> QED BY <1>3, <1>4

(* What is forwarded has neither a scoped nor a blocked header.            *)
LEMMA ForwardedClear ==
    ASSUME NEW h, NEW c
    PROVE  /\ Clear(Forwarded(h, c), Stripped(h) \ ToBackend)
           /\ \A n \in Name \cap c.blocked : Forwarded(h, c)[n] = <<>>
<1> DEFINE g == InjectForwardingHeaders(StripHopByHop(h), c.tls, c.trust)
           N == Stripped(h) \ ToBackend
<1>1. N \in SUBSET (Name \ ToBackend)
  BY StrippedAreNames
<1>2. IsMap(StripHopByHop(h)) /\ Clear(StripHopByHop(h), N)
  BY StripClears DEF Clear
<1> HIDE DEF N
<1>3. IsMap(g) /\ Clear(g, N)
  BY <1>1, <1>2, InjectKeepsClear
<1> HIDE DEF g
<1>4. IsMap(RewriteHost(g)) /\ Clear(RewriteHost(g), N)
  BY <1>1, <1>3, InsertKeepsClear, WrittenNames DEF RewriteHost
<1>5. Forwarded(h, c) = Remove(RewriteHost(g), c.blocked)
  BY DEF Forwarded, g
<1>6. Clear(Forwarded(h, c), N)
  BY <1>1, <1>4, <1>5, RemoveKeepsClear
<1> QED BY <1>5, <1>6, RemoveOnly DEF N

(* What is returned has one request id and no other scoped or stripped     *)
(* header: a Content-Length is written only where one was left.            *)
LEMMA ReturnedClear ==
    ASSUME NEW h, NEW c, NEW masked, NEW rid,
           masked => Readable(Remove(StripHopByHop(h), c.strip), "content-length")
    PROVE  /\ Clear(Returned(h, c, masked, rid), Stripped(h) \ {"x-request-id"})
           /\ Returned(h, c, masked, rid)["x-request-id"] = <<rid>>
           /\ \A n \in (Name \cap c.strip) \ {"x-request-id"} :
                 Returned(h, c, masked, rid)[n] = <<>>
<1> DEFINE h1 == Remove(StripHopByHop(h), c.strip)
           h2 == IF masked THEN Insert(h1, "content-length", <<"masked_len">>) ELSE h1
           N == Stripped(h) \cup (Name \cap c.strip)
           M == N \ {"x-request-id"}
<1>1. N \in SUBSET Name
  BY StrippedAreNames
<1>2. IsMap(StripHopByHop(h)) /\ Clear(StripHopByHop(h), Stripped(h))
  BY StripClears
<1>3. IsMap(h1) /\ Clear(h1, N)
  <2>1. IsMap(h1) /\ Clear(h1, Stripped(h)) /\ \A n \in Name \cap c.strip : h1[n] = <<>>
    BY <1>2, StrippedAreNames, RemoveKeepsClear, RemoveOnly
  <2> HIDE DEF h1
  <2> QED BY <2>1 DEF Clear
<1>4. masked => h1["content-length"] # <<>>
  BY DEF Readable, ContainsKey
<1> HIDE DEF N, h1
<1>5. IsMap(h2) /\ Clear(h2, N)
  <2>1. CASE masked
    <3>1. "content-length" \in Name \ N
      BY <1>3, <1>4, <2>1, WrittenNames DEF Clear
    <3> QED BY <1>1, <1>3, <2>1, <3>1, InsertKeepsClear
  <2>2. CASE ~masked
    BY <1>3, <2>2
  <2> QED BY <2>1, <2>2
<1> HIDE DEF h2
<1>6. Returned(h, c, masked, rid) = Insert(h2, "x-request-id", rid)
  BY DEF Returned, h1, h2
<1>7. M \in SUBSET Name /\ Clear(h2, M) /\ "x-request-id" \in Name \ M
  BY <1>1, <1>5, WrittenNames DEF Clear
<1> HIDE DEF M
<1>8. Clear(Returned(h, c, masked, rid), M)
  BY <1>5, <1>6, <1>7, InsertKeepsClear
<1>9. Returned(h, c, masked, rid)["x-request-id"] = <<rid>>
  BY <1>5, <1>6, <1>7, InsertOnly
<1> QED BY <1>8, <1>9 DEF Clear, M, N

(* A Connection header of one readable line declares what it lists.        *)
LEMMA OneLineDeclares ==
    ASSUME NEW h, Len(h["connection"]) = 1, Readable(h, "connection")
    PROVE  Listed(h) = Declared(h)
BY DEF Listed, Declared, Get

-----------------------------------------------------------------------------
(* The configured names are header names (config.rs parses them).          *)
NamesConfigured == config.blocked \subseteq Name /\ config.strip \subseteq Name

(* Nothing connection-scoped, blocked or stripped crosses the proxy, for   *)
(* every request, response and configuration; of the names that Connection *)
(* lists this is so where it has one readable line (strip_hop_by_hop).     *)
THEOREM ScopedHeadersStayOut == Spec => []NothingScopedCrosses
<1> DEFINE Inv == NamesConfigured /\ NothingScopedCrosses
<1>1. Init => Inv
  BY ConfigAssumption DEF Init, NamesConfigured, NothingScopedCrosses
<1>2. Inv /\ [Next]_vars => Inv'
  <2> SUFFICES ASSUME Inv, [Next]_vars PROVE Inv'
    OBVIOUS
  <2>1. NamesConfigured'
    BY DEF NamesConfigured, Next, vars, Reject, ForwardRequest, Respond, ReturnResponse
  <2>2. CASE Reject \/ Respond
    BY <2>1, <2>2 DEF Reject, Respond, NothingScopedCrosses
  <2>3. CASE ForwardRequest
    <3>1. /\ stage' = "forwarded" /\ config' = config /\ received' = received
          /\ sent' = Forwarded(received, config)
      BY <2>3 DEF ForwardRequest
    <3>2. /\ \A n \in Stripped(received) \ ToBackend : sent'[n] = <<>>
          /\ \A n \in config.blocked : sent'[n] = <<>>
      BY <3>1, ForwardedClear DEF NamesConfigured, Clear
    <3>3. \A n \in HopByHop : sent'[n] = <<>>
      BY <3>2, FixedAreNames DEF Stripped, Written
    <3>4. Len(received["connection"]) = 1 /\ Readable(received, "connection") =>
             \A n \in (Listed(received) \cap Name) \ ToBackend : sent'[n] = <<>>
      BY <3>2, OneLineDeclares DEF Stripped
    <3>5. /\ Listed(received)' = Listed(received)
          /\ Readable(received, "connection")' = Readable(received, "connection")
      BY <3>1 DEF Listed, Readable, ContainsKey, Get
    <3> QED BY <2>1, <3>1, <3>2, <3>3, <3>4, <3>5 DEF NothingScopedCrosses, ContainsKey
  <2>4. CASE ReturnResponse
    <3>1. PICK masked \in BOOLEAN :
             /\ masked => Readable(Remove(StripHopByHop(received), config.strip),
                                   "content-length")
             /\ sent' = Returned(received, config, masked, id)
      BY <2>4 DEF ReturnResponse
    <3>2. stage' = "returned" /\ config' = config /\ received' = received
      BY <2>4 DEF ReturnResponse
    <3>3. /\ \A n \in Stripped(received) \ {"x-request-id"} : sent'[n] = <<>>
          /\ \A n \in config.strip \ {"x-request-id"} : sent'[n] = <<>>
      BY <3>1, ReturnedClear DEF NamesConfigured, Clear
    <3>4. \A n \in HopByHop : sent'[n] = <<>>
      BY <3>3, FixedAreNames DEF Stripped, Written, ToClient
    <3>5. Len(received["connection"]) = 1 /\ Readable(received, "connection") =>
             \A n \in (Listed(received) \cap Name) \ {"x-request-id"} : sent'[n] = <<>>
      BY <3>3, OneLineDeclares DEF Stripped
    <3>6. /\ Listed(received)' = Listed(received)
          /\ Readable(received, "connection")' = Readable(received, "connection")
      BY <3>2 DEF Listed, Readable, ContainsKey, Get
    <3> QED BY <2>1, <3>2, <3>3, <3>4, <3>5, <3>6 DEF NothingScopedCrosses, ContainsKey
  <2>5. CASE UNCHANGED vars
    BY <2>1, <2>5 DEF vars, NothingScopedCrosses, ContainsKey, Readable, Get
  <2> QED BY <2>2, <2>3, <2>4, <2>5 DEF Next
<1> QED BY <1>1, <1>2, PTL DEF Spec

(* Every response that is returned carries one request id: the client's if *)
(* it is usable, else the proxy's own.  The id is taken from the request   *)
(* before anything else happens and nothing later changes it.              *)
THEOREM RequestIdOnce == Spec => []OneRequestId
<1> DEFINE Inv == id = RequestId(asked) /\ OneRequestId
<1>1. Init => Inv
  BY DEF Init, OneRequestId
<1>2. Inv /\ [Next]_vars => Inv'
  <2> SUFFICES ASSUME Inv, [Next]_vars PROVE Inv'
    OBVIOUS
  <2>1. id' = id /\ asked' = asked
    BY DEF Next, vars, Reject, ForwardRequest, Respond, ReturnResponse
  <2>2. CASE Reject \/ ForwardRequest \/ Respond
    BY <2>1, <2>2 DEF Reject, ForwardRequest, Respond, OneRequestId
  <2>3. CASE ReturnResponse
    <3>1. PICK masked \in BOOLEAN :
             /\ masked => Readable(Remove(StripHopByHop(received), config.strip),
                                   "content-length")
             /\ sent' = Returned(received, config, masked, id)
      BY <2>3 DEF ReturnResponse
    <3>2. sent'["x-request-id"] = <<id>>
      BY <3>1, ReturnedClear
    <3>3. \/ id = OwnId /\ (asked = <<>> \/ asked[1] \in MalformedId \cup {Opaque})
          \/ asked # <<>> /\ id = asked[1] /\ id \notin MalformedId \cup {Opaque}
      BY DEF RequestId
    <3> QED BY <2>1, <3>2, <3>3 DEF OneRequestId
  <2>4. CASE UNCHANGED vars
    BY <2>4 DEF vars, OneRequestId
  <2> QED BY <2>2, <2>3, <2>4 DEF Next
<1> QED BY <1>1, <1>2, PTL DEF Spec

-----------------------------------------------------------------------------
(* A header map of lines of tokens, as hyper parses one.                   *)
LineMap == [Name -> Seq(Seq(STRING))]

(* strip_hop_by_hop leaves every name its lines or none.                   *)
LEMMA StripIsLineMap ==
    ASSUME NEW h \in LineMap
    PROVE  StripHopByHop(h) \in LineMap
<1>1. ASSUME NEW g \in LineMap, NEW N
      PROVE  Remove(g, N) \in LineMap
  <2> DEFINE Lines == Seq(Seq(STRING))
  <2>1. <<>> \in Lines
    OBVIOUS
  <2>2. g \in [Name -> Lines]
    BY DEF LineMap
  <2> HIDE DEF Lines
  <2>3. Remove(g, N) \in [Name -> Lines]
    BY <2>1, <2>2 DEF Remove
  <2> QED BY <2>3 DEF LineMap, Lines
<1> QED BY <1>1 DEF StripHopByHop

(* What inject_forwarding_headers writes: one X-Forwarded-For line that    *)
(* ends in the client's address, alone if the client is not trusted, the   *)
(* scheme, and the host that the client named, if any.                     *)
ForwardingWritten(h, host, tls, trust) ==
    /\ \E line : /\ h["x-forwarded-for"] = <<line>>
                 /\ line[Len(line)] = "client_ip"
                 /\ ~trust => Len(line) = 1
    /\ h["x-forwarded-proto"] # <<>>
    /\ ~trust => h["x-forwarded-proto"] = << <<IF tls THEN "https" ELSE "http">> >>
    /\ host # <<>> => h["x-forwarded-host"] = <<host[1]>>

(* What the first Connection line declares, some line lists.               *)
LEMMA DeclaredIsListed ==
    ASSUME NEW h \in LineMap
    PROVE  Declared(h) \subseteq Listed(h)
<1>1. CASE Readable(h, "connection")
  <2>1. "connection" \in Name
    BY FixedAreNames DEF HopByHop
  <2>2. 1 \in 1..Len(h["connection"])
    BY <1>1, <2>1 DEF LineMap, Readable, ContainsKey
  <2>3. Declared(h) = Tokens(h["connection"][1])
    BY <1>1 DEF Declared, Get
  <2> QED BY <2>2, <2>3 DEF Listed
<1>2. CASE ~Readable(h, "connection")
  BY <1>2 DEF Declared
<1> QED BY <1>1, <1>2

LEMMA InjectWrites ==
    ASSUME NEW h \in LineMap, NEW tls, NEW trust
    PROVE  /\ IsMap(InjectForwardingHeaders(h, tls, trust))
           /\ ForwardingWritten(InjectForwardingHeaders(h, tls, trust), h["host"], tls, trust)
<1> DEFINE xff == IF trust /\ Readable(h, "x-forwarded-for")
                    THEN Append(Get(h, "x-forwarded-for"), "client_ip")
                    ELSE <<"client_ip">>
           scheme == <<IF tls THEN "https" ELSE "http">>
           h1 == Insert(h, "x-forwarded-for", xff)
           h2 == IF trust /\ ContainsKey(h1, "x-forwarded-proto")
                   THEN h1
                   ELSE Insert(h1, "x-forwarded-proto", scheme)
           h3 == IF ContainsKey(h2, "host")
                   THEN Insert(h2, "x-forwarded-host", Get(h2, "host"))
                   ELSE h2
<1>0. /\ "x-forwarded-for" \in Name /\ "x-forwarded-proto" \in Name
      /\ "x-forwarded-host" \in Name /\ "host" \in Name
  BY WrittenNames, WrittenAreNames
<1>1. xff[Len(xff)] = "client_ip" /\ (~trust => Len(xff) = 1)
  <2>1. CASE trust /\ Readable(h, "x-forwarded-for")
    <3>1. Get(h, "x-forwarded-for") \in Seq(STRING)
      BY <1>0, <2>1 DEF LineMap, Readable, ContainsKey, Get
    <3> QED BY <2>1, <3>1
  <2>2. CASE ~(trust /\ Readable(h, "x-forwarded-for"))
    BY <2>2
  <2> QED BY <2>1, <2>2
<1> HIDE DEF xff, scheme
<1>2. IsMap(h)
  BY DEF LineMap, IsMap
<1>3. IsMap(h1) /\ h1["x-forwarded-for"] = <<xff>> /\ h1["host"] = h["host"]
  BY <1>0, <1>2, InsertOnly
<1> HIDE DEF h1
<1>4. /\ IsMap(h2) /\ h2["x-forwarded-for"] = <<xff>> /\ h2["host"] = h["host"]
      /\ h2["x-forwarded-proto"] # <<>>
      /\ ~trust => h2["x-forwarded-proto"] = <<scheme>>
  <2>1. CASE trust /\ ContainsKey(h1, "x-forwarded-proto")
    BY <2>1, <1>3 DEF ContainsKey
  <2>2. CASE ~(trust /\ ContainsKey(h1, "x-forwarded-proto"))
    <3>1. h2 = Insert(h1, "x-forwarded-proto", scheme)
      BY <2>2
    <3> HIDE DEF h2
    <3> QED BY <3>1, <1>0, <1>3, InsertOnly
  <2> QED BY <2>1, <2>2
<1> HIDE DEF h2
<1>5. /\ IsMap(h3) /\ h3["x-forwarded-for"] = <<xff>>
      /\ h3["x-forwarded-proto"] = h2["x-forwarded-proto"]
      /\ h["host"] # <<>> => h3["x-forwarded-host"] = <<h["host"][1]>>
  BY <1>0, <1>4, InsertOnly DEF ContainsKey, Get
<1> HIDE DEF h3
<1>6. InjectForwardingHeaders(h, tls, trust) = h3
  BY DEF InjectForwardingHeaders, xff, scheme, h1, h2, h3
<1>7. ForwardingWritten(h3, h["host"], tls, trust)
  BY <1>1, <1>4, <1>5 DEF ForwardingWritten, scheme
<1> QED BY <1>5, <1>6, <1>7

(* What the proxy says of the client reaches the backend whatever the      *)
(* client's own headers are: the observed address last in one              *)
(* X-Forwarded-For line, alone unless forwarded headers are trusted, the   *)
(* scheme, and the backend's own Host.  X-Forwarded-Host holds the Host of *)
(* a client that sent one and did not list it in Connection; without that  *)
(* inject_forwarding_headers does not write it and nothing is claimed.     *)
THEOREM ForwardingHeadersHold == Spec => []ForwardingIsTheProxys
<1> DEFINE Inv == /\ stage = "request" => received \in LineMap
                  /\ ForwardingIsTheProxys
<1>1. Init => Inv
  BY MapAssumption DEF Init, ForwardingIsTheProxys, LineMap
<1>2. Inv /\ [Next]_vars => Inv'
  <2> SUFFICES ASSUME Inv, [Next]_vars PROVE Inv'
    OBVIOUS
  <2>1. CASE Reject \/ Respond \/ ReturnResponse
    BY <2>1 DEF Reject, Respond, ReturnResponse, ForwardingIsTheProxys
  <2>2. CASE ForwardRequest
    <3>1. /\ stage = "request" /\ stage' = "forwarded" /\ config' = config
          /\ sent' = Forwarded(received, config) /\ received' = received
      BY <2>2 DEF ForwardRequest
    <3> DEFINE g == InjectForwardingHeaders(StripHopByHop(received), config.tls, config.trust)
    <3>2. /\ IsMap(g)
          /\ ForwardingWritten(g, StripHopByHop(received)["host"], config.tls, config.trust)
      BY <3>1, StripIsLineMap, InjectWrites
    <3>3. sent' = Remove(Insert(g, "host", <<"upstream">>), config.blocked)
      BY <3>1 DEF Forwarded, RewriteHost
    <3> HIDE DEF g
    <3>4. /\ "host" \in Name /\ "x-forwarded-for" \in Name
          /\ "x-forwarded-proto" \in Name /\ "x-forwarded-host" \in Name
      BY WrittenNames, WrittenAreNames
    <3> DEFINE k == Insert(g, "host", <<"upstream">>)
    <3>5. /\ k["host"] = << <<"upstream">> >>
          /\ k["x-forwarded-for"] = g["x-forwarded-for"]
          /\ k["x-forwarded-proto"] = g["x-forwarded-proto"]
          /\ k["x-forwarded-host"] = g["x-forwarded-host"]
      BY <3>2, <3>4, InsertOnly
    <3> HIDE DEF k
    <3>6. \A n \in {"host", "x-forwarded-for", "x-forwarded-proto", "x-forwarded-host"} :
             n \notin config.blocked => sent'[n] = k[n]
      BY <3>3, <3>4, RemoveOnly DEF k
    <3>7. "host" \notin config.blocked => sent'["host"] = << <<"upstream">> >>
      BY <3>5, <3>6
    <3>8. "x-forwarded-proto" \notin config.blocked =>
             /\ sent'["x-forwarded-proto"] # <<>>
             /\ ~config.trust =>
                   sent'["x-forwarded-proto"] =
                       << <<IF config.tls THEN "https" ELSE "http">> >>
      BY <3>2, <3>5, <3>6 DEF ForwardingWritten
    <3>9. ASSUME "x-forwarded-for" \notin config.blocked
          PROVE  /\ Len(sent'["x-forwarded-for"]) = 1
                 /\ LET line == sent'["x-forwarded-for"][1]
                    IN  /\ line[Len(line)] = "client_ip"
                        /\ ~config.trust => Len(line) = 1
      <4>1. PICK line : /\ g["x-forwarded-for"] = <<line>>
                        /\ line[Len(line)] = "client_ip"
                        /\ ~config.trust => Len(line) = 1
        BY <3>2 DEF ForwardingWritten
      <4>2. sent'["x-forwarded-for"] = <<line>>
        BY <3>5, <3>6, <3>9, <4>1
      <4> QED BY <4>1, <4>2
    <3>10. ASSUME ContainsKey(received, "host"), "host" \notin Listed(received),
                  "x-forwarded-host" \notin config.blocked
           PROVE  sent'["x-forwarded-host"] = <<Get(received, "host")>>
      <4>1. "host" \notin Declared(received)
        BY <3>1, <3>10, DeclaredIsListed
      <4>2. "host" \in Name \ Stripped(received)
        BY <3>4, <4>1 DEF Stripped, HopByHop
      <4>3. StripHopByHop(received)["host"] = received["host"]
        BY <4>2, StripClears
      <4>4. g["x-forwarded-host"] = <<received["host"][1]>>
        BY <3>2, <3>10, <4>3 DEF ForwardingWritten, ContainsKey
      <4> QED BY <3>5, <3>6, <3>10, <4>4 DEF Get
    <3>11. Listed(received)' = Listed(received)
      BY <3>1 DEF Listed
    <3>12. ContainsKey(received, "host") /\ "host" \notin Listed(received)
              /\ "x-forwarded-host" \notin config.blocked =>
                    sent'["x-forwarded-host"] = <<Get(received, "host")>>
      BY <3>10
    <3> QED BY <3>1, <3>7, <3>8, <3>9, <3>11, <3>12 DEF ForwardingIsTheProxys, ContainsKey, Get
  <2>3. CASE UNCHANGED vars
    BY <2>3 DEF vars, ForwardingIsTheProxys, ContainsKey, Get
  <2> QED BY <2>1, <2>2, <2>3 DEF Next
<1> QED BY <1>1, <1>2, PTL DEF Spec

-----------------------------------------------------------------------------
(* g has, under every name, the lines of h, one line or none.              *)
Lean(g, h) ==
    /\ g = [n \in Name |-> g[n]]
    /\ \A n \in Name : g[n] = <<>> \/ (\E line : g[n] = <<line>>) \/ g[n] = h[n]

(* remove and insert keep it so.                                           *)
LEMMA RemoveIsLean ==
    ASSUME NEW g, NEW h, NEW N, Lean(g, h)
    PROVE  Lean(Remove(g, N), h)
BY DEF Lean, Remove

LEMMA InsertIsLean ==
    ASSUME NEW g, NEW h, NEW m \in Name, NEW line, Lean(g, h)
    PROVE  Lean(Insert(g, m, line), h)
<1>1. Insert(g, m, line) = [n \in Name |-> IF n = m THEN <<line>> ELSE g[n]]
  BY DEF Insert, Lean
<1>2. \A n \in Name : Insert(g, m, line)[n] = IF n = m THEN <<line>> ELSE g[n]
  BY <1>1
<1>3. ASSUME NEW n \in Name
      PROVE  \/ Insert(g, m, line)[n] = <<>>
             \/ \E l : Insert(g, m, line)[n] = <<l>>
             \/ Insert(g, m, line)[n] = h[n]
  <2>1. CASE n = m
    BY Zenon, <1>2, <2>1
  <2>2. CASE n # m
    BY Zenon, <1>2, <2>2 DEF Lean
  <2> QED BY <2>1, <2>2
<1>4. Insert(g, m, line) = [n \in Name |-> Insert(g, m, line)[n]]
  BY <1>1
<1> QED BY Zenon, <1>3, <1>4 DEF Lean

LEMMA ForwardedIsLean ==
    ASSUME NEW h \in LineMap, NEW c
    PROVE  Lean(Forwarded(h, c), h)
<1> DEFINE g == StripHopByHop(h)
           xff == IF c.trust /\ Readable(g, "x-forwarded-for")
                    THEN Append(Get(g, "x-forwarded-for"), "client_ip")
                    ELSE <<"client_ip">>
           h1 == Insert(g, "x-forwarded-for", xff)
           h2 == IF c.trust /\ ContainsKey(h1, "x-forwarded-proto")
                   THEN h1
                   ELSE Insert(h1, "x-forwarded-proto",
                               <<IF c.tls THEN "https" ELSE "http">>)
           h3 == IF ContainsKey(h2, "host")
                   THEN Insert(h2, "x-forwarded-host", Get(h2, "host"))
                   ELSE h2
<1>0. /\ "host" \in Name /\ "x-forwarded-for" \in Name
      /\ "x-forwarded-proto" \in Name /\ "x-forwarded-host" \in Name
  BY DEF Name, Written, ToBackend, ToClient
<1>1. Lean(h, h)
  BY DEF Lean, LineMap
<1>2. Lean(g, h)
  BY Zenon, <1>1, RemoveIsLean DEF StripHopByHop
<1>3. Forwarded(h, c) = Remove(Insert(h3, "host", <<"upstream">>), c.blocked)
  BY SMTT(30) DEF Forwarded, RewriteHost, InjectForwardingHeaders
<1> HIDE DEF g, xff
<1>4. Lean(h1, h)
  BY Zenon, <1>0, <1>2, InsertIsLean
<1> HIDE DEF h1
<1>5. Lean(h2, h)
  BY <1>0, <1>4, InsertIsLean
<1> HIDE DEF h2
<1>6. Lean(h3, h)
  BY <1>0, <1>5, InsertIsLean
<1> HIDE DEF h3
<1> QED BY Zenon, <1>0, <1>3, <1>6, InsertIsLean, RemoveIsLean

LEMMA ReturnedIsLean ==
    ASSUME NEW h \in LineMap, NEW c, NEW masked, NEW rid
    PROVE  Lean(Returned(h, c, masked, rid), h)
<1> DEFINE h1 == Remove(StripHopByHop(h), c.strip)
           h2 == IF masked THEN Insert(h1, "content-length", <<"masked_len">>) ELSE h1
<1>0. "content-length" \in Name /\ "x-request-id" \in Name
  BY DEF Name, Written, ToBackend, ToClient
<1>1. Lean(h, h)
  BY DEF Lean, LineMap
<1>2. Lean(h1, h)
  BY Zenon, <1>1, RemoveIsLean DEF StripHopByHop
<1>3. Returned(h, c, masked, rid) = Insert(h2, "x-request-id", rid)
  BY DEF Returned
<1> HIDE DEF h1
<1>4. Lean(h2, h)
  BY <1>0, <1>2, InsertIsLean
<1> HIDE DEF h2
<1> QED BY Zenon, <1>0, <1>3, <1>4, InsertIsLean

(* What a lean map says of the numbers of lines.                           *)
LEMMA LeanCounts ==
    ASSUME NEW h \in LineMap, NEW g, Lean(g, h)
    PROVE  /\ DOMAIN g = Name
           /\ \A n \in Name : Len(g[n]) <= 1 \/ Len(g[n]) <= Len(h[n])
<1>1. DOMAIN g = Name
  BY DEF Lean
<1>2. ASSUME NEW n \in Name PROVE Len(g[n]) <= 1 \/ Len(g[n]) <= Len(h[n])
  <2>1. CASE g[n] = <<>>
    BY <2>1
  <2>2. CASE \E line : g[n] = <<line>>
    BY <2>2
  <2>3. CASE g[n] = h[n]
    <3>1. Len(h[n]) \in Nat
      BY DEF LineMap
    <3> QED BY <2>3, <3>1
  <2> QED BY <2>1, <2>2, <2>3 DEF Lean
<1> QED BY <1>1, <1>2

(* Whatever comes in, what goes out is a header map in which no name has   *)
(* gained lines, but for the one that the proxy writes (handle_request     *)
(* inserts, and never appends).                                            *)
THEOREM HeadersTypeCorrect == Spec => []TypeOK
<1> DEFINE Inv == TypeOK /\ received \in LineMap
<1>1. Init => Inv
  BY MapAssumption DEF Init, TypeOK, Absent, LineMap
<1>2. Inv /\ [Next]_vars => Inv'
  <2> SUFFICES ASSUME Inv, [Next]_vars PROVE Inv'
    OBVIOUS
  <2>1. CASE Reject \/ UNCHANGED vars
    BY <2>1 DEF Reject, vars, TypeOK
  <2>2. CASE ForwardRequest
    <3>1. stage' = "forwarded" /\ received' = received /\ Lean(sent', received)
      BY <2>2, ForwardedIsLean DEF ForwardRequest
    <3> QED BY <3>1, LeanCounts DEF TypeOK
  <2>3. CASE Respond
    <3>1. stage' = "response" /\ received' \in LineMap /\ sent' = Absent
      BY <2>3, MapAssumption DEF Respond, LineMap
    <3> QED BY <3>1 DEF TypeOK, Absent
  <2>4. CASE ReturnResponse
    <3>1. stage' = "returned" /\ received' = received /\ Lean(sent', received)
      BY <2>4, ReturnedIsLean DEF ReturnResponse
    <3> QED BY <3>1, LeanCounts DEF TypeOK
  <2> QED BY <2>1, <2>2, <2>3, <2>4 DEF Next
<1> QED BY <1>1, <1>2, PTL DEF Spec

=============================================================================
