----------------------------- MODULE MCHeaders ------------------------------
EXTENDS Headers

Sent(v) == << <<v>> >>

(* A Connection header has at most two lines; it may list an end-to-end    *)
(* name, a name that the proxy injects, or both.                           *)
ConnectionLines == {<<"x-extra">>, <<"x-forwarded-for", "host">>, <<"te">>, Opaque}
ConnectionValues ==
    {<<>>} \cup {<<l>> : l \in ConnectionLines}
           \cup {<<l, m>> : l, m \in ConnectionLines}

(* A client over HTTP/2 sends no Host header.                              *)
MCRequestsWithoutId ==
    {[Absent EXCEPT !["connection"] = cn, !["te"] = te, !["host"] = ho,
                    !["x-forwarded-for"] = ff, !["x-forwarded-proto"] = fp,
                    !["x-forwarded-host"] = fh, !["x-extra"] = ex,
                    !["transfer-encoding"] = tr, !["content-length"] = Sent("7")] :
        cn \in ConnectionValues, te \in {<<>>, Sent("trailers")},
        ho \in {<<>>, Sent("site")},
        ff \in {<<>>, Sent("hop"), << <<"hop1">>, <<"hop2">> >>, <<Opaque>>},
        fp \in {<<>>, Sent("https")}, fh \in {<<>>, Sent("elsewhere")},
        ex \in {<<>>, Sent("1")}, tr \in {<<>>, Sent("chunked")}}

(* Requests that bring an id of their own: usable, malformed, unreadable   *)
(* or twice.                                                               *)
IdLines == {Sent("theirs"), Sent(""), Sent("two words"), Sent("longer than 128"),
            <<Opaque>>, << <<"theirs">>, <<"other">> >>, <<Opaque, <<"theirs">> >>}

MCRequestsWithId ==
    {[Absent EXCEPT !["x-request-id"] = ri, !["connection"] = cn,
                    !["content-length"] = Sent("7")] :
        ri \in IdLines, cn \in {<<>>, Sent("x-request-id")}}

MCRequests == MCRequestsWithoutId \cup MCRequestsWithId

MCResponses ==
    {[Absent EXCEPT !["connection"] = cn, !["x-request-id"] = ri,
                    !["content-length"] = cl, !["x-extra"] = ex] :
        cn \in {<<>>, Sent("x-request-id"), Sent("content-length")},
        ri \in {<<>>, Sent("theirs")}, cl \in {<<>>, Sent("7")},
        ex \in {<<>>, Sent("1")}}

MCConfigs ==
    {[blocked |-> b, strip |-> s, trust |-> t, tls |-> l] :
        b \in {{}, {"x-extra"}, {"x-forwarded-for"}},
        s \in {{}, {"x-extra", "x-request-id"}, {"content-length"}}, t \in BOOLEAN,
        l \in BOOLEAN}

=============================================================================
