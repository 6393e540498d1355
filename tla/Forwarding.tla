----------------------------- MODULE Forwarding -----------------------------
(***************************************************************************)
(* What ProxyService.forward makes of a payload: the request that it sends *)
(* upstream, or an error; and what it passes on of the answer.  All its    *)
(* errors before the call have status 400.                                 *)
(*                                                                         *)
(* Headers are kept by their text, so that one name in two spellings is    *)
(* two headers, as in the code.                                            *)
(***************************************************************************)
EXTENDS Payload, TargetPolicy

CONSTANTS ForwardedFamily   \* the names that start with x-forwarded-

BlockedHeaders ==
    {"host", "connection", "keep-alive", "proxy-authorization", "proxy-authenticate",
     "proxy-connection", "te", "trailer", "transfer-encoding", "upgrade", "content-length",
     "expect", "forwarded", "x-real-ip", "cf-connecting-ip", "true-client-ip",
     "fastly-client-ip"}

\* The names and values of one entry, Key and Value taking precedence.
EntryPairs(entry) ==
    CASE entry.kind = "pair" -> <<[key |-> entry.key, value |-> entry.value]>>
      [] entry.kind = "map"  -> entry.fields
      [] OTHER               -> <<>>

\* Where a pair can stand: in which entry, and at which place in it.
Places(header) ==
    UNION {{<<i, j>> : j \in DOMAIN EntryPairs(header.entries[i])} : i \in DOMAIN header.entries}

Before(p, q) == p[1] < q[1] \/ (p[1] = q[1] /\ p[2] < q[2])

Pairs(header) == [p \in Places(header) |-> EntryPairs(header.entries[p[1]])[p[2]]]

\* Where the Connection headers stand.
Connections(pairs) == {p \in DOMAIN pairs : pairs[p].key.word = "connection"}

\* Mutant of Nominated: only the first Connection header is read.
FirstNominated(pairs) ==
    UNION {pairs[p].value.items :
              p \in {q \in Connections(pairs) : \A r \in Connections(pairs) : ~Before(r, q)}}

\* The names in any Connection header, wherever it stands.
Nominated(pairs) == UNION {pairs[p].value.items : p \in Connections(pairs)}

NormalizeHeaders(header) ==
    LET pairs == Pairs(header)
        banned == BlockedHeaders \cup ForwardedFamily \cup Nominated(pairs)
        kept  == {i \in DOMAIN pairs : pairs[i].key.word \notin banned}
        Value(key) == pairs[CHOOSE i \in kept :
                               /\ pairs[i].key = key
                               /\ \A j \in kept : pairs[j].key = key => ~Before(i, j)].value
    IN  IF \E i \in DOMAIN pairs : pairs[i].key.word = Malformed \/ ~pairs[i].value.sendable
        THEN Thrown
        ELSE [key \in {pairs[i].key : i \in kept} |-> Value(key)]

\* The method: GET if the payload has none.
HttpMethod(p) == IF p.method = Unset THEN "GET" ELSE p.method

\* validateAndBuildUrl; Malformed is what new URL refuses.
UrlFits(url, allowHttp) ==
    url # Malformed /\ (url.scheme = "https" \/ (allowHttp /\ url.scheme = "http"))

NoBody == [kind |-> "none", parses |-> FALSE, depth |-> 0]

RequestBody(p) ==
    IF p.body.kind \in {"none", "empty"} \/ HttpMethod(p) = "GET" THEN NoBody ELSE p.body

\* Mutant of RequestParams: a text is parsed, and not looked at any further.
ParsedParams(p) ==
    IF p.parameter.kind = "none" THEN <<>>
    ELSE IF p.parameter.kind = "text" /\ p.parameter.parsed # "record" THEN Thrown
    ELSE p.parameter.fields

\* A text must be JSON for an object; the limits hold for either form.
RequestParams(p) ==
    IF p.parameter.kind = "none" THEN <<>>
    ELSE IF p.parameter.kind = "text" /\ p.parameter.parsed # "record" THEN Thrown
    ELSE IF ParametersFit(p.parameter.fields) THEN p.parameter.fields
    ELSE Thrown

\* forward, up to the call.
Forward(p, rules, allowHttp) ==
    IF \/ HttpMethod(p) \notin AllowedMethods
       \/ ~UrlFits(p.url, allowHttp)
       \/ ~Allowed(rules, HttpMethod(p), p.url)
       \/ NormalizeHeaders(p.header) = Thrown
       \/ ~BodyFits(RequestBody(p))
       \/ RequestParams(p) = Thrown
    THEN Thrown
    ELSE [method  |-> HttpMethod(p),
          url     |-> [p.url EXCEPT !.path = Pathname(@)],
          headers |-> NormalizeHeaders(p.header),
          body    |-> RequestBody(p),
          params  |-> RequestParams(p)]

Framing ==
    {"transfer-encoding", "content-encoding", "connection", "keep-alive", "content-length"}

\* Mutant of SanitizeResponseHeaders: values of any kind are passed on.
UnframedHeaders(headers) == [name \in DOMAIN headers \ Framing |-> headers[name]]

\* sanitizeResponseHeaders, of a function from names to kinds of values: the
\* framing of the upstream's answer goes, and so does what is no text or list.
SanitizeResponseHeaders(headers) ==
    LET kept == {name \in DOMAIN headers :
                    name \notin Framing /\ headers[name] \in {"text", "list"}}
    IN  [name \in kept |-> headers[name]]
=============================================================================
