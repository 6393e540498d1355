----------------------------- MODULE MCService ------------------------------
(***************************************************************************)
(* An instance of Service for TLC.  Inputs vary in one respect at a time   *)
(* from one that everything lets pass.                                     *)
(***************************************************************************)
EXTENDS Service

-----------------------------------------------------------------------------
(* Allow list.                                                             *)

MCA == <<"a">>
MCB == <<"b">>
MCAB == <<"a", "b">>

Host(name, port) == [name |-> name, port |-> port]
Entry(words, method, host, path) ==
    [words |-> words, method |-> method, scheme |-> FALSE, host |-> host, path |-> path]

Star == <<"*">>

\* GET h1/a/*   h2/a*   POST h3:80/a/b   h4/*   h5:8443/b/../a
GoodRoutes ==
    {Entry(2, "GET", Host("h1", DefaultPort), <<MCA, Star>>),
     Entry(1, "*", Host("h2", DefaultPort), <<<<"a", "*">>>>),
     Entry(2, "POST", Host("h3", 80), <<MCA, MCB>>),
     Entry(1, "*", Host("h4", DefaultPort), <<Star>>),
     Entry(1, "*", Host("h5", 8443), <<MCB, DotDot, MCA>>)}

\* Each of them stops the start.
BadRoutes ==
    {Entry(3, "GET", Host("h1", DefaultPort), <<MCA>>),
     Entry(2, "CONNECT", Host("h1", DefaultPort), <<MCA>>),
     Entry(1, "*", Host("h1", DefaultPort), <<>>),
     Entry(1, "*", Host("h1", DefaultPort), <<Star, MCA>>),
     Entry(1, "*", Malformed, <<MCA>>)}

MCCharacters == {"a", "b", ".", "*", "%2f"}

Segments == {MCA, MCB, MCAB, <<>>, Dot, DotDot, <<"a", "%2f", "b">>}
Paths == UNION {[1..n -> Segments] : n \in 1..2} \cup
         {<<x, y, z>> : x \in {MCA, MCB}, y \in {MCB, DotDot, <<>>}, z \in Segments}

Url(scheme, host, path) == [scheme |-> scheme, host |-> host, path |-> path]

-----------------------------------------------------------------------------
(* Payloads.                                                               *)

Word(word)  == [word |-> word, caps |-> FALSE, length |-> 1]
Loud(word)  == [word |-> word, caps |-> TRUE, length |-> 1]
Long(word)  == [word |-> word, caps |-> FALSE, length |-> MaxName + 1]
Value(items)  == [items |-> items, sendable |-> TRUE, length |-> 1]
LongValue     == [items |-> {"v"}, sendable |-> TRUE, length |-> MaxValue + 1]
RawValue      == [items |-> {"v"}, sendable |-> FALSE, length |-> 1]
Pair(k, v)  == [kind |-> "pair", key |-> k, value |-> v]
Map(fields) == [kind |-> "map", fields |-> fields]
Field(k, v) == [key |-> k, value |-> v]

NoHeader == [shape |-> "none", entries |-> <<>>]
InArray(entries) == [shape |-> "array", entries |-> entries]
AsObject(entry) == [shape |-> "object", entries |-> <<entry>>]

Own(word) == Pair(Word(word), Value({"v"}))
Naming(items) == Pair(Loud("connection"), Value(items))

Entries ==
    {Own("x"), Pair(Loud("x"), Value({"w"})), Own("host"), Own("x-forwarded-for"),
     Own("y"), Naming({"x"}), Naming({"y", "close"}),
     Map(<<Field(Word("x"), Value({"w"})), Field(Word("y"), Value({"v"}))>>),
     Map(<<Field(Word("connection"), Value({"x"}))>>)}

OddEntries ==
    {Pair(Long("x"), Value({"v"})), Pair(Word("x"), LongValue), Pair(Word("x"), RawValue),
     Pair(Word("x"), NotScalar), Own(Malformed), [kind |-> "half"], [kind |-> "other"],
     Map(<<Field(Word("x"), NotScalar)>>),
     Map([i \in 1 .. MaxEntries + 1 |-> Field([Word("x") EXCEPT !.length = i], Value({"v"}))])}

Headers ==
    {NoHeader, [shape |-> "other", entries |-> <<>>]}
    \cup {InArray(<<e, f>>) : e, f \in Entries}
    \cup {InArray(<<e, f, Own("y")>>) : e, f \in {Naming({"x"}), Naming({"y"}), Own("x")}}
    \cup {InArray(<<e>>) : e \in OddEntries}
    \cup {InArray([i \in 1 .. MaxEntries + 2 |-> Own("x")])}
    \cup {AsObject(e) : e \in {x \in Entries \cup OddEntries : x.kind \in {"pair", "map"}}}

Body(kind, parses, depth) == [kind |-> kind, parses |-> parses, depth |-> depth]

Bodies ==
    {NoBody, Body("empty", FALSE, 0), Body("text", FALSE, 0)}
    \cup {Body("text", TRUE, d) : d \in 0 .. MaxDepth + 1}
    \cup {Body("value", FALSE, d) : d \in 0 .. MaxDepth + 1}

Item == [length |-> 1]
Parameter(kind, parsed, fields) == [kind |-> kind, parsed |-> parsed, fields |-> fields]
NoParameter == Parameter("none", "no", <<>>)
FieldLists ==
    {<<[name |-> Word("p"), items |-> <<Item, NullItem>>]>>,
     <<[name |-> Long("p"), items |-> <<Item>>]>>,
     <<[name |-> Word("p"), items |-> <<[length |-> MaxValue + 1]>>]>>,
     <<[name |-> Word("p"), items |-> <<NotScalar>>]>>,
     <<[name |-> Word("p"), items |-> [i \in 1 .. MaxEntries + 1 |-> Item]]>>,
     [i \in 1 .. MaxEntries + 1 |-> [name |-> Word("p"), items |-> <<Item>>]]}
Parameters ==
    {NoParameter, Parameter("other", "no", <<>>), Parameter("text", "no", <<>>),
     Parameter("text", "value", <<>>)}
    \cup {Parameter("text", "record", f) : f \in FieldLists}
    \cup {Parameter("object", "no", f) : f \in FieldLists}

Good ==
    [object |-> TRUE, url |-> Url("https", Host("h4", DefaultPort), <<MCA>>), method |-> "POST",
     header |-> NoHeader, body |-> NoBody, parameter |-> NoParameter,
     nonce |-> "none", timestamp |-> "none"]

ByUrl ==
    {[Good EXCEPT !.url = Url("https", Host(h, DefaultPort), path), !.method = m] :
        h \in {"h1", "h2", "h3", "h4"}, path \in Paths, m \in {Unset, "POST"}}
    \cup {[Good EXCEPT !.url = Url(s, Host(h, port), <<MCA>>)] :
             s \in {"https", "http", "ftp"}, h \in {"h4", "h5", "h6"},
             port \in {DefaultPort, 80, 443, 8443}}
    \cup {[Good EXCEPT !.url = u] : u \in {Empty, Malformed}}
    \cup {[Good EXCEPT !.method = m] : m \in {NotScalar, "CONNECT", "GET"}}

ByContent ==
    {[Good EXCEPT !.header = h] : h \in Headers}
    \cup {[Good EXCEPT !.body = b, !.method = m] : b \in Bodies, m \in {"GET", "PUT"}}
    \cup {[Good EXCEPT !.parameter = q] : q \in Parameters}
    \cup {[Good EXCEPT !.nonce = n, !.timestamp = t] :
             n, t \in {"none", "text", "number", "other"}}
    \cup {[Good EXCEPT !.object = FALSE]}

-----------------------------------------------------------------------------
(* Addresses: three of one /64, two texts of one IPv4 address, two more.   *)

V6(left, double, right, dotted) ==
    [kind |-> "v6", text |-> <<>>, left |-> left, double |-> double, right |-> right,
     dotted |-> dotted]
TextOf(text) ==
    [kind |-> "other", text |-> text, left |-> <<>>, double |-> FALSE, right |-> <<>>,
     dotted |-> <<>>]
G(n) == Group(n)
Padded(n) == [value |-> n, padded |-> TRUE]

FirstAddress == TextOf(<<1, 2, 3, 4>>)

MCAddresses ==
    {FirstAddress,
     V6(<<>>, TRUE, <<G(65535)>>, <<1, 2, 3, 4>>),
     V6(<<>>, TRUE, <<G(65535), G(258), G(772)>>, <<>>),
     V6(<<>>, TRUE, <<G(65535), G(258), G(773)>>, <<>>),
     V6(<<G(7), G(0), G(0), G(1)>>, TRUE, <<G(1)>>, <<>>),
     V6(<<G(7)>>, TRUE, <<G(1), G(9), G(0), G(0), G(2)>>, <<>>),
     V6(<<Padded(7), Padded(0), Padded(0), Padded(1), G(1), G(1), G(1), G(1)>>, FALSE, <<>>, <<>>),
     V6(<<G(7)>>, TRUE, <<G(1)>>, <<>>),
     [TextOf(<<>>) EXCEPT !.kind = "none"]}

-----------------------------------------------------------------------------
(* Answers.                                                                *)

Content(status, data) == [status |-> status, headers |-> [n \in {"h"} |-> "text"], data |-> data]

MCReplies ==
    {[status |-> 200, data |-> "d",
      headers |-> [n \in {"h", "content-length", "i"} |->
                      CASE n = "h" -> "list" [] n = "i" -> "object" [] OTHER -> "text"]],
     Content(404, "e"),
     Content(999, "d")}

Sealed(key, content) ==
    [code |-> 200, encrypted |-> TRUE, envelope |-> "whole", key |-> key, content |-> content]
InPlain(content) ==
    [code |-> 200, encrypted |-> FALSE, envelope |-> "none", key |-> 0, content |-> content]

Lie == Content(200, "lie")

MCForeign ==
    {ErrorAnswer, Sealed(0, Lie), InPlain(Lie), InPlain(Malformed),
     [InPlain(Lie) EXCEPT !.code = 201],
     InPlain([Lie EXCEPT !.headers = [n \in {"h"} |-> "object"]]),
     [InPlain(Lie) EXCEPT !.envelope = "part"],
     [InPlain(Lie) EXCEPT !.encrypted = Absent],
     [Sealed(0, Lie) EXCEPT !.encrypted = Malformed]}

-----------------------------------------------------------------------------
(* Attestations.                                                           *)

Hex(digits, zeros) == [digits |-> digits, zeros |-> zeros, styled |-> FALSE]
Styled(text) == [text EXCEPT !.styled = TRUE]

D1 == Hex("d1", 0)
D2 == Hex("d2", 1)
Cut == Hex("cut", 0)
MCFullDigests == {D1, D2}

App(packages, digests) == [packages |-> packages, digests |-> digests]
GoodApp == App({"app"}, {D1})

GoodRecord ==
    [challenge |-> "c1", attestationLevel |-> 1, keymasterLevel |-> 2,
     root |-> [locked |-> TRUE, verified |-> TRUE],
     teeApp |-> NoApp, softwareApp |-> GoodApp]

Cert(key, signer, serial, record) ==
    [key |-> key, signer |-> signer, inTime |-> TRUE, serial |-> serial, record |-> record]

Leaf == Cert("leaf", "ca", Hex("s1", 1), GoodRecord)
Ca == Cert("ca", "google", Hex("s2", 0), NoRecord)
Root == Cert("google", "google", Hex("s3", 0), NoRecord)
GoodChain == <<Leaf, Ca, Root>>

Records ==
    {GoodRecord, NoRecord,
     [GoodRecord EXCEPT !.attestationLevel = 0], [GoodRecord EXCEPT !.keymasterLevel = 0],
     [GoodRecord EXCEPT !.root = NoRoot],
     [GoodRecord EXCEPT !.root.locked = FALSE], [GoodRecord EXCEPT !.root.verified = FALSE],
     [GoodRecord EXCEPT !.softwareApp = NoApp],
     [GoodRecord EXCEPT !.teeApp = App({"mod"}, {D1})],
     [GoodRecord EXCEPT !.teeApp = App({"mod", "app"}, {D1}), !.softwareApp = NoApp]}
    \cup {[GoodRecord EXCEPT !.softwareApp = App({"app"}, s)] :
             s \in {{}, {D2}, {D1, D2}, {Cut}, {Hex("d2", 0)}}}

MCChains ==
    {[GoodChain EXCEPT ![1].record = r] : r \in Records}
    \cup {[GoodChain EXCEPT ![i].inTime = FALSE] : i \in 1..3}
    \cup {[GoodChain EXCEPT ![i].signer = "else"] : i \in 1..3}
    \cup {[GoodChain EXCEPT ![i] = Unreadable] : i \in 1..3}
    \cup {[GoodChain EXCEPT ![2].serial = Hex("s1", z)] : z \in 0..1}
    \cup {<<Leaf>>, <<Leaf, Ca>>, <<[Root EXCEPT !.record = GoodRecord]>>,
          <<[Leaf EXCEPT !.signer = "google"], Root>>,
          <<[Leaf EXCEPT !.signer = "own"], [Root EXCEPT !.key = "own", !.signer = "own"]>>,
          <<Leaf, Ca, [Root EXCEPT !.signer = "own"]>>}

-----------------------------------------------------------------------------
(* Environments.                                                           *)

Nothing == [v \in Names |-> Unset]

HostEntry == Entry(1, "*", Host("h6", 443), <<>>)

\* For calls: the rules, and one call per window.
GatewayOnly ==
    [Nothing EXCEPT !.ALLOWED_ROUTES = GoodRoutes, !.ALLOWED_TARGET_HOSTS = {HostEntry}]

ForUrls == [GatewayOnly EXCEPT !.ALLOW_HTTP_UPSTREAM = TRUE]
ForContents == [GatewayOnly EXCEPT !.THROTTLE_LIMIT = Spaces]
ForAnswers == [GatewayOnly EXCEPT !.THROTTLE_LIMIT = 1]
ForPlain == {[GatewayOnly EXCEPT !.ENCRYPT_RESPONSE = v] : v \in {FALSE, Malformed, Empty}}

Attesting ==
    [Nothing EXCEPT !.NODE_ENV = "production",
                    !.ATTESTATION_PACKAGE_NAME = "app",
                    !.ATTESTATION_SIGNING_CERT_SHA256 = {D1},
                    !.AEGIS_DEVICE_POLICY = "report"]

ForChains ==
    {Attesting, Nothing,
     [Attesting EXCEPT !.NODE_ENV = "test", !.AEGIS_EMULATOR_MODE = TRUE],
     [Attesting EXCEPT !.ATTESTATION_PACKAGE_NAME = Unset, !.AEGIS_PACKAGE_NAME = "app"],
     [Attesting EXCEPT !.ATTESTATION_PACKAGE_NAME = Spaces, !.AEGIS_PACKAGE_NAME = "app"],
     [Attesting EXCEPT !.ATTESTATION_PACKAGE_NAME = Empty, !.AEGIS_PACKAGE_NAME = "app"],
     [Attesting EXCEPT !.ATTESTATION_REVOKED_SERIALS = Empty,
                       !.AEGIS_REVOKED_SERIALS = {Styled(Hex("s1", 0))}]}
    \cup {[Attesting EXCEPT !.ATTESTATION_SIGNING_CERT_SHA256 = v] :
             v \in {Empty, Spaces, {}, {Styled(D1), Styled(D2)}, {D1, Cut}}}
    \cup {[Attesting EXCEPT !.ATTESTATION_ALLOW_SOFTWARE = v, !.AEGIS_EMULATOR_MODE = w] :
             v \in {FALSE, TRUE, Malformed, Empty}, w \in {Unset, TRUE, Malformed}}
    \cup {[Attesting EXCEPT !.ATTESTATION_REVOKED_SERIALS = v] :
             v \in {{Hex("s1", 2)}, {Styled(Hex("s1", 0)), Hex("s9", 0)}, {Hex("s2", 1)}}}

\* Only started, or refused.
ForStart ==
    {[Nothing EXCEPT !.ALLOWED_ROUTES = {e}] : e \in BadRoutes}
    \cup {[Nothing EXCEPT !.ALLOWED_TARGET_HOSTS = {e}] : e \in GoodRoutes}
    \cup {[Nothing EXCEPT ![v] = n] : v \in {"THROTTLE_LIMIT", "UPSTREAM_TIMEOUT_MS"},
                                      n \in {0, 1, Malformed, Empty}}
    \cup {[Nothing EXCEPT !.ATTESTATION_DEVICE_POLICY = v, !.AEGIS_DEVICE_POLICY = w] :
             v, w \in {Unset, Empty, "report", "required", Malformed}}
    \cup {[Nothing EXCEPT !.ATTESTATION_KV_REST_URL = v, !.AEGIS_KV_REST_URL = w,
                          !.ATTESTATION_KV_REST_TOKEN = x] :
             v, w \in {Unset, Empty, Spaces, "url"}, x \in {Unset, "token"}}

MCEnvironments ==
    {ForUrls, ForContents, ForAnswers} \cup ForPlain \cup ForChains \cup ForStart

ACall(p, a, sealed) == [payload |-> p, from |-> a, sealed |-> sealed, client |-> "web"]

\* From one place by every client, and from every place by one.
CallsForAnswers ==
    {ACall(Good, a, TRUE) : a \in MCAddresses}
    \cup {[ACall(Good, FirstAddress, s) EXCEPT !.client = k] : s \in BOOLEAN, k \in C!Kinds}

MCCalls(e) ==
    CASE e = ForUrls     -> {ACall(p, FirstAddress, TRUE) : p \in ByUrl}
      [] e = ForContents -> {ACall(p, FirstAddress, TRUE) : p \in ByContent}
      [] e = ForAnswers  -> CallsForAnswers
      [] e \in ForPlain  -> {ACall(Good, FirstAddress, s) : s \in BOOLEAN}
      [] OTHER           -> {}

MCMaxCalls(e) == IF e = ForAnswers THEN 2 ELSE 1

MCOffers(e) ==
    IF e \in ForChains THEN [chain : MCChains, challenge : {"c1", "c2"}] ELSE {}
=============================================================================
