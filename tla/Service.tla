------------------------------ MODULE Service -------------------------------
(***************************************************************************)
(* The service as its operator and one client see it: it starts with an    *)
(* environment, or fails to; the client calls the gateway, one call at a   *)
(* time, from any of its addresses; a device offers its attestation.       *)
(*                                                                         *)
(* The module composes the pure parts: the settings, the rate limiter's    *)
(* key, the checks of a payload, the request that is sent upstream, the    *)
(* headers that come back, and the client's reading of the answer.  What   *)
(* interleaves inside them is modelled elsewhere: Gateway, RateLimit,      *)
(* Attestation and KeyStore.                                               *)
(*                                                                         *)
(* The upstream, and what lies between client and gateway, are external.   *)
(* The latter may lose an answer, or put another one in its place: an      *)
(* error page, a plain answer, an answer that it has kept (see Foreign).   *)
(* Calls, MaxCalls and Offers bound what is tried in the life of a         *)
(* process.  History variable: tried, the calls per network.               *)
(***************************************************************************)
EXTENDS Forwarding, ChainVerification, ClientAddress

CONSTANTS Absent, Failed, NoReply, NoRequest,
          DefaultLimit, DefaultTimeout,   \* of the settings
          Environments, Addresses,
          Calls(_),    \* the calls to try under an environment: payload, from,
                       \* sealed, client
          MaxCalls(_), \* and how many of them in the life of a process
          Offers(_),   \* the attestations: chain, challenge
          Replies,     \* what the upstream answers: status, headers, data
          Foreign      \* answers that are not the gateway's

C == INSTANCE Clients

\* What becomes of an answer of the upstream.
PassedOn(reply) == [reply EXCEPT !.headers = SanitizeResponseHeaders(@)]

\* A hexadecimal text.
IsHex(t) == t \in [digits : {t.digits}, zeros : Nat, styled : BOOLEAN]

\* Every variable has a value, and no policy is mistaken for an error.
ASSUME EnvironmentsAssumption ==
    \A e \in Environments :
        /\ Names \subseteq DOMAIN e
        /\ ~PolicyFails(e) => PolicyOf(e) # Thrown
        /\ \A name \in {"ATTESTATION_SIGNING_CERT_SHA256", "AEGIS_SIGNING_CERT_SHA256",
                        "ATTESTATION_REVOKED_SERIALS", "AEGIS_REVOKED_SERIALS"} :
              e[name] \in Blank \/ \A t \in e[name] : IsHex(t)
        /\ e.ALLOWED_ROUTES \in Blank \/
              \A r \in e.ALLOWED_ROUTES : r.path \in Seq(Seq(Characters))

ASSUME OffersAssumption ==
    \A e \in Environments : \A o \in Offers(e) :
        /\ o.chain \in Seq({o.chain[i] : i \in DOMAIN o.chain})
        /\ \A i \in DOMAIN o.chain :
              o.chain[i] # Unreadable => IsHex(o.chain[i].serial)
        /\ o.chain # <<>> /\ o.chain[1] # Unreadable /\ o.chain[1].record # NoRecord =>
              LET record == o.chain[1].record
              IN  /\ record.attestationLevel \in Nat /\ record.keymasterLevel \in Nat
                  /\ \A app \in {record.teeApp, record.softwareApp} \ {NoApp} :
                        \A d \in app.digests : IsHex(d) /\ d.styled = FALSE

ASSUME DefaultsAssumption == DefaultLimit \in Nat \ {0} /\ DefaultTimeout \in Nat \ {0}

ASSUME CallsAssumption ==
    \A e \in Environments : \A c \in Calls(e) :
        /\ IsPayload(c.payload)
        /\ c.payload.url \notin {Empty, Malformed} => IsUrl(c.payload.url)
        /\ c.sealed \in BOOLEAN /\ c.client \in C!Kinds /\ c.from \in Addresses

ASSUME AddressesAssumption == \A a \in Addresses : IsAddress(a)

\* An answer has its three parts, and is no mark; a seal of a call (keys from 1)
\* can be made by nobody but the gateway.
ASSUME AnswersAssumption ==
    /\ Absent \notin BOOLEAN
    /\ NoReply \notin Replies
    /\ \A r \in Replies :
          DOMAIN r = {"status", "headers", "data"} /\ PassedOn(r) # Malformed
    /\ \A a \in Foreign : a.envelope = "whole" => a.key = 0

VARIABLES env, mode, settings,
          call, calls,
          last,      \* the last sealed answer of the gateway
          hits,      \* the rate limiter's counters in their windows
          tried,
          offered    \* the last attestation, and its verdict

vars == <<env, mode, settings, call, calls, last, hits, tried, offered>>

Idle == [pc |-> "idle"]
NothingOffered == [code |-> "none"]

-----------------------------------------------------------------------------
(* Start and stop.                                                         *)

ListOf(raw) == IF raw \in Blank THEN {} ELSE raw

\* Everything that the constructors read, with Thrown where one of them fails.
SettingsOf(e) ==
    [rules     |-> RulesFromConfig(ListOf(e.ALLOWED_TARGET_HOSTS), ListOf(e.ALLOWED_ROUTES)),
     allowHttp |-> StrictBoolean(e.ALLOW_HTTP_UPSTREAM, FALSE),
     encrypt   |-> StrictBoolean(e.ENCRYPT_RESPONSE, TRUE),
     limit     |-> PositiveInteger(e.THROTTLE_LIMIT, DefaultLimit),
     timeout   |-> PositiveInteger(e.UPSTREAM_TIMEOUT_MS, DefaultTimeout),
     policy    |-> SafePolicyFromConfig(e),
     device    |-> DevicePolicyFromConfig(e),
     store     |-> SafeKvStoreFromConfig(e)]

Usable(s) == \A f \in DOMAIN s : s[f] # Thrown

\* The operator edits the environment of a process that is not running.
Configure ==
    /\ mode # "up"
    /\ mode' = "down"
    /\ env' \in Environments
    /\ settings' = SettingsOf(env')
    /\ UNCHANGED <<call, calls, last, hits, tried, offered>>

\* A constructor that throws ends the process.
Start ==
    /\ mode = "down"
    /\ mode' = IF Usable(settings) THEN "up" ELSE "failed"
    /\ UNCHANGED <<env, settings, call, calls, last, hits, tried, offered>>

\* The process ends, its counters with it, and a call that it handles is cut off.
Stop ==
    /\ mode = "up"
    /\ mode' = "down"
    /\ hits' = [k \in {} |-> 0]
    /\ tried' = [n \in DOMAIN tried |-> 0]
    /\ call' = Idle
    /\ last' = NoReply
    /\ calls' = 0
    /\ offered' = NothingOffered
    /\ UNCHANGED <<env, settings>>

-----------------------------------------------------------------------------
(* A call.                                                                 *)

Begin(c) ==
    /\ mode = "up"
    /\ call = Idle
    /\ calls < MaxCalls(env)
    /\ calls' = calls + 1
    /\ call' = [pc |-> "sent", key |-> calls', payload |-> c.payload, from |-> c.from,
                sealed |-> c.sealed, client |-> c.client, request |-> NoRequest, reply |-> NoReply, answer |-> NoReply,
                result |-> Failed]
    /\ offered' = NothingOffered
    /\ UNCHANGED <<env, mode, settings, last, hits, tried>>

ErrorAnswer ==
    [code |-> 400, encrypted |-> Absent, envelope |-> "none", key |-> 0, content |-> Malformed]

Answered(answer) == [call EXCEPT !.pc = "answered", !.answer = answer]

Hits(key) == IF key \in DOMAIN hits THEN hits[key] ELSE 0

\* The limiter counts every call, and stops counting where it makes no difference.
CountedAs(count) == IF count > settings.limit THEN count ELSE count + 1

Count ==
    LET key == ClientIpKey(call.from)
    IN  /\ hits' = [k \in DOMAIN hits \cup {key} |->
                       IF k = key THEN CountedAs(Hits(k)) ELSE hits[k]]
        /\ tried' = [tried EXCEPT ![Network(call.from)] = CountedAs(@)]

Arrived == call.pc = "sent" /\ UNCHANGED <<env, mode, settings, calls, last, offered>>

\* 429.
Limited ==
    /\ Arrived
    /\ Count
    /\ Hits(ClientIpKey(call.from)) >= settings.limit
    /\ call' = Answered(ErrorAnswer)

ToSend == Forward(call.payload, settings.rules, settings.allowHttp)

\* parsePayload comes first.
Objection == ~(PayloadFits(call.payload) /\ ToSend # Thrown)

\* 400.
Refused ==
    /\ Arrived
    /\ Count
    /\ Hits(ClientIpKey(call.from)) < settings.limit
    /\ Objection
    /\ call' = Answered(ErrorAnswer)

Forwarded ==
    /\ Arrived
    /\ Count
    /\ Hits(ClientIpKey(call.from)) < settings.limit
    /\ ~Objection
    /\ call' = [call EXCEPT !.pc = "upstream", !.request = ToSend]

Proceed(pc, next) ==
    /\ call.pc = pc
    /\ call' = next
    /\ UNCHANGED <<env, mode, settings, calls, last, hits, tried, offered>>

UpstreamReplies(r) == Proceed("upstream", [call EXCEPT !.pc = "replied", !.reply = r])

\* 502 or 504; the upstream may have handled the request all the same.
UpstreamFails == Proceed("upstream", Answered(ErrorAnswer)) \/ Proceed("replied", Answered(ErrorAnswer))

\* Sealed with the key of the call, unless ENCRYPT_RESPONSE is off.
Response(content) ==
    IF settings.encrypt
    THEN [code |-> 200, encrypted |-> TRUE, envelope |-> "whole", key |-> call.key, content |-> content]
    ELSE [code |-> 200, encrypted |-> FALSE, envelope |-> "none", key |-> 0, content |-> content]

Respond ==
    LET answer == Response(PassedOn(call.reply))
    IN  /\ call.pc = "replied"
        /\ call' = Answered(answer)
        /\ last' = IF settings.encrypt THEN answer ELSE last
        /\ UNCHANGED <<env, mode, settings, calls, hits, tried, offered>>

\* Something between the two answers in place of the gateway, or loses the answer.
\* If the gateway still handles the call, what comes of that reaches nobody.
Replaced(answer) ==
    \E pc \in {"sent", "upstream", "replied", "answered"} : Proceed(pc, Answered(answer))

Receive ==
    Proceed("answered",
            [call EXCEPT !.pc = "ended",
                         !.result = C!Received(call.client, call.answer, call.key,
                                               call.sealed)])

\* The application has seen the result.
Done == Proceed("ended", Idle)

\* The window of a client's counter ends.
WindowEnds(a) ==
    /\ ClientIpKey(a) \in DOMAIN hits
    /\ hits' = [k \in DOMAIN hits \ {ClientIpKey(a)} |-> hits[k]]
    /\ tried' = [tried EXCEPT ![Network(a)] = 0]
    /\ UNCHANGED <<env, mode, settings, call, calls, last, offered>>

-----------------------------------------------------------------------------
(* An attestation, once its challenge is consumed (see Attestation).       *)

Offer(o) ==
    /\ mode = "up"
    /\ call = Idle
    /\ offered' = [chain |-> o.chain, challenge |-> o.challenge,
                   code  |-> IF settings.policy.configured
                             THEN Verdict(o.chain, o.challenge, settings.policy)
                             ELSE "503"]
    /\ UNCHANGED <<env, mode, settings, call, calls, last, hits, tried>>

-----------------------------------------------------------------------------

Init ==
    /\ env \in Environments
    /\ mode = "down"
    /\ settings = SettingsOf(env)
    /\ call = Idle
    /\ calls = 0
    /\ last = NoReply
    /\ hits = [k \in {} |-> 0]
    /\ tried = [n \in {Network(a) : a \in Addresses} |-> 0]
    /\ offered = NothingOffered

Next ==
    \/ Configure \/ Start \/ Stop
    \/ \E c \in Calls(env) : Begin(c)
    \/ Limited \/ Refused \/ Forwarded
    \/ \E r \in Replies : UpstreamReplies(r)
    \/ UpstreamFails \/ Respond \/ Receive \/ Done
    \/ \E answer \in Foreign \cup ({last} \ {NoReply}) : Replaced(answer)
    \/ \E a \in Addresses : WindowEnds(a)
    \/ \E o \in Offers(env) : Offer(o)

Spec == Init /\ [][Next]_vars

-----------------------------------------------------------------------------
(* Properties.                                                             *)

\* Types of all variables; a process that runs has usable settings.
TypeOK ==
    /\ env \in Environments
    /\ mode \in {"down", "failed", "up"}
    /\ mode = "up" =>
          /\ settings.rules \in SUBSET [method : AllowedMethods \cup {"*"}, prefix : BOOLEAN,
                                        host : {r.host : r \in settings.rules},
                                        path : {r.path : r \in settings.rules}]
          /\ settings.allowHttp \in BOOLEAN /\ settings.encrypt \in BOOLEAN
          /\ settings.limit \in Nat \ {0} /\ settings.timeout \in Nat \ {0}
          /\ settings.device \in {"required", "report"}
          /\ settings.store \in {"memory", "upstash"}
    /\ call.pc \in {"idle", "sent", "upstream", "replied", "answered", "ended"}
    /\ calls \in Nat
    /\ DOMAIN hits \subseteq {ClientIpKey(a) : a \in Addresses}
    /\ \A k \in DOMAIN hits : hits[k] \in Nat
    /\ tried \in [{Network(a) : a \in Addresses} -> Nat]

\* The path of a rule, segment by segment: what comes before its last slash or
\* star must be there in whole, and after a slash something must follow.
Covers(rule, pathname) ==
    LET base == IF Last(rule.path) = <<>> THEN Front(rule.path) ELSE rule.path
    IN  IF rule.prefix
        THEN /\ IsPrefix(base, pathname)
             /\ Last(rule.path) = <<>> => Len(pathname) > Len(base)
        ELSE pathname = rule.path

\* A request goes upstream only if a rule covers the path that is sent, segment
\* by segment and after dot segments are resolved, for its method, at its host;
\* and a payload that a rule covers is not refused for its path (matchesPath
\* compares characters).
RulesMeanSegments ==
    call.pc = "sent" /\ call.payload.url # Malformed /\ call.payload.url # Empty =>
        LET url  == call.payload.url
            path == Pathname(url.path)
            covered == \E r \in settings.rules :
                          /\ r.host = UrlHost(url)
                          /\ r.method \in {"*", HttpMethod(call.payload)}
                          /\ Covers(r, path)
            encoded == \E i \in DOMAIN path : "%2f" \in ToSet(path[i])
        IN  Allowed(settings.rules, HttpMethod(call.payload), url) <=> covered /\ ~encoded

IsSent == call.pc \in {"upstream", "replied"}

\* The headers that the client wrote, in whatever shape.
Written(header) == {Pairs(header)[i] : i \in DOMAIN Pairs(header)}

\* A header is sent upstream if and only if the client wrote it, it is not one
\* that clients must not control, and no Connection header, before or after it
\* and in any shape or spelling, names it.
HeadersClean ==
    IsSent =>
        \A p \in Written(call.payload.header) :
            p.key \in DOMAIN call.request.headers <=>
                /\ p.key.word \notin BlockedHeaders \cup ForwardedFamily
                /\ \A c \in Written(call.payload.header) :
                      c.key.word = "connection" => p.key.word \notin c.value.items

\* What is sent keeps the limits that parsePayload sets, although the shapes
\* that it checks are taken apart again by forward, and a text is parsed only
\* there.  The exception is an object with both Key and Value as the header:
\* checked as two headers of these names, it is sent as one named by Key.
SentAsChecked ==
    IsSent =>
        LET r == call.request
            h == call.payload.header
        IN  /\ \A k \in DOMAIN r.headers :
                  /\ r.headers[k].length <= MaxValue
                  /\ k.length <= MaxName \/ (h.shape = "object" /\ h.entries[1].kind = "pair")
            /\ r.body.kind = "value" \/ r.body.parses => r.body.depth <= MaxDepth
            /\ ParametersFit(r.params)

\* An answer of the upstream leaves the gateway unsealed only if the setting is
\* exactly false: no misspelling of it turns sealing off.
PlainOnlyByChoice ==
    call.pc = "answered" /\ call.reply # NoReply /\ call.answer \notin Foreign
        /\ call.answer.encrypted = FALSE
        => env.ENCRYPT_RESPONSE = FALSE

\* An answer that the gateway gives is lost on no client: what the upstream
\* answered reaches every one of them, all alike, unless its status is none of
\* HTTP, or the client insists on a seal that the gateway is told to leave out.
Delivered ==
    /\ call.pc = "answered" /\ call.reply # NoReply
    /\ call.answer.code = 200 /\ call.answer \notin Foreign
    /\ call.answer # last \/ last.key = call.key
    /\ call.reply.status \in 100..599
    /\ call.sealed => settings.encrypt
    => \A kind \in C!Kinds :
          C!Received(kind, call.answer, call.key, call.sealed) = PassedOn(call.reply)

\* However a client changes its address within its network (the host part of
\* IPv6, the textual form, IPv4 mapped into IPv6), its calls are counted
\* together, and with nobody else's.
OneCounterPerNetwork ==
    mode = "up" => \A a \in Addresses : Hits(ClientIpKey(a)) = tried[Network(a)]

\* What a setting is when an empty one counts as unset.
Emptied(e) == [v \in DOMAIN e |-> IF e[v] = Empty THEN Unset ELSE e[v]]

\* docs/configuration.md: "Empty values are treated as unset."  That holds of all
\* settings but the device policy, which an empty value can only make stricter.
EmptyIsUnset ==
    mode = "down" =>
    LET plain == SettingsOf(Emptied(env))
    IN  /\ \A f \in DOMAIN settings \ {"device"} : settings[f] = plain[f]
        /\ settings.device \in {plain.device, "required"}

\* The setting that counts of a variable and its alias.
Effective(e, name, alias) == IF e[name] \in {Unset, Empty} THEN e[alias] ELSE e[name]

Package(e) == Effective(e, "ATTESTATION_PACKAGE_NAME", "AEGIS_PACKAGE_NAME")
Signers(e) == Effective(e, "ATTESTATION_SIGNING_CERT_SHA256", "AEGIS_SIGNING_CERT_SHA256")
Revoked(e) == Effective(e, "ATTESTATION_REVOKED_SERIALS", "AEGIS_REVOKED_SERIALS")

\* From a root of Google, down a chain of signatures by certificates that are
\* valid and not revoked, ...
GenuineChain(e, chain) ==
    /\ Len(chain) >= 2
    /\ \A i \in DOMAIN chain : chain[i] # Unreadable /\ chain[i].inTime
    /\ chain[Len(chain)].key \in GoogleRoots
    /\ \A i \in 1 .. Len(chain) - 1 : chain[i].signer = chain[i + 1].key
    /\ chain[Len(chain)].signer = chain[Len(chain)].key
    /\ Revoked(e) \in Blank \/ \A i \in DOMAIN chain, t \in Revoked(e) :
                                   t.digits # chain[i].serial.digits

\* ... to a key in hardware, made on a locked and verified device ...
GenuineDevice(record, challenge) ==
    /\ record # NoRecord
    /\ record.challenge = challenge
    /\ record.attestationLevel >= 1 /\ record.keymasterLevel >= 1
    /\ record.root # NoRoot /\ record.root.locked /\ record.root.verified

\* ... by the configured application, all of whose signers are configured.
GenuineApp(e, app) ==
    /\ app # NoApp /\ app.digests # {}
    /\ Package(e) \in app.packages
    /\ \A d \in app.digests : \E t \in Signers(e) : t.digits = d.digits /\ t.zeros = d.zeros

\* Settings that are whole, and loosen nothing.
SoundSettings(e) ==
    /\ Package(e) \notin Blank
    /\ Signers(e) \notin Blank
    /\ \A t \in Signers(e) : [t EXCEPT !.styled = FALSE] \in FullDigests
    /\ \A flag \in {"ATTESTATION_ALLOW_SOFTWARE", "AEGIS_EMULATOR_MODE"} :
          e[flag] \in Blank \cup {FALSE}

\* An attestation as the documentation describes it.
Genuine(e, chain, challenge) ==
    LET record == chain[1].record
    IN  /\ SoundSettings(e)
        /\ GenuineChain(e, chain)
        /\ GenuineDevice(record, challenge)
        /\ GenuineApp(e, IF record.teeApp # NoApp THEN record.teeApp ELSE record.softwareApp)

\* In production a device is accepted if and only if its attestation is genuine,
\* whatever the settings are: a misspelled, empty, doubled or half-finished one
\* disables the endpoints, and never loosens a check.
AcceptedIfGenuine ==
    offered # NothingOffered /\ InProduction(env) =>
        (offered.code = "ok" <=> Genuine(env, offered.chain, offered.challenge))

RelayOf == INSTANCE Relay WITH
    Results <- {Failed} \cup {PassedOn(r) : r \in Replies}
                   \cup ({a.content : a \in Foreign} \ {Malformed}),
    status  <- CASE call.pc = "idle" -> "idle" [] call.pc = "ended" -> "ended" [] OTHER -> "pending",
    sealed  <- IF call.pc = "idle" THEN TRUE ELSE call.sealed,
    reply   <- IF call.pc = "idle" THEN NoReply ELSE call.reply,
    outcome <- IF call.pc = "idle" THEN Failed ELSE call.result

\* The call as the application sees it: it ends with what the upstream answered
\* to this call, or fails, although answers are lost, replaced or repeated.
ImplementsRelay == RelayOf!Spec
=============================================================================
