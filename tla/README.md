# A TLA+ model of the encryption gateway

The encryption gateway is a NestJS service. A client seals a request with a fresh AES
key, seals the AES key with the gateway's RSA key, and posts both; the gateway decrypts,
checks freshness and an allow list, forwards the request to an upstream API, and seals the
answer with the client's AES key. Beside it there is a device attestation API (challenges,
enrolment, verification) over a key/value store, and a rate limiter in front of everything.

The directory holds TLA+ modules translated from `src/`, TLC configurations for small
instances, and proofs for TLAPS. `PROJECT.json` lists the components, the runs, the source
lines that each definition stands for, the hazards, the findings and the theorems.

## 1. Inventory

Node runs JavaScript to completion between awaits, so a method without `await` is one atomic
step. What interleaves is the order of the calls, the clock, the awaits (key/value store,
upstream), and, in a deployment with several instances, the processes.

| Component | State | Operations | Interacts with | What makes it correct |
|---|---|---|---|---|
| Replay protection, `common/replay-protection.service.ts` | `seen`: nonce -> expiry, in insertion order | `assertFresh` (sweep, check, set, evict one) | called by the gateway endpoint after decryption, before forwarding | bounded cache; a nonce is not accepted twice while it is remembered, and is forgotten early only under a burst; no fresh request refused |
| Rate limiter, `common/rate-limit.guard.ts` | `hits`: key -> count and window end; `nextSweepAt` | `canActivate` (sweep, choose key, count, allow or 429) | guards every route but `/health` and `/public-key` | bounded table; windows kept until their end; finished windows removed; bounded traffic per client |
| Key/value port and in-process store, `attestation/kv.store.ts` | `entries`: key -> value and expiry, in insertion order | `get`, `set`, `setIfAbsent`, `getDelete`, `delete`, with expiry and eviction | used by challenges and devices | atomic operations, nothing expired is returned, bounded, loses entries only when full |
| Upstash store, same file | none here; the remote store | the same five, one REST call each, five second timeout | shared by all instances | a command takes effect at most once; no request waits for ever |
| Attestation endpoints, `attestation.controller.ts`, `challenge.store.ts`, `device.registry.ts` | in the store | challenge, enroll, verify | handlers interleave at every await | a challenge is used once, for its purpose, in its minute; a device id is bound once |
| Device signature guard, `device-signature.guard.ts` | none | `canActivate` | same store | as above; policy `report` lets through but marks as unverified |
| Attestation service, `attestation.service.ts`, `google-roots.ts` | trusted roots, policy | `verify`, `verifySignature` | called by enroll, verify, guard | accepts only chains that satisfy every check |
| Attestation configuration, `attestation.module.ts` | none | policy and store chosen from the environment | at startup | misconfiguration disables, never weakens |
| Gateway endpoint, `proxy/proxy.controller.ts` | none | decrypt, `assertFresh`, forward, respond | replay, encryption, proxy | one forward per accepted nonce; the answer is sealed with the key of its own request |
| Upstream proxy, `proxy/proxy.service.ts` | policy, limits | `forward`: method, URL, allow list, headers, body, call | upstream API | nothing outside the allow list is called; every request ends |
| Target policy, `proxy/target-policy.ts` | rules | parse, `assertAllowed` | proxy | prefix rules match whole segments |
| Encryption service, `encryption/` | `keys`, primary first; `keys/*.pem` on disk | load or generate at startup, `decrypt`, `encryptResponse`, public key info | disk, other instances on it | published key accepts what clients seal; rotation never locks out old clients |
| Payload, client address, configuration helpers, `common/` | none | pure functions | everyone | bounded depth; one key per IPv6 /64; invalid settings stop the process |
| Clients, `clients/` | embedded public key and, optionally, its id | seal, post, open | the gateway | the answer is opened with the key of its own request, never taken in plain unasked |
| Inspectors, scripts, wiring | none of interest | | | |

Behaviours that are hard here: caches that are cleaned lazily (an entry can be expired and
present), a Map whose order is that of first insertion, fixed windows with a shared overflow
counter, requests that race for a challenge or a device id, store commands that outlive their
request, restarts that empty an in-process store, instances with separate memories.

## 2. Modules

`InsertionMap` models JavaScript's Map (external, from its uses): a finite function whose
entries also say which keys are older. It is shared by the services that depend on the
insertion order.

| Module | Models | State and actions |
|---|---|---|
| `NonceCache` | the parts of `assertFresh` that work on the Map of nonces | no variables: `Sweep`, `Known`, `Remember`, `Bounded`, `InWindow` are functions of a cache and a time, used by the two modules below |
| `ReplayProtection` | `ReplayProtectionService` | `seen`, `now`, `required`; one action per way `assertFresh` ends: `Skip`, `RejectNonce`, `RejectTimestamp`, `RejectExpired`, `RejectReplayed`, `Accept`. The sweep is part of the last two, also of a refusal, as in the code. `lastUse` and `since` are history. |
| `ReplayHistory` | the same with a full record of acceptances | adds `accepted` |
| `Gateway` | `ProxyController.handleGateway` with `assertFresh` and `ProxyService.forward`, on several instances | `seen` per instance, a slot per attempt (`req`). `HandleGateway` is everything up to the await of the upstream call: `Undecryptable`, `Untimely`, `Replayed`, `Disallowed` or `Forward`. `Relay`, `UpstreamFails`, `TimesOut` are the rest of the handler. The timer of a call (`timer`) starts with `Connected`, when the request is sent, and anew with `Heard`, when something of the answer arrives. The upstream runs a job (`UpstreamRuns`) whether or not the attempt still waits, or never (`JobLost`); `Restart` empties one instance. `effects` and `restarts` are history. |
| `RateLimit` | `RateLimitGuard` | `hits`, `nextSweepAt`, `now`; `Allow`, `Refuse`, `Exempt`. `told` and `recent` are history. |
| `RateLimitQuota` | the same as one client sees it | adds `quota` |
| `KeyStore` | the keys of `EncryptionService`, `npm run keygen`, and the rotation of docs/configuration.md | `disk` (two files, each possibly missing or cut off), `config` (the list in the settings), and per process `pc`, `started`, `keys`; `OnModuleInit` is `Load`, `StartFails` or `Generate`, then `OpenFile` and `WriteFile` for each of the two files; `Stop` ends a process anywhere. A run of the script is a process as well: `Keygen` is `KeygenStarts` (its look for files, and the new pair), then the same `OpenFile` and `WriteFile`. `Rotate`, `Correct`, `Retire`, `Release` are the operator. `used`, `raced` and `calm` are history. |
| `MemoryKv` | the methods of `MemoryKvStore` as operators on its Map | no variables, so that other modules can run them inside their steps |
| `MemoryKvStore` | `MemoryKvStore` as a state machine | `Get`, `Set`, `SetIfAbsent`, `GetDelete`, `Delete`, `Tick` |
| `KvStore` | what the `KvStore` interface and its comments promise | the abstract specification that `MemoryKvStore` implements |
| `Attestation` | controller, challenge store, registry, signature guard, over `MemoryKvStore` or Upstash (`store`, chosen at startup) | a slot per request in progress; `Request...` actions start a handler, `Run...` are the store's commands, the others resume a handler after an await; `GiveUp` is the fetch timeout or an error answer |
| `Settings` | `common/config.ts`, `attestation.module.ts` | no variables: the helpers, the attestation policy, the device policy and the choice of the store are functions of an environment |
| `ChainVerification` | `AttestationService.verify` | no variables: the code of the first check that rejects a chain, or "ok" |
| `TargetPolicy` | `proxy/target-policy.ts` | no variables: `RulesFromConfig` and `Allowed`; the parser of URLs is external |
| `Payload` | `common/payload.ts` | no variables: `PayloadFits` and the limits that `Forwarding` uses again |
| `Forwarding` | `ProxyService.forward` without its call | no variables: `Forward` is the request that is sent or `Thrown`, `SanitizeResponseHeaders` what comes back |
| `ClientAddress` | `common/client-ip.ts` | no variables: `ClientIpKey` over the textual forms of an address; `Network` is what an address means, for the property |
| `Clients` | the end of `send` in `clients/web`, `android`, `ios` and `flutter` | no variables: `Opens` and `Complete` are common, `WebReceived`, `AndroidReceived`, `IosReceived` and `FlutterReceived` what each makes of an answer |
| `Service` | the composition of the seven above (`Settings` to `Clients`) as its operator and one client see it | `Configure`, `Start`, `Stop` are the process with its environment (`env`, `mode`, `settings`); a call (`call`) goes through `Begin`, `Limited`, `Refused` or `Forwarded`, `UpstreamReplies` or `UpstreamFails`, `Respond`, and `Receive`; `Replaced` may answer the client in place of the gateway at any time after the request was sent; `Offer` is an attestation. `last` is the answer that can be repeated, `hits` the counters of the rate limiter, `tried` is history. |
| `Relay` | what gateway and client promise an application | the abstract specification that `Service` implements: the upstream handles a call at most once, and the call ends with what the upstream answered, or fails |
| `MC...` | instances for TLC | symmetry sets and the values of constants that are not model values |
| `InsertionMapProofs`, `ReplayProtectionProofs`, `RateLimitProofs`, `ServiceProofs`, `KeyStoreProofs`, `GatewayProofs`, `MemoryKvStoreProofs`, `AttestationProofs` | lemmas and theorems | |

`ReplayProtection` and `Gateway` share `NonceCache`, `MemoryKvStore` and `Attestation` share
`MemoryKv`: a component is translated once, and composed where it is used. `Service` composes the
parts that are pure functions; what interleaves inside them is in the other modules: the window
and the overflow of the limiter in `RateLimit`, the call's timing in `Gateway`, the handlers of an
attestation in `Attestation`.

Operators named as mutants ("Mutant of ...") are never used by a specification. Each is a
plausible bug of the definition that follows it, and is put in its place to see that a
property notices.

### What is abstracted

* Nonces, keys, addresses and challenges are model values. A nonce that fails
  `NONCE_PATTERN` is `BadNonce`, a timestamp that `parseTimestamp` cannot read is
  `BadTimestamp`; everything else is a number.
* `Date.now()` is a counter that never goes back. A clock set back by the operating system
  would make windows and entries last longer; that is not modelled.
* A refused request increments the rate limiter's counter without limit; the model stops at
  `Limit + 1`, from where all values mean the same. `since` stops where it tells nothing apart.
* `bound` in `Attestation` is history: the keys that the device was bound to since
  the request arrived, until its read.
* In `Attestation`, a challenge id stands for its nonce (both are random), a certificate
  chain or signature is the key that made it, and whether it covers the challenge is an outcome.
* In `Gateway` an envelope is its nonce, its timestamp, whether an accepted key opens it and
  whether the checks of `forward` let it pass; `Limited` is the rate limiter's refusal, which
  reaches neither cache nor upstream. Calls are made, and bytes
  arrive, only while the timeout that follows falls within `MaxNow` (`InTheRun`), and `effects`
  saturates above its claimed bound.
* A restart of a process over Upstash leaves commands under way; that is what `GiveUp` does
  to each of its requests, so `Restart` is an action of the in-process store only.
* In `Service` and its parts a text is what the code can tell apart: a header's name is a word,
  whether it has capitals, and its length; a path is its segments, of characters of which ".",
  "*" and an encoded slash matter; a digest or a serial number is its digits, the zeros before
  them and its spelling; an address is its groups as written. Regular expressions are the classes
  they define (`Malformed`, `sendable`). Splitting a list at its commas is left out.
* In `Service` the sealed key of a call is the number of the call in the life of the process: no
  two calls have the same, and something between client and gateway cannot make an answer sealed
  with it, only repeat one. Counters of the limiter stop one above the limit.
* `MemoryKvStore.delete` answers true for an expired entry that lingers, Upstash's `DEL`
  would not; `KvStore` allows both.

## 3. Runs

| Run | Instance | What it shows |
|---|---|---|
| `replay` | 6 nonces for 5 places, skew 2, 4 ticks | `CacheBounded`; `RememberedUnlessBurst`: up to half the capacity of later nonces a nonce is not forgotten. The natural claim "up to the whole capacity" is wrong: a nonce that is used again after it expired, in a cache less than half full, keeps its old place in the Map. `NoEarlyReuse` is the same seen from the caller, `NoFalseReplay` the opposite error. |
| `replay_once` (violation) | 1 nonce | the comment "each nonce can be used once inside the allowed clock window" does not hold: the entry's life counts from the use, the window from the timestamp |
| `gateway` | 2 instances, 2 attempts at a time, 1 restart, 5 envelopes, skew 2, timeout 1, 5 ticks | `EffectsBounded`: the upstream runs an envelope at most three times per life of an instance (tight: the window of a timestamp is two skews long and the life of a nonce one); `SpentWhileWaiting`; `CallsApart`: two calls with one nonce that are in progress at one instance were made a skew apart at least (they may be in progress together, and are here, as a slow answer outlives the life of its nonce) |
| `gateway_live` | 1 instance, 2 attempts, timeout 2, 4 ticks | `Answered`: every request that was forwarded is answered although the upstream is silent from the start, or falls silent in the middle of its answer |
| `rate_limit` | 4 clients, 2 counters and the overflow, limit 2, TTL 3, 6 ticks | `EntriesBounded`, `WindowKept`, `FinishedWindowsGoWithinTTL`, `SlidingBound` (fewer than three limits in any interval of a TTL, which is tight: the run of a client goes from one overflow window to the next and on to a counter of its own) |
| `rate_quota` (violation) | 3 clients, limit 1 | a client gets more than the limit inside the window announced to it when a sweep frees a counter for it |
| `key_store` | 2 instances, a run of the key script, 3 keys, a client with and one without `KeyId` | `NoLockout`: during rotations, redeployments and crashes every instance opens the requests of every released client; `PersistedIdentity`: an instance without configured keys serves the key on disk, and one that loads while nobody is saving a key does so ever after, also when two processes had made one at once before; `IdentityKept` and `PairOnDisk`: no step replaces a key on disk, or leaves a public key beside another private one |
| `service` | 106 environments, each with the calls or attestations that its settings bear on | `AcceptedIfGenuine`: in production the endpoints accept an attestation exactly if it meets the documented conditions, whatever the settings are; `EmptyIsUnset`; `PlainOnlyByChoice`; `RulesMeanSegments`, `HeadersClean`, `SentAsChecked` for what goes upstream; `OneCounterPerNetwork` for the rate limiter; `Delivered`: an answer of the gateway reaches all four clients alike; `ImplementsRelay`: refinement of `Relay`, over a network that loses, replaces and repeats answers |
| `memory_kv` | 4 keys for 3 places, TTLs 0, 1 and none, 3 ticks | `StoreBounded`, and `ImplementsPort`: refinement of `KvStore` with the unexpired entries as the abstract store |
| `attestation` | either store, 2 requests at a time, 2 challenges, 1 device, 1 key, room for 2 entries in process, 2 ticks | `ChallengeUsedOnce`, `ChallengeFresh`, `PurposeKept`, `BoundOnce`, and `VerifiedByBoundKey`: a signature is accepted only by a key that its device was bound to between the arrival of the request and the read of the device, although enrolments, deletions and restarts fall between its two commands. Over the in-process store with expiry, eviction and restarts, and over the shared store whose commands may be late, lost, or run after the handler gave up. `BoundOnce` is claimed for the shared store only, see the next violation. |
| `attestation_live` | either store, 2 requests, 1 challenge | `Answered` under fairness |
| `attestation_eviction` (violation) | 1 request at a time, 3 challenges, 1 device, 2 keys, room for 2 entries | challenges evict an enrolment, after which the device id is bound to another key; the loss in a restart is documented (docs/attestation.md:83), this one is not |

Why the bounds are enough: each is large enough to pass the thresholds in the code. The cache
of five has its half (sweep from the third entry), its limit and one more nonce than fits;
the clock passes a whole window from any use. The windows of `gateway` begin with the run and
end within it, so an envelope meets the window's start, its end and both lives of its nonce.
Two windows of the limiter end within its run, with more clients than counters, so that some
have to use the overflow counter. In `service` the limits of 100 entries, 256 and 8192 characters
and 32 levels are 3, 3, 3 and 2, with inputs on both sides of each; an input varies in one respect
from one that everything lets pass, so that every check is met by something that only it refuses
(paths of up to three segments over seven, of which two are dot segments, one is empty and one has
an encoded slash; headers in up to three entries of every shape; chains of one to three
certificates). An environment likewise varies one group of settings. Two calls in the life of a
process, from nine addresses in six networks, meet a repeated answer and a spent limit.
Two slots give every pairing of handlers, and slots are
reused, so sequences of requests are as long as the challenges or the window last. The bounds
that the code does not have are `MaxNow`, `MaxRestarts` and, in `KeyStore`, the number of keys
(three allow two rotations, each of which meets instances and clients of every age).

Remarks on the code that no run is spent on:

* The comment "sweeping runs at most once per window" (replay-protection.service.ts:84) does not
  describe `sweep`: a cache that is at least half full is swept in every call.
* `UPSTREAM_TIMEOUT_MS` ("backend upstream timeout", docs/configuration.md:20) bounds the silence
  of the upstream, not the call: with `maxRedirects: 0` the timer is that of node's own request,
  which starts when the connection is there and anew with every byte (proxy.service.ts:151). With
  a slow answer a nonce can be used again, at the same instance, while its first call is still in
  progress, although the timeout is shorter than the skew; `CallsApart` is what remains true.
* Two processes that find one empty directory at the same time (first starts, or a first start and
  `npm run keygen`) both generate a key; the one that saves first serves a key that the other has replaced on disk, so it locks out
  its clients when it restarts. `NoLockout` excepts these (`raced`),
  and `PersistedIdentity` the instances that did not load their key from a quiet directory. A crash while `private.pem` is written leaves a file that makes every
  later start fail until an operator removes it, which `StartFails` shows.
* `ATTESTATION_DEVICE_POLICY=` hides its older name (`??` where the other settings have `||`), so
  "Empty values are treated as unset" (docs/configuration.md) is not quite true of it; the result
  can only be the stricter policy, which is what `EmptyIsUnset` says.
* "Invalid values ... stop the process at startup" (docs/configuration.md:36) and "Startup fails if
  this is `true` while `NODE_ENV=production`" (docs/attestation.md:109) are not true of the
  attestation settings: `safePolicyFromConfig` catches the error and disables the endpoints. A
  half-set pair of store settings falls back to memory, also in production.
* `assertHost` drops port 80 as well as 443, and the URL parser drops only that of the scheme: a
  rule for `api:80` allows https on port 443, and https on port 80 matches no rule at all.
* An object with both `Key` and `Value` as the whole `Header` is checked as two headers of these
  names and sent as one named by `Key`, which so escapes the limit on names (the exception in
  `SentAsChecked`). The limit of 100 entries holds per entry of an array: 100 entries of 100 pass.
* An IPv4-mapped address is recognised only if its zeros are written plainly
  (client-ip.ts:16-19); node's `remoteAddress` does.
* A status of the upstream from 600 to 999 is relayed, and every client rejects it.
* The web client sets no timeout and sends neither `Nonce` nor `Timestamp`: with
  `REQUIRE_REQUEST_NONCE` it cannot be used.

Symmetry is used for model values only, and not in the liveness runs.

### Fairness

`attestation_live` assumes that the event loop resumes a handler whose await is settled
(`WF Resume`), that the in-process store answers (its methods return resolved promises), and
that the timer of `AbortSignal.timeout` in `UpstashKvStore.command` fires (`WF GiveUp`). The
remote store is assumed to do nothing.

`gateway_live` assumes that time passes (`WF Tick`), that an attempt to connect succeeds or fails
(`WF ConnectEnds`: the system limits how often it tries; no timer of the gateway does), and that
the timer of a call fires when the upstream has been silent for `UPSTREAM_TIMEOUT_MS`
(`WF TimesOut`). The upstream, and the network behind `Heard`, `UpstreamRuns` and `JobLost`, are
assumed to do nothing. No clock waits for a timer: `Tick` is possible at any time, and a timer may
be late. An upstream that sends a byte now and then for ever is excluded by `InTheRun` in the
model and by `MAX_UPSTREAM_RESPONSE_BYTES` in the code. The safety runs assume no fairness, nor
does `service`: the web client sets no timeout on its call, so nothing in the code makes a call
end whose answer was lost.

## 4. Proofs

`ReplayProtectionProofs` proves, for every set of nonces (also infinite), every skew and every
capacity, from `LimitsAssumption` and `PayloadAssumption` alone:

* `TypeCorrect`, `CacheStaysBounded`, `Remembered`, `NoFalseAlarm`, `ReuseNeedsBurst`.

`RememberedUnlessBurst` is not inductive: whether a nonce survives the next eviction depends on
its place in the Map. The inductive invariant `IInv` adds that an entry is always the expiry of
the last use of its nonce (`EntriesTrue`), and that a nonce which must be remembered is `Near`
enough to the young end (`FarFromEviction`): after k later acceptances either at most k entries
are younger, or the nonce kept an old place, which only happens in a cache that was less than
half full and so has fewer than half the capacity plus k entries now. Both stay clear of the
eviction while 2k is at most the capacity. `InsertionMapProofs` has the lemmas about the Map:
what removing and setting a key preserves, and that a map that is not empty has exactly one
oldest key (by well-founded induction on the number of older keys); and, for sums and texts,
induction and recursion up to a number (`UpTo`, `ByRecursion`).

`ServiceProofs` proves, for every set of environments, calls, attestations, answers and addresses:

* `AttestationsAccepted`, `TypeCorrect`, `PlainByChoice`, `RulesAreSegments`, `HeadersAreClean`,
  `SentIsChecked`, `CountedTogether`, `EmptyCountsAsUnset`, `AnswersAreDelivered`;
* `ImplementsTheRelay`: every step of the service is a step of `Relay`, or changes nothing that an
  application sees.

They assume `ValuesAssumption` (the values that stand for an error, for "any root" and for unset are
not mistaken for others), `EnvironmentsAssumption` (an environment has a value, or Unset, for every
variable, lists of digests and serials are lists of hexadecimal texts, and a route has a path), `OffersAssumption` (a
chain is a sequence of certificates whose fields have the types that the parsers give them),
`DefaultsAssumption` and the limits of `Payload` (positive numbers), `CallsAssumption` (a call has a
payload of some shape, a URL that has a path, a client of the four and an address),
`CharactersAssumption` (a slash separates segments, and is in none), `AddressesAssumption` (an IPv6 address
has eight groups of two bytes; node writes an address that maps IPv4 without padding zeros, which the
code relies on) and `AnswersAssumption` (nobody but the gateway seals with the key of a call).

`Genuine` restates the documentation over the raw settings and the certificates; the code makes
a policy of the settings once, and compares that. `PolicyInProduction` says when there is a policy
and what is in it (only both halves of the identity, in proper form, with every flag off, make
one). `ChainIsGenuine`, `DeviceIsGenuine` and `AppIsGenuine` take the checks of `verify` one by
one under that policy; `Revocation` and `Signing` show that a serial or digest is found whatever
its spelling, and that zeros count for the one and not for the other. `IInv` carries this to
`Spec`: the settings are those of the environment, which changes only while nothing is offered.
`EmptyCountsAsUnset` compares the settings of two environments by the same helpers
(`KeptHelpers`, `EmptiedPolicy`).

The other theorems rest on `CInv`. `Delivered` and the refinement are not inductive: whether a client
that gets an answer gets the answer to its call depends on every answer that something between it and
the gateway may still repeat. `CInv` says that the key of a call is fresh, that the last sealed answer
(`last`) has the key of its call and, if that is the call in progress, tells what the upstream
replied to it (`LastOK`), and that any answer that arrives is foreign, an error, `last`, or the plain
response to its own reply (`AnswerOK`). `SentOK` keeps of a request that it passed every check;
`SentIsChecked` then follows each header from what is sent to the pair it comes from (`SentFromPair`,
for which there must be a last pair of a name, `LastPlaceExists`) and to the check of that pair
(`PairChecked`). `CountersOK` needs that two addresses have the same key if and only if they are of
one network: `KeyIsNetwork`, by the places of the groups on both sides of a "::"
(`ExpandedNumbers`).

`RulesAreSegments` is about two recursive functions, the text of a path and the resolution of its dot
segments. `ByRecursion` shows that such a function exists (by the least number up to which it does
not), and `UpTo` serves as induction over the segments. A text tells its segments, because none has a
slash (`SameSegment`); so a text that ends in a slash begins another exactly if all its segments do
(`TextIsSegments`), which is what a rule means (`MatchesIfCovers`).

`RateLimitProofs` proves, for every set of clients, limit, window and table size, from
`LimitsAssumption` of `RateLimit`:

* `TypeCorrect`, `TableStaysBounded`, `WindowsAreKept`, `WindowsGoWithinTTL`, `SlidingIsBounded`,
  that is all properties of `RateLimit`.

`EntriesBounded` is not inductive: a full table without the overflow counter would grow when
the next client is charged to it. `RoomForOverflow` strengthens it: the counters of clients are
at most one fewer than the table holds. `FinishedWindowsGoWithinTTL` speaks of the table after a
call and needs the time of the last sweep; `SweptInTime` ties it to `nextSweepAt`: every window
in the table ends after that sweep (those that had ended were removed by it, the others were
opened later), and a call never leaves `nextSweepAt` in the past.

`SlidingBound` speaks of the requests of one client in the last TTL, and the model knows only the
windows there are now. `SlidingFits` bounds what the client got through since every time d of that
interval by the counter it is on. With a counter of its own (`OnOwn`) that is what the window has
counted, less the request that opened it if d is later, and at most 2 limits less one more if it is not. On
the overflow counter (`OnShared`) it is what that window has counted, a limit from the window before it
if d is earlier, and less than a limit from a counter of its own before the last sweep; while there is
room in the table there has been no overflow window since that sweep, so whoever gets a counter of
its own comes with less than 2 limits. `SweepFits` and `ChargeFits` show this for the two halves of a call;
`TotalsMore` and `TotalsLater` say what a request and a tick do to the sums of the history.

`KeyStoreProofs` proves, for every set of instances, runs of the key script, clients and keys, from
`KeysAssumption` (the marks for no key, no file and a bad entry are not keys) and
`ScriptsAssumption` (a run of the script is no instance):

* `TypeCorrect`, `NobodyLockedOut`, `IdentityPersists`, `KeyOnDiskStays`, `PublicIsPaired`, that is all properties of `KeyStore`.

`NoLockout` speaks of the instances that are up and of the keys that clients have; whether it
survives a rotation, a release or a start depends on the settings, the disk and the instances that
are still starting. `Inv` says of each: the key of a released client is in the settings or, if there
are none, on disk, and is the one being saved, if any is, but the script may save an unused one beside
the settings (`ClientServed`); a process that saves a key
is alone, and the two files show how far it is (`OneStart`, `SavedPart`). So a step that saves finds
no instance that serves another key. What holds even when two processes have made a key at once (`Shared`) is
that private.pem, once there, stays (`PrivateStays`); hence nobody generates a key any more,
and an instance that loaded one while nobody was saving never sees it replaced (`CalmOK`).

`GatewayProofs` proves, for every finite set of instances and of attempts and every set of
envelopes, from `EnvelopeAssumption` (the types of an envelope), `SettingsAssumption` and
`LimitsAssumption`:

* `TypeCorrect`, `RunsAreBounded`, `NonceIsSpent`, `CallsStartApart`, that is all safety
  properties of `Gateway`.

The last three hold where the cache has room for every nonce (`Roomy`) and requests must have one,
as the properties say. `Spent` keeps the expiry of an attempt's nonce, not only its presence: it
is at least a skew after the attempt began; as a nonce is accepted only when it is not known, a
second call at the instance starts no earlier, which is `CallsApart`. None of the three uses a bound on
how long a call takes. `EffectsBounded` counts what the upstream has run, so
the invariant must count what it still may: `Budget` bounds the sum, for each envelope, of its runs,
of its jobs under way, and of the instances at which it may be accepted now, after one more life
of its nonce, and after two (`Left`). The window of a timestamp is two skews long, so there is no
fourth time. An acceptance turns one chance into a job, as it starts a life of the nonce there; a job
that runs turns into an effect; a restart empties a cache, which gives back at most three chances.

`MemoryKvStoreProofs` proves, for every set of keys and values, every time to live and every
capacity, from `CapacityAssumption`, `ForeverAssumption` and `TTLAssumption`:

* `TypeCorrect`, `StoreStaysBounded`, and `ImplementsKvStore`: every step of the in-process store
  is a step of the abstract port `KvStore`, or changes nothing that it shows.

The port says that an entry which has not expired is lost only to a write that finds `Capacity`
others of its kind. `EvictFacts` shows that the eviction keeps to this: expired entries go first,
and, as the store holds at most `Capacity` entries (`StoreBounded`, part of the invariant), at most
one more has to go. A lookup removes only what has expired (`WriteFacts`, `PutSeen`).

`AttestationProofs` proves, over either store, for every set of requests, challenges, devices and
keys, from `IdsAssumption` (challenges and devices do not share keys of the store, and null is
neither a purpose nor a key), `TimeAssumption`, `StoresAssumption` and those of `MemoryKv`:

* `TypeCorrect`, `ChallengeIsUsedOnce`, `PurposeIsKept`, `DeviceIsBoundOnce`, `BoundKeyVerifies`
  and the action property `ChallengesAreFresh`, that is all safety properties of `Attestation` that
  hold.

A challenge is a token. It is with the request that is about to write it (also with one that was
given up and whose command is still under way), in the store as it was issued, with the one
request that took it, or its nonce is handed out; the invariant says of each place that the token is
in no other (`Apart`, `Granted`, `ChallengesOK`). A device's entry has the key of the last
enrolment that won and does not expire; in the shared store it stays while the device is bound
(`DevicesOK`), so that no conditional set succeeds a second time. A request that has yet to read its
device knows of the key it is bound to (`Learned`), whoever enrols or deletes it meanwhile.

TLC checked each inductive invariant on small instances before they were proved.

Only model-checked: liveness, which is out of the prover's reach. The violations are, by their
nature, counterexamples of TLC.

## 5. Plan

Done: replay protection (model, runs, proofs), rate limiter (model, runs, proofs),
key/value store with its abstract specification, attestation protocol, gateway
endpoint, keys of the encryption service, and the pure parts with their composition, `Service`,
and its abstract specification, `Relay`.

Proved: all safety properties, both refinements and all action properties that hold.

## 6. Not modelled

* Cryptography (`aes.util.ts`, `rsa.util.ts`): computed by node:crypto. A seal is a key number, a
  signature the key that made it.
* The framework's wiring, CORS, body size limits, request objects (class-validator) and `trust
  proxy`: declarations without state; `from` in `Service` is what the framework calls the client's
  address.
* Parsing of certificates and of attestation records (DER): the records are inputs.
* The requests of the mobile clients, which repeat those of the web client (their reading of the
  answers is modelled, because it differs: the web client takes every status of success, the others
  only 200, and Android only headers that are texts or lists of texts); the inspectors, the examples, the mock upstream and the test client,
  which are no part of the service.
* `generate-keys.js --force` and other directories: an operator who replaces keys in use by hand.
* The REST encoding of the Upstash store.
