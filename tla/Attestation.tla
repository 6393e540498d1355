---------------------------- MODULE Attestation ----------------------------
(***************************************************************************)
(* The device attestation endpoints over their key/value store: challenges *)
(* are issued, consumed by enroll, by verify and by routes guarded with    *)
(* RequireDeviceSignature, and devices are enrolled once.                  *)
(*                                                                         *)
(* A request in progress sits in a slot.  Every await of a handler is a KV *)
(* command: the handler asks (ask1, ask2), the store runs the command, the *)
(* handler resumes with the result (got1, got2).  The store "memory" is    *)
(* MemoryKvStore: it always answers, evicts when full, and is lost in a    *)
(* restart.  The store "upstash" is UpstashKvStore: it does not evict, but *)
(* the handler gives up after the fetch timeout (or on an error answer),   *)
(* whether or not the command ran, runs later, or is lost.                 *)
(*                                                                         *)
(* A challenge id stands for its nonce too (both are random and unique).   *)
(* A chain or a signature is the device key that made it; whether it       *)
(* covers the challenge, and is acceptable otherwise, is an outcome.       *)
(*                                                                         *)
(* History variables: issued[c] is what challenge c was issued for, and    *)
(* until when; handedOut[c] how often its nonce was returned by consume;   *)
(* wins[d] the keys of the enrolments of d that succeeded, in order, since *)
(* d was last deleted by an administrator or the store was last lost in a  *)
(* restart; in a request, bound are the keys that its device was bound to  *)
(* at any time from its arrival until it was read.                         *)
(***************************************************************************)
EXTENDS MemoryKv, Sequences

CONSTANTS Requests,      \* slots for requests in progress
          Challenges, UnknownId, Devices, DeviceKeys,
          RoutePurpose,  \* the purpose of the guarded route
          DevicePolicy,  \* "required" or "report"
          Stores,        \* the stores that may be configured
          ChallengeTTL, MaxNow

ASSUME PolicyAssumption == DevicePolicy \in {"required", "report"}
ASSUME StoresAssumption == Stores # {} /\ Stores \subseteq {"memory", "upstash"}
ASSUME TimeAssumption == ChallengeTTL \in Nat \ {0} /\ MaxNow \in Nat

Purposes == {"enroll", "verify", RoutePurpose}

\* Challenges and devices are stored under different prefixes, and null is
\* neither a purpose nor a key.
ASSUME IdsAssumption ==
    /\ Challenges \cap Devices = {}
    /\ UnknownId \notin Challenges \cup Devices
    /\ Null \notin Purposes \cup DeviceKeys

VARIABLES store,       \* the store in use, fixed at startup
          configured,  \* policy.configured, fixed at startup
          entries,     \* the store
          now, req,
          issued, handedOut, wins

history == <<issued, handedOut, wins>>
vars == <<store, configured, entries, now, req, history>>

NotIssued == [purpose |-> "none", until |-> 0]

Free(answer) ==
    [pc |-> "free", kind |-> "none", purpose |-> "none", ch |-> UnknownId,
     dev |-> UnknownId, key |-> UnknownId,
     got |-> Null, nonce |-> FALSE, bound |-> {}, answer |-> answer]

Issued == {c \in Challenges : issued[c] # NotIssued}

-----------------------------------------------------------------------------
(* A request arrives; the handler asks for its first KV command.           *)

\* The key that a device was last bound to, as a set.
BoundKey(d) == IF wins[d] = <<>> THEN {} ELSE {wins[d][Len(wins[d])]}

Start(r, kind, purpose, ch, dev, key) ==
    /\ req[r].pc = "free"
    /\ req' = [req EXCEPT ![r] =
          [pc |-> "ask1", kind |-> kind, purpose |-> purpose, ch |-> ch,
           dev |-> dev, key |-> key, got |-> Null, nonce |-> FALSE,
           bound |-> IF kind \in {"verify", "guard"} THEN BoundKey(dev) ELSE {},
           answer |-> "none"]]
    /\ UNCHANGED <<store, configured, entries, now, history>>

Answer(r, answer) == req' = [req EXCEPT ![r] = Free(answer)]

\* randomUUID and randomBytes: an id that no other challenge has.
FreshIds == Challenges \ (Issued \cup {req[s].ch : s \in Requests})

RequestChallenge(r) ==
    \E purpose \in Purposes, c \in FreshIds :
        Start(r, "challenge", purpose, c, UnknownId, UnknownId)

Unavailable(r) ==
    /\ ~configured
    /\ req[r].pc = "free"
    /\ Answer(r, "unavailable")
    /\ UNCHANGED <<store, configured, entries, now, history>>

\* enroll and verify, once assertConfigured has passed.
RequestEnroll(r) ==
    /\ configured
    /\ \E ch \in Issued \cup {UnknownId}, dev \in Devices, key \in DeviceKeys :
          Start(r, "enroll", "enroll", ch, dev, key)

RequestVerify(r) ==
    /\ configured
    /\ \E ch \in Issued \cup {UnknownId}, dev \in Devices, key \in DeviceKeys :
          Start(r, "verify", "verify", ch, dev, key)

\* A guarded route checks signatures whether or not attestation is configured.
RequestGuarded(r) ==
    \E ch \in Issued \cup {UnknownId}, dev \in Devices, key \in DeviceKeys :
        Start(r, "guard", RoutePurpose, ch, dev, key)

Unverified == IF DevicePolicy = "required" THEN "unauthorized" ELSE "passed unverified"

RequestUnsigned(r) ==
    /\ req[r].pc = "free"
    /\ Answer(r, Unverified)
    /\ UNCHANGED <<store, configured, entries, now, history>>

-----------------------------------------------------------------------------
(* The store runs a command; the result waits for the handler, unless the  *)
(* handler has given up.                                                   *)

Outstanding(r, stage) ==
    req[r].pc = (IF stage = 1 THEN "ask1" ELSE "ask2")
        \/ req[r].pc = (IF stage = 1 THEN "orphan1" ELSE "orphan2")

Delivered(r, result) ==
    [req EXCEPT ![r] =
        CASE @.pc = "ask1" -> [@ EXCEPT !.pc = "got1", !.got = result]
          [] @.pc = "ask2" -> [@ EXCEPT !.pc = "got2", !.got = result]
          [] OTHER -> Free(@.answer)]

Deliver(r, result) == req' = Delivered(r, result)

\* The requests q, once d is bound to key; those that have read are no more concerned.
Learning(q, d, key) ==
    [s \in Requests |->
        IF /\ q[s].kind \in {"verify", "guard"} /\ q[s].dev = d
           /\ q[s].pc \in {"ask1", "got1", "ask2"}
        THEN [q[s] EXCEPT !.bound = @ \cup {key}] ELSE q[s]]

\* SET on the shared store, which evicts nothing.
SharedSet(k, value, ttl) ==
    Put(Without(entries, {k}), k,
        [value |-> value, expiresAt |-> ExpiryAfter(now, ttl)])

AfterKvSet(k, value, ttl) ==
    IF store = "memory" THEN AfterSet(entries, k, value, ttl, now)
    ELSE SharedSet(k, value, ttl)

AfterKvSetIfAbsent(k, value, ttl) ==
    IF store = "memory" THEN AfterSetIfAbsent(entries, k, value, ttl, now)
    ELSE IF Lookup(entries, k, now) # Null THEN entries
    ELSE SharedSet(k, value, ttl)

\* challenges.issue: kv.set with the challenge TTL.
RunSet(r) ==
    /\ req[r].kind = "challenge"
    /\ Outstanding(r, 1)
    /\ entries' = AfterKvSet(req[r].ch, req[r].purpose, ChallengeTTL)
    /\ issued' = [issued EXCEPT ![req[r].ch] =
                     [purpose |-> req[r].purpose, until |-> now + ChallengeTTL]]
    /\ Deliver(r, Null)
    /\ UNCHANGED <<store, configured, now, handedOut, wins>>

\* challenges.consume: kv.getDelete, before the purpose is looked at.
RunGetDelete(r) ==
    /\ req[r].kind \in {"enroll", "verify", "guard"}
    /\ Outstanding(r, 1)
    /\ entries' = AfterDelete(entries, req[r].ch)
    /\ Deliver(r, Lookup(entries, req[r].ch, now))
    /\ UNCHANGED <<store, configured, now, history>>

\* Mutant of RunSetIfAbsent: the enrolment is written with a plain set.
RunSetAlways(r) ==
    /\ req[r].kind = "enroll"
    /\ Outstanding(r, 2)
    /\ entries' = AfterKvSet(req[r].dev, req[r].key, Forever)
    /\ wins' = [wins EXCEPT ![req[r].dev] = Append(@, req[r].key)]
    /\ req' = Learning(Delivered(r, "OK"), req[r].dev, req[r].key)
    /\ UNCHANGED <<store, configured, now, issued, handedOut>>

\* devices.enrol: kv.setIfAbsent without a TTL.
RunSetIfAbsent(r) ==
    /\ req[r].kind = "enroll"
    /\ Outstanding(r, 2)
    /\ LET d == req[r].dev
           free == Lookup(entries, d, now) = Null
       IN  /\ entries' = AfterKvSetIfAbsent(d, req[r].key, Forever)
           /\ wins' = IF free THEN [wins EXCEPT ![d] = Append(@, req[r].key)] ELSE wins
           /\ req' = IF free THEN Learning(Delivered(r, "OK"), d, req[r].key)
                     ELSE Delivered(r, Null)
    /\ UNCHANGED <<store, configured, now, issued, handedOut>>

\* devices.get: kv.get.
RunGet(r) ==
    /\ req[r].kind \in {"verify", "guard"}
    /\ Outstanding(r, 2)
    /\ entries' = AfterGet(entries, req[r].dev, now)
    /\ Deliver(r, Lookup(entries, req[r].dev, now))
    /\ UNCHANGED <<store, configured, now, history>>

-----------------------------------------------------------------------------
(* The handlers resume.                                                    *)

\* Mutant of NonceValid: the purpose is not compared.
NonceFound(q) == q.got # Null

\* consume's verdict on what getDelete returned.
NonceValid(q) == q.got = q.purpose

HandOut(r) == handedOut' = [handedOut EXCEPT ![req[r].ch] =
                               IF @ < 2 THEN @ + 1 ELSE @]

AskNext(r) == req' = [req EXCEPT ![r].pc = "ask2", ![r].nonce = NonceValid(req[r])]

ReturnChallenge(r) ==
    /\ req[r].kind = "challenge" /\ req[r].pc = "got1"
    /\ Answer(r, "issued")
    /\ UNCHANGED <<store, configured, entries, now, history>>

\* enroll and the guard stop at a challenge that is not valid.
RejectChallenge(r) ==
    /\ req[r].kind \in {"enroll", "guard"} /\ req[r].pc = "got1"
    /\ ~NonceValid(req[r])
    /\ Answer(r, IF req[r].kind = "guard" THEN Unverified ELSE "unauthorized")
    /\ UNCHANGED <<store, configured, entries, now, history>>

\* attestation.verify throws: AttestationRejectedError, or another error, which
\* enroll throws on.
RejectChain(r) ==
    /\ req[r].kind = "enroll" /\ req[r].pc = "got1"
    /\ NonceValid(req[r])
    /\ HandOut(r)
    /\ \E answer \in {"forbidden", "error"} : Answer(r, answer)
    /\ UNCHANGED <<store, configured, entries, now, issued, wins>>

EnrolAttested(r) ==
    /\ req[r].kind = "enroll" /\ req[r].pc = "got1"
    /\ NonceValid(req[r])
    /\ HandOut(r)
    /\ AskNext(r)
    /\ UNCHANGED <<store, configured, entries, now, issued, wins>>

ReturnEnrolled(r) ==
    /\ req[r].kind = "enroll" /\ req[r].pc = "got2"
    /\ Answer(r, IF req[r].got = "OK" THEN "enrolled" ELSE "conflict")
    /\ UNCHANGED <<store, configured, entries, now, history>>

\* verify reads the device even when the challenge was not valid.
ReadDevice(r) ==
    /\ req[r].kind \in {"verify", "guard"} /\ req[r].pc = "got1"
    /\ req[r].kind = "guard" => NonceValid(req[r])
    /\ IF NonceValid(req[r]) THEN HandOut(r) ELSE UNCHANGED handedOut
    /\ AskNext(r)
    /\ UNCHANGED <<store, configured, entries, now, issued, wins>>

\* A signature can only be valid for the key that the store has for the device.
SignedByStored(q) == q.got = q.key

ReturnVerified(r) ==
    /\ req[r].kind \in {"verify", "guard"} /\ req[r].pc = "got2"
    /\ \E covers \in BOOLEAN :
       LET verified == req[r].nonce /\ SignedByStored(req[r]) /\ covers
       IN  Answer(r, IF verified THEN "verified"
                     ELSE IF req[r].kind = "guard" THEN Unverified
                     ELSE "unauthorized")
    /\ UNCHANGED <<store, configured, entries, now, history>>

\* Mutant of GiveUp: fetch has no timeout, only an error answer is an error.
GiveUpOnError(r) ==
    /\ store = "upstash"
    /\ req[r].pc \in {"got1", "got2"}
    /\ Answer(r, "error")
    /\ UNCHANGED <<store, configured, entries, now, history>>

\* fetch is aborted after five seconds, or the store's answer is an error: the
\* handler throws, whatever becomes of the command.
GiveUp(r) ==
    /\ store = "upstash"
    /\ \/ /\ req[r].pc \in {"got1", "got2"}
          /\ Answer(r, "error")
       \/ /\ req[r].pc \in {"ask1", "ask2"}
          /\ req' = [req EXCEPT ![r].pc = IF @ = "ask1" THEN "orphan1" ELSE "orphan2",
                                ![r].bound = {}, ![r].answer = "error"]
    /\ UNCHANGED <<store, configured, entries, now, history>>

-----------------------------------------------------------------------------
(* The environment.                                                        *)

\* A command that nobody waits for is lost on the way.
LoseOrphan(r) ==
    /\ req[r].pc \in {"orphan1", "orphan2"}
    /\ Answer(r, "error")
    /\ UNCHANGED <<store, configured, entries, now, history>>

\* DeviceRegistry.delete, which no endpoint calls.
AdminDelete(d) ==
    /\ d \in DOMAIN entries
    /\ entries' = AfterDelete(entries, d)
    /\ wins' = [wins EXCEPT ![d] = <<>>]
    /\ UNCHANGED <<store, configured, now, req, issued, handedOut>>

\* The process restarts: requests in progress and the in-process store are gone.
Restart ==
    /\ store = "memory"
    /\ entries' = EmptyMap
    /\ req' = [r \in Requests |-> Free("none")]
    /\ wins' = [d \in Devices |-> <<>>]
    /\ UNCHANGED <<store, configured, now, issued, handedOut>>

Tick ==
    /\ now < MaxNow
    /\ now' = now + 1
    /\ UNCHANGED <<store, configured, entries, req, history>>

Init ==
    /\ store \in Stores
    /\ configured \in BOOLEAN
    /\ entries = EmptyMap
    /\ now = 0
    /\ req = [r \in Requests |-> Free("none")]
    /\ issued = [c \in Challenges |-> NotIssued]
    /\ handedOut = [c \in Challenges |-> 0]
    /\ wins = [d \in Devices |-> <<>>]

Arrive(r) ==
    \/ RequestChallenge(r) \/ Unavailable(r) \/ RequestEnroll(r)
    \/ RequestVerify(r) \/ RequestGuarded(r) \/ RequestUnsigned(r)

Run(r) == RunSet(r) \/ RunGetDelete(r) \/ RunSetIfAbsent(r) \/ RunGet(r)

Resume(r) ==
    \/ ReturnChallenge(r) \/ RejectChallenge(r) \/ RejectChain(r)
    \/ EnrolAttested(r) \/ ReturnEnrolled(r) \/ ReadDevice(r) \/ ReturnVerified(r)

Next ==
    \/ \E r \in Requests :
          Arrive(r) \/ Run(r) \/ Resume(r) \/ GiveUp(r) \/ LoseOrphan(r)
    \/ \E d \in Devices : AdminDelete(d)
    \/ Restart
    \/ Tick

Spec == Init /\ [][Next]_vars

\* The event loop resumes every handler, the in-process store answers every
\* command, and the fetch timeout fires; the remote store need not answer.
Fairness ==
    \A r \in Requests :
        /\ WF_vars(Resume(r))
        /\ WF_vars(store = "memory" /\ Run(r))
        /\ WF_vars(GiveUp(r))

LiveSpec == Spec /\ Fairness

-----------------------------------------------------------------------------
(* Properties.                                                             *)

Pcs == {"free", "ask1", "got1", "ask2", "got2", "orphan1", "orphan2"}
Answers == {"none", "issued", "unavailable", "unauthorized", "forbidden", "enrolled",
            "conflict", "verified", "passed unverified", "error"}

\* Types of all variables; the store is a well-ordered Map of live and expired entries.
TypeOK ==
    /\ store \in Stores
    /\ configured \in BOOLEAN
    /\ IsMapOver(entries, Challenges \cup Devices,
                 [value : Purposes \cup DeviceKeys, expiresAt : Nat \cup {Forever}])
    /\ WellOrdered(entries)
    /\ now \in Nat
    /\ \A r \in Requests :
          /\ req[r].pc \in Pcs
          /\ req[r].nonce \in BOOLEAN
          /\ req[r].bound \subseteq DeviceKeys
          /\ req[r].answer \in Answers
    /\ issued \in [Challenges -> [purpose : Purposes \cup {"none"}, until : Nat]]
    /\ handedOut \in [Challenges -> 0 .. 2]
    /\ \A d \in Devices : wins[d] \in Seq(DeviceKeys)

\* A challenge is single-use: whatever the interleaving of the requests that
\* name it, the restarts and the commands that nobody waits for any more, its
\* nonce is handed to at most one of them.
ChallengeUsedOnce == \A c \in Challenges : handedOut[c] <= 1

\* A handler goes on with a nonce only for the purpose the challenge was issued
\* for, so an enrolment challenge cannot sign a transfer.
PurposeKept ==
    \A r \in Requests :
        req[r].nonce => issued[req[r].ch].purpose = req[r].purpose

\* The store hands out no challenge whose minute is over.
ChallengeFresh ==
    [][\A r \in Requests :
          req[r].pc = "ask1" /\ req'[r].pc = "got1" /\ req'[r].got \in Purposes
              => now <= issued[req[r].ch].until]_vars

\* verify and the guard read the device in a second command, and its enrolment
\* may change before and after it.  Whatever happens in between, a signature is
\* only accepted by a key that its device was bound to at some time between the
\* arrival of the request and that read: by none of a device that was deleted
\* before, or lost in a restart.
VerifiedByBoundKey ==
    \A r \in Requests :
        req[r].pc = "got2" /\ req[r].kind \in {"verify", "guard"}
            /\ req[r].nonce /\ SignedByStored(req[r])
            => req[r].key \in req[r].bound

\* In the shared store, until an administrator deletes it, a device id is bound
\* at most once: of the enrolments that race for it, also through commands that
\* outlive their request, one wins, and nobody re-binds it.
BoundOnce == store = "upstash" => \A d \in Devices : Len(wins[d]) <= 1

\* What the controller and the guide say of enrolment: a device id that is
\* enrolled is never re-bound to a different key, short of a deletion.
NeverRebound ==
    \A d \in Devices : \A i, j \in DOMAIN wins[d] : wins[d][i] = wins[d][j]

\* Every request is answered, even if the remote store never is heard of again.
Answered ==
    \A r \in Requests :
        [](req[r].pc \in {"ask1", "got1", "ask2", "got2"}
              => <>(req[r].pc \in {"free", "orphan1", "orphan2"}))
=============================================================================
