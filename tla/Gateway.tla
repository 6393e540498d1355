------------------------------ MODULE Gateway ------------------------------
(***************************************************************************)
(* The gateway endpoint: handleGateway decrypts an envelope, spends its    *)
(* nonce and forwards the request, in one step up to the await on the      *)
(* upstream call; the rest of the handler is another step.  Several        *)
(* instances of the process, each with a nonce cache of its own, are       *)
(* behind one address, so a client that sends an envelope again (after an  *)
(* error, or twice at once) may reach any of them.                         *)
(*                                                                         *)
(* An attempt to have an envelope handled sits in a slot.  Its job is the  *)
(* upstream's part: the request that was sent, and that the upstream may   *)
(* run although the gateway no longer waits for the answer.                *)
(*                                                                         *)
(* The timeout of axios bounds silence and not the call: without redirects *)
(* the request goes through node's own http module, whose timer starts     *)
(* when the connection is there and anew with every byte.  A call whose    *)
(* answer comes slowly may last as long as it likes.                       *)
(*                                                                         *)
(* An envelope is its nonce and timestamp, whether an accepted key opens   *)
(* it, and whether forward's checks (method, URL, allow list, headers,     *)
(* body, parameters) let it pass.  Bounds: MaxNow, MaxRestarts.            *)
(*                                                                         *)
(* History variables: effects[e] counts the runs of envelope e by the      *)
(* upstream, restarts the restarts of instances.                           *)
(***************************************************************************)
EXTENDS NonceCache

CONSTANTS Instances, Requests, Envelopes,
          Nonces, BadNonce, BadTimestamp,
          RequireNonce,  \* REQUIRE_REQUEST_NONCE
          Timeout,       \* UPSTREAM_TIMEOUT_MS
          MaxNow, MaxRestarts

ASSUME EnvelopeAssumption ==
    /\ BadNonce \notin Nonces
    /\ BadTimestamp \notin Int
    /\ Envelopes \subseteq [nonce : Nonces \cup {BadNonce}, ts : Int \cup {BadTimestamp},
                            opens : BOOLEAN, allowed : BOOLEAN]
ASSUME SettingsAssumption ==
    /\ IsFiniteSet(Instances) /\ IsFiniteSet(Requests)
    /\ RequireNonce \in BOOLEAN
    /\ Timeout \in Nat \ {0}
    /\ MaxNow \in Nat
    /\ MaxRestarts \in Nat

VARIABLES seen,     \* the nonce cache of each instance
          now, req,
          answer,   \* what the last step told a client
          effects, restarts

history == <<effects, restarts>>
vars == <<seen, now, req, answer, history>>

NoEnvelope == [nonce |-> BadNonce, ts |-> BadTimestamp, opens |-> FALSE, allowed |-> FALSE]

Free == [pc |-> "free", at |-> "none", env |-> NoEnvelope, since |-> 0, timer |-> 0,
         job |-> "none"]

\* An attempt that awaits the upstream; the request is sent once it is connected.
Waiting(i, e) == [pc |-> "waiting", at |-> i, env |-> e, since |-> now, timer |-> Timeout,
                  job |-> "due"]

\* What is left of an attempt that ended: the job, if the upstream may still run it.
Ended(q) ==
    IF q.job = "sent" THEN [Free EXCEPT !.pc = "orphan", !.env = q.env, !.job = "sent"]
                      ELSE Free

\* The timer runs while the call is connected.
CountDown(q) ==
    IF q.pc = "waiting" /\ q.job # "due" /\ q.timer > 0 THEN [q EXCEPT !.timer = @ - 1]
                                                        ELSE q

-----------------------------------------------------------------------------
(* The first step of a handler.                                            *)

Reply(r, status) ==
    /\ req[r].pc = "free"
    /\ answer' = status
    /\ UNCHANGED req

\* The rate limiter, modelled in RateLimit, refuses before the handler runs.
Limited(r) == Reply(r, "429") /\ UNCHANGED <<seen, now, history>>

\* decrypt throws: unknown KeyId, wrong key, failed authentication, bad payload.
Undecryptable(r, e) ==
    /\ ~e.opens
    /\ Reply(r, "400")
    /\ UNCHANGED <<seen, now, history>>

InTime(e) == e.nonce # BadNonce /\ e.ts # BadTimestamp /\ InWindow(e.ts, now)

\* assertFresh throws before it looks at the cache.
Untimely(r, e) ==
    /\ e.opens
    /\ RequireNonce /\ ~InTime(e)
    /\ Reply(r, "400")
    /\ UNCHANGED <<seen, now, history>>

Replayed(r, i, e) ==
    /\ e.opens
    /\ RequireNonce /\ InTime(e)
    /\ LET swept == Sweep(seen[i], now)
       IN  /\ Known(swept, e.nonce, now)
           /\ seen' = [seen EXCEPT ![i] = swept]
    /\ Reply(r, "400")
    /\ UNCHANGED <<now, history>>

\* Mutant of Spend: the nonce is looked up but not spent before the await.
CheckOnly(i, e) ==
    IF RequireNonce
    THEN /\ InTime(e)
         /\ ~Known(Sweep(seen[i], now), e.nonce, now)
         /\ seen' = [seen EXCEPT ![i] = Sweep(seen[i], now)]
    ELSE UNCHANGED seen

\* assertFresh returns, having spent the nonce.
Spend(i, e) ==
    IF RequireNonce
    THEN LET swept == Sweep(seen[i], now)
         IN  /\ InTime(e)
             /\ ~Known(swept, e.nonce, now)
             /\ seen' = [seen EXCEPT ![i] = Remember(swept, e.nonce, now)]
    ELSE UNCHANGED seen

\* forward throws before the upstream is called; the nonce is spent all the same.
Disallowed(r, i, e) ==
    /\ e.opens
    /\ Spend(i, e)
    /\ ~e.allowed
    /\ Reply(r, "400")
    /\ UNCHANGED <<now, history>>

\* A bound: calls are made, and bytes arrive, early enough for the timeout that
\* follows to fall within MaxNow.
InTheRun == now + Timeout <= MaxNow

Forward(r, i, e) ==
    /\ req[r].pc = "free"
    /\ e.opens
    /\ Spend(i, e)
    /\ e.allowed
    /\ InTheRun
    /\ req' = [req EXCEPT ![r] = Waiting(i, e)]
    /\ answer' = "none"
    /\ UNCHANGED <<now, history>>

-----------------------------------------------------------------------------
(* The upstream, and the second step of the handler.                       *)

\* The connection is there: the request is sent, and the timer starts.
Connected(r) ==
    /\ req[r].pc = "waiting" /\ req[r].job = "due"
    /\ InTheRun
    /\ req' = [req EXCEPT ![r].job = "sent", ![r].timer = Timeout]
    /\ answer' = "none"
    /\ UNCHANGED <<seen, now, history>>

\* Something of the answer arrives, and the timer starts anew.
Heard(r) ==
    /\ req[r].pc = "waiting" /\ req[r].job # "due"
    /\ InTheRun
    /\ req' = [req EXCEPT ![r].timer = Timeout]
    /\ answer' = "none"
    /\ UNCHANGED <<seen, now, history>>

\* Saturates where EffectsBounded is long since violated.
MostEffects == 3 * (Cardinality(Instances) + MaxRestarts) + 1

UpstreamRuns(r) ==
    /\ req[r].job = "sent"
    /\ effects' = [effects EXCEPT ![req[r].env] = IF @ < MostEffects THEN @ + 1 ELSE @]
    /\ req' = [req EXCEPT ![r] = IF @.pc = "orphan" THEN Free
                                 ELSE [@ EXCEPT !.job = "done"]]
    /\ answer' = "none"
    /\ UNCHANGED <<seen, now, restarts>>

\* The upstream answers, whatever its status: sealed and returned.
Relay(r) ==
    /\ req[r].pc = "waiting" /\ req[r].job = "done"
    /\ req' = [req EXCEPT ![r] = Free]
    /\ answer' = "200"
    /\ UNCHANGED <<seen, now, history>>

\* The call fails: not connected, reset, an answer that is too large; 504 if the
\* system gave up on the connection.
UpstreamFails(r) ==
    /\ req[r].pc = "waiting"
    /\ req' = [req EXCEPT ![r] = Ended(@)]
    /\ answer' \in {"502", "504"}
    /\ UNCHANGED <<seen, now, history>>

\* Mutant of TimesOut: the call is made without a timeout.
NeverTimesOut(r) == FALSE /\ req[r].pc = "waiting" /\ UNCHANGED vars

\* The upstream has been silent for UPSTREAM_TIMEOUT_MS; the timer may be late.
TimesOut(r) ==
    /\ req[r].pc = "waiting" /\ req[r].job # "due"
    /\ req[r].timer = 0
    /\ req' = [req EXCEPT ![r] = Ended(@)]
    /\ answer' = "504"
    /\ UNCHANGED <<seen, now, history>>

\* The request that nobody waits for never arrives.
JobLost(r) ==
    /\ req[r].pc = "orphan"
    /\ req' = [req EXCEPT ![r] = Free]
    /\ answer' = "none"
    /\ UNCHANGED <<seen, now, history>>

-----------------------------------------------------------------------------
(* The environment.                                                        *)

\* A process ends and starts anew: its cache is empty, its handlers are gone.
Restart(i) ==
    /\ restarts < MaxRestarts
    /\ restarts' = restarts + 1
    /\ seen' = [seen EXCEPT ![i] = EmptyMap]
    /\ req' = [r \in Requests |->
                 IF req[r].pc = "waiting" /\ req[r].at = i
                 THEN Ended(req[r]) ELSE req[r]]
    /\ answer' = "none"
    /\ UNCHANGED <<now, effects>>

Tick ==
    /\ now < MaxNow
    /\ now' = now + 1
    /\ req' = [r \in Requests |-> CountDown(req[r])]
    /\ answer' = "none"
    /\ UNCHANGED <<seen, history>>

Init ==
    /\ seen = [i \in Instances |-> EmptyMap]
    /\ now = 0
    /\ req = [r \in Requests |-> Free]
    /\ answer = "none"
    /\ effects = [e \in Envelopes |-> 0]
    /\ restarts = 0

HandleGateway(r, i, e) ==
    \/ Undecryptable(r, e) \/ Untimely(r, e) \/ Replayed(r, i, e)
    \/ Disallowed(r, i, e) \/ Forward(r, i, e)

Resume(r) == Relay(r) \/ UpstreamFails(r) \/ TimesOut(r)

Next ==
    \/ \E r \in Requests :
          \/ Limited(r)
          \/ \E i \in Instances, e \in Envelopes : HandleGateway(r, i, e)
          \/ Connected(r) \/ Heard(r) \/ UpstreamRuns(r) \/ Resume(r) \/ JobLost(r)
    \/ \E i \in Instances : Restart(i)
    \/ Tick

Spec == Init /\ [][Next]_vars

\* An attempt to connect succeeds or fails: the system limits how often it tries.
ConnectEnds(r) == Connected(r) \/ (req[r].job = "due" /\ UpstreamFails(r))

\* Time passes, attempts to connect end, and the timer of a call fires; the
\* upstream need not answer.  That it is not heard for ever is the bound
\* InTheRun here, and MAX_UPSTREAM_RESPONSE_BYTES in the code.
LiveSpec ==
    /\ Spec
    /\ WF_vars(Tick)
    /\ \A r \in Requests : WF_vars(ConnectEnds(r)) /\ WF_vars(TimesOut(r))

-----------------------------------------------------------------------------
(* Properties.                                                             *)

\* Types of all variables.
TypeOK ==
    /\ DOMAIN seen = Instances
    /\ \A i \in Instances : IsMapOver(seen[i], Nonces, Nat) /\ WellOrdered(seen[i])
    /\ now \in Nat
    /\ \A r \in Requests :
          /\ req[r].pc \in {"free", "waiting", "orphan"}
          /\ req[r].env \in Envelopes \cup {NoEnvelope}
          /\ req[r].since \in Nat /\ req[r].timer \in Nat
          /\ req[r].job \in {"none", "due", "sent", "done"}
    /\ answer \in {"none", "200", "400", "429", "502", "504"}
    /\ effects \in [Envelopes -> Nat]
    /\ restarts \in Nat

Roomy == IsFiniteSet(Nonces) /\ Cardinality(Nonces) <= MaxEntries

\* However often a client sends an envelope, to whichever instance, before or
\* after errors and timeouts, the upstream runs it at most three times for each
\* life of an instance; jobs that outlive their attempt are included.
EffectsBounded ==
    RequireNonce /\ Roomy =>
        \A e \in Envelopes :
            effects[e] <= 3 * (Cardinality(Instances) + restarts)

\* While a call is in progress its nonce is spent: handleGateway spends it
\* before the await, so no error or delay of the upstream leaves it usable.
SpentWhileWaiting ==
    RequireNonce /\ Roomy =>
        \A r \in Requests :
            req[r].pc = "waiting" /\ now < req[r].since + MaxSkew
                => Known(seen[req[r].at], req[r].env.nonce, now)

\* Nothing bounds how long a call takes: a slow answer outlives the life of its
\* nonce, which may then start a second call while the first is in progress.
\* But two calls with one nonce that are in progress at one instance were made
\* a skew apart at least, so the client did not send the second one because of
\* an answer, an error or a timeout of the same skew.
CallsApart ==
    RequireNonce /\ Roomy =>
        \A r, s \in Requests :
            /\ r # s /\ req[r].pc = "waiting" /\ req[s].pc = "waiting"
            /\ req[r].at = req[s].at /\ req[r].env.nonce = req[s].env.nonce
            => \/ req[r].since + MaxSkew <= req[s].since
               \/ req[s].since + MaxSkew <= req[r].since

\* Every request is answered, although the upstream may never answer, or fall
\* silent in the middle of its answer.
Answered == \A r \in Requests : req[r].pc = "waiting" ~> req[r].pc # "waiting"
=============================================================================
