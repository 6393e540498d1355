--------------------------- MODULE ReplayHistory ---------------------------
(***************************************************************************)
(* ReplayProtection with a longer memory than the code has: accepted       *)
(* collects every acceptance.  The behaviours are those of                 *)
(* ReplayProtection.                                                       *)
(***************************************************************************)
EXTENDS ReplayProtection

VARIABLE accepted

hvars == <<vars, accepted>>

HInit == Init /\ accepted = {}

HAccept(p) ==
    /\ Accept(p)
    /\ accepted' = accepted \cup {[nonce |-> p.nonce, ts |-> p.ts, at |-> now]}

HRefuse(p) ==
    /\ \/ Skip(p) \/ RejectNonce(p) \/ RejectTimestamp(p)
       \/ RejectExpired(p) \/ RejectReplayed(p)
    /\ UNCHANGED accepted

HNext ==
    \/ Tick /\ UNCHANGED accepted
    \/ \E p \in Payload : HAccept(p) \/ HRefuse(p)

HSpec == HInit /\ [][HNext]_hvars

-----------------------------------------------------------------------------

Uses(n, ts) == {a \in accepted : a.nonce = n /\ a.ts = ts}

\* What the class comment of ReplayProtectionService promises: a nonce can be
\* used once inside the allowed clock window, the window in which assertFresh
\* accepts its timestamp.
OncePerWindow ==
    \A a \in accepted : Uses(a.nonce, a.ts) = {a}
=============================================================================
