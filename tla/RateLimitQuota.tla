--------------------------- MODULE RateLimitQuota ---------------------------
(***************************************************************************)
(* RateLimit as a client sees it: quota[c] is the window that the guard    *)
(* announced to client c (X-RateLimit-Reset) and the requests let through  *)
(* since, until that window ends.  The behaviours are those of RateLimit.  *)
(***************************************************************************)
EXTENDS RateLimit

VARIABLE quota

qvars == <<vars, quota>>

QInit == Init /\ quota = [c \in Clients |-> [until |-> 0, used |-> 0]]

QAllow(c) ==
    /\ Allow(c)
    /\ quota' = [quota EXCEPT ![c] =
          IF now < @.until THEN [@ EXCEPT !.used = @ + 1]
          ELSE [until |-> told'[answer'.key], used |-> 1]]

QOther(c) == (Refuse(c) \/ Exempt(c)) /\ UNCHANGED quota

QNext ==
    \/ Tick /\ UNCHANGED quota
    \/ \E c \in Clients : QAllow(c) \/ QOther(c)

QSpec == QInit /\ [][QNext]_qvars

\* What the configuration guide says of THROTTLE_LIMIT: it is the maximum
\* number of requests of a client within the window.
QuotaPerWindow == \A c \in Clients : quota[c].used <= Limit
=============================================================================
