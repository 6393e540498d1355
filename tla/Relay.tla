------------------------------- MODULE Relay --------------------------------
(***************************************************************************)
(* What the gateway and its client promise to an application, one call at  *)
(* a time: the upstream handles the call at most once, and the call ends   *)
(* with what the upstream answered to it, or fails.  A call that does not  *)
(* insist on sealed answers is promised only that it ends.                 *)
(***************************************************************************)
EXTENDS Naturals

CONSTANTS Replies,    \* what the upstream may answer: status, headers, data
          Results,    \* what a call may end with
          NoReply, Failed

VARIABLES status,     \* "idle", "pending" or "ended"
          sealed,     \* the application insists on sealed answers
          reply,      \* what the upstream answered
          outcome

vars == <<status, sealed, reply, outcome>>

Init ==
    /\ status = "idle"
    /\ sealed = TRUE
    /\ reply = NoReply
    /\ outcome = Failed

Begin ==
    /\ status = "idle"
    /\ status' = "pending"
    /\ sealed' \in BOOLEAN
    /\ reply' = NoReply
    /\ outcome' = Failed

Handle(r) ==
    /\ status = "pending"
    /\ reply = NoReply
    /\ reply' = r
    /\ UNCHANGED <<status, sealed, outcome>>

\* Headers may be left out on the way, and nothing else may be.
Tells(result, r) ==
    /\ r # NoReply
    /\ result.status = r.status /\ result.data = r.data
    /\ \A name \in DOMAIN result.headers :
          name \in DOMAIN r.headers /\ result.headers[name] = r.headers[name]

End(result) ==
    /\ status = "pending"
    /\ status' = "ended"
    /\ result # Failed /\ sealed => Tells(result, reply)
    /\ outcome' = result
    /\ UNCHANGED <<sealed, reply>>

\* The application has seen the result, or the call is cut off.
Forget ==
    /\ status # "idle"
    /\ Init'

Next ==
    \/ Begin
    \/ \E r \in Replies : Handle(r)
    \/ \E result \in Results : End(result)
    \/ Forget

Spec == Init /\ [][Next]_vars
=============================================================================
