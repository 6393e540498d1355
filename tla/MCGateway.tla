----------------------------- MODULE MCGateway -----------------------------
(* Small instances of Gateway for TLC.                                     *)
EXTENDS Gateway, TLC

CONSTANTS n1, n2

Good(n, t) == [nonce |-> n, ts |-> t, opens |-> TRUE, allowed |-> TRUE]

\* One envelope that is good for the whole run, one that forward refuses and
\* that becomes too old, and ones that are rejected: sealed for another key,
\* without nonce, without time.
MCEnvelopes ==
    {Good(n1, 2),
     [Good(n2, 0) EXCEPT !.allowed = FALSE],
     [Good(n2, 2) EXCEPT !.opens = FALSE],
     Good(BadNonce, 2), Good(n2, BadTimestamp)}
LiveEnvelopes == {Good(n1, 2), [Good(n1, 2) EXCEPT !.allowed = FALSE]}
MCNonces == {n1, n2}

MCSymmetry == Permutations(Instances) \cup Permutations(Requests)
=============================================================================
