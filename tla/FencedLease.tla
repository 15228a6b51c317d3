---------------------------- MODULE FencedLease ----------------------------
(***************************************************************************)
(* What the lease of a work queue promises, without the queue: every lease *)
(* handed out on a resource carries a number of its own, one more than the *)
(* last (a fencing token), a lease is handed out only when no other agent  *)
(* holds a live one, and the lease on record is always the last one handed *)
(* out.  WorkQueue implements this specification.                          *)
(***************************************************************************)
EXTENDS Naturals, Sequences

CONSTANTS Resource, Agent, NoAgent

VARIABLES issued,   \* issued[r]: the agents given a lease on r, in order
          owner,    \* owner[r]: the agent on record, or NoAgent
          token,    \* token[r]: the number of the lease on record, or of the last one
          live      \* live[r]: the lease on record has not expired

vars == <<issued, owner, token, live>>

Init ==
    /\ issued = [r \in Resource |-> <<>>]
    /\ owner = [r \in Resource |-> NoAgent]
    /\ token = [r \in Resource |-> 0]
    /\ live = [r \in Resource |-> FALSE]

Grant(r, a) ==
    /\ live[r] => owner[r] = a
    /\ issued' = [issued EXCEPT ![r] = Append(@, a)]
    /\ owner' = [owner EXCEPT ![r] = a]
    /\ token' = [token EXCEPT ![r] = @ + 1]
    /\ live' = [live EXCEPT ![r] = TRUE]

Expire(r) ==
    /\ live[r]
    /\ live' = [live EXCEPT ![r] = FALSE]
    /\ UNCHANGED <<issued, owner, token>>

\* The owner returns the lease, or it is taken away: any set of resources at
\* once (a sweep).  The numbers go on from where they were.
Revoke(R) ==
    /\ owner' = [r \in Resource |-> IF r \in R THEN NoAgent ELSE owner[r]]
    /\ live' = [r \in Resource |-> IF r \in R THEN FALSE ELSE live[r]]
    /\ UNCHANGED <<issued, token>>

Next ==
    \/ \E r \in Resource, a \in Agent : Grant(r, a)
    \/ \E r \in Resource : Expire(r)
    \/ \E R \in SUBSET Resource : Revoke(R)

Spec == Init /\ [][Next]_vars
=============================================================================
