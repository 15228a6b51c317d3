----------------------------- MODULE LateLease -----------------------------
(***************************************************************************)
(* What is left of the lease's promise in a queue whose renewals are two   *)
(* requests (compare FencedLease).  A lease is still handed out only when  *)
(* no other agent holds a live one, and its owner on record is still the   *)
(* agent that was given it last, or nobody.  But an extension, asked for   *)
(* by the owner of a live lease, lands at any later time and extends       *)
(* whatever is on record by then: the lease of the next owner, a lease     *)
(* that expired meanwhile, or none at all, in which case the resource is   *)
(* held by nobody.  There is at most one such surprise per extension that  *)
(* was asked for.  And a lease has no number that tells it from the last.  *)
(* FirestoreQueue implements this specification.                           *)
(***************************************************************************)
EXTENDS Naturals, Sequences

CONSTANTS Resource, Agent, NoAgent,
          Caller    \* the concurrent callers that ask for an extension

VARIABLES issued,   \* issued[r]: the agents given a lease on r, in order
          owner,    \* owner[r]: the agent on record, or NoAgent
          live,     \* live[r]: what is on record has not expired
          asked     \* asked[c]: the resource caller c is about to extend, if any

vars == <<issued, owner, live, asked>>

Init ==
    /\ issued = [r \in Resource |-> <<>>]
    /\ owner = [r \in Resource |-> NoAgent]
    /\ live = [r \in Resource |-> FALSE]
    /\ asked = [c \in Caller |-> {}]

Grant(r, a) ==
    /\ live[r] => owner[r] = a
    /\ issued' = [issued EXCEPT ![r] = Append(@, a)]
    /\ owner' = [owner EXCEPT ![r] = a]
    /\ live' = [live EXCEPT ![r] = TRUE]
    /\ UNCHANGED asked

Expire(r) ==
    /\ live' = [live EXCEPT ![r] = FALSE]
    /\ UNCHANGED <<issued, owner, asked>>

\* The lease is returned or taken away.
Revoke(r) ==
    /\ owner' = [owner EXCEPT ![r] = NoAgent]
    /\ live' = [live EXCEPT ![r] = FALSE]
    /\ UNCHANGED <<issued, asked>>

\* The owner of a live lease wants to keep it.
Ask(c, r) ==
    /\ asked[c] = {}
    /\ live[r]
    /\ owner[r] \in Agent
    /\ asked' = [asked EXCEPT ![c] = {r}]
    /\ UNCHANGED <<issued, owner, live>>

\* The extension lands, late perhaps.
Extend(c) ==
    /\ asked[c] # {}
    /\ live' = [r \in Resource |-> r \in asked[c] \/ live[r]]
    /\ asked' = [asked EXCEPT ![c] = {}]
    /\ UNCHANGED <<issued, owner>>

\* The extension is lost.
Forget(c) ==
    /\ asked' = [asked EXCEPT ![c] = {}]
    /\ UNCHANGED <<issued, owner, live>>

Next ==
    \/ \E r \in Resource : Expire(r) \/ Revoke(r)
    \/ \E r \in Resource, a \in Agent : Grant(r, a)
    \/ \E c \in Caller, r \in Resource : Ask(c, r)
    \/ \E c \in Caller : Extend(c) \/ Forget(c)

Spec == Init /\ [][Next]_vars
=============================================================================
