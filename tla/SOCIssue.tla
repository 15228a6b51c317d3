------------------------------ MODULE SOCIssue ------------------------------
(***************************************************************************)
(* A SOC issue as the work queue stores it, and what every operation of    *)
(* the queue does to ONE issue (agents/core/work_queue.py, over the        *)
(* dataclasses of engine/domain.py).  Each operator takes an issue and     *)
(* returns an issue; the modules that EXTEND this one decide who calls it, *)
(* when, and what is atomic.                                               *)
(*                                                                         *)
(* Data that no property depends on is left out: titles, severities,       *)
(* timestamps.  The clock is reduced to one bit per lease, `live`, which   *)
(* is `not is_expired()`.  The attempt trail is reduced to `failures`, the *)
(* number of failed attempts in the current retry window, which is all     *)
(* that the code ever computes from it.                                    *)
(***************************************************************************)
EXTENDS Naturals

CONSTANTS Agent,        \* handles of the worker agents
          NoAgent,      \* routing.claimed_by is None
          Proposal,     \* ids of change proposals
          NoProposal    \* active_proposal_id / applied_change_id is None

ASSUME NullAssumption == NoAgent \notin Agent /\ NoProposal \notin Proposal

-----------------------------------------------------------------------------
(* Life-cycle statuses *)

\* Mutant: a worker that dies in the middle of its run is not presumed dead.
ReclaimableUntilWork == {"LEASED", "CLAIMED"}

\* A worker holds the issue: if its lease has lapsed the worker is presumed dead.
Reclaimable == {"LEASED", "CLAIMED", "EXECUTING"}

\* Dead ends: no worker picks the issue up again, an operator has to act.
Attention == {"NEEDS_HUMAN", "BLOCKED", "VALIDATION_FAILED", "ROLLED_BACK"}

\* Nobody holds the issue and nothing was changed: a patrol may just close it.
SelfResolvable == {"OBSERVED", "QUALIFIED", "AVAILABLE"} \cup Attention

\* The work on the issue is over: "VALIDATING and later".
PostWork == {"VALIDATING", "APPROVED", "APPLIED", "VERIFIED", "CLOSED"}

Status == Reclaimable \cup SelfResolvable \cup PostWork

-----------------------------------------------------------------------------
(* The stored issue *)

Lease == [owner : Agent, generation : Nat \ {0}, live : BOOLEAN]

NoLease == [owner |-> NoAgent, generation |-> 0, live |-> FALSE]

Issue == [status     : Status,
          lease      : Lease \cup {NoLease},
          generation : Nat,                        \* references["lease_generation"]
          claimed_by : Agent \cup {NoAgent},
          failures   : Nat,                        \* failed_attempt_count(issue)
          proposal   : Proposal \cup {NoProposal}, \* active_proposal_id
          change     : Proposal \cup {NoProposal}] \* applied_change_id

\* What upsert stores the first time a patrol observes the problem.
NewIssue == [status |-> "AVAILABLE", lease |-> NoLease, generation |-> 0,
             claimed_by |-> NoAgent, failures |-> 0,
             proposal |-> NoProposal, change |-> NoProposal]

HasLease(i) == i.lease # NoLease

\* Mutant: the number kept in references is not read back after a release.
LastGenerationForgotten(i) == i.lease.generation

\* The generation the next lease is counted from.
LastGeneration(i) == IF HasLease(i) THEN i.lease.generation ELSE i.generation

\* Mutant: the holder is presumed dead without looking at the clock.
IsReclaimableAtOnce(i) == i.status \in Reclaimable

IsReclaimable(i) == i.status \in Reclaimable /\ ~i.lease.live

IsClaimable(i) ==
    \/ i.status = "AVAILABLE" /\ ~i.lease.live
    \/ IsReclaimable(i)

\* Mutant: whose live lease it is, is not compared.
MayAcquireHeld(i, a) == i.lease.live \/ IsClaimable(i)

\* acquire_lease refuses only a live lease of somebody else and, when there is
\* no live lease, an issue that is not claimable.  A live lease of the caller
\* itself is enough, whatever the status.
MayAcquire(i, a) == IF i.lease.live THEN i.lease.owner = a ELSE IsClaimable(i)

\* Mutants: an expired lease is renewed; a missing lease is renewed.
MayRenewLapsed(i, a) == i.lease.owner = a
MayRenewMissing(i, a) == HasLease(i) => i.lease.owner = a

MayRenew(i, a) == i.lease.live /\ i.lease.owner = a

\* release_lease refuses only the owner check; with no lease there is no owner
\* to compare with and the release goes through.
MayRelease(i, a) == HasLease(i) => i.lease.owner = a

-----------------------------------------------------------------------------
(* What each operation makes of the issue *)

\* record_attempt with an outcome of FAILED_OUTCOMES.
Failed(i) == [i EXCEPT !.failures = @ + 1]

\* record_attempt with OPERATOR_REQUEUED or REOPENED: a new retry window.
FreshBudget(i) == [i EXCEPT !.failures = 0]

\* Mutant: a takeover leaves the claim of the presumed dead worker.
LeasedKeepingClaim(i, a) ==
    LET g == LastGeneration(i) + 1
    IN  [i EXCEPT !.lease = [owner |-> a, generation |-> g, live |-> TRUE],
                  !.generation = g,
                  !.status = "LEASED",
                  !.claimed_by = IF @ = NoAgent THEN a ELSE @]

\* acquire_lease, once it is allowed.  Taking over from a presumed dead worker
\* first records that worker's LEASE_EXPIRED attempt.
Leased(i, a) ==
    LET g == LastGeneration(i) + 1
        j == IF IsReclaimable(i) THEN Failed(i) ELSE i
    IN  [j EXCEPT !.lease = [owner |-> a, generation |-> g, live |-> TRUE],
                  !.generation = g,
                  !.status = "LEASED",
                  !.claimed_by = a]

Renewed(i) == [i EXCEPT !.lease.live = TRUE]

\* Mutant: an issue returns to the pool with the claim still on it.
ReleasedKeepingClaim(i, s) ==
    [i EXCEPT !.generation = LastGeneration(i), !.lease = NoLease, !.status = s]

\* release_lease, once it is allowed.
Released(i, s) ==
    [i EXCEPT !.generation = LastGeneration(i),
              !.lease = NoLease,
              !.status = s,
              !.claimed_by = IF s = "AVAILABLE" THEN NoAgent ELSE @]

\* reclaim_expired_leases, for an issue it reclaims.
Reclaimed(i) == Failed(Released(i, "AVAILABLE"))

\* update_issue_status: an unconditional write that leaves the lease alone.
WithStatus(i, s) == [i EXCEPT !.status = s]

WithProposal(i, p) == [i EXCEPT !.status = "VALIDATING", !.proposal = p]

WithChange(i, p) == [i EXCEPT !.status = "APPLIED", !.change = p]

\* merge_reobserved_issue: a refresh keeps progress; a CLOSED issue is reopened
\* with a fresh retry window, and keeps its applied_change_id.
Reobserved(i) ==
    IF i.status # "CLOSED"
    THEN i
    ELSE [FreshBudget(Released(i, "AVAILABLE")) EXCEPT !.proposal = NoProposal]

\* Time passes the lease's expires_at.
Lapsed(i) == [i EXCEPT !.lease.live = FALSE]
=============================================================================
