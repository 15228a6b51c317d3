----------------------------- MODULE WorkQueue -----------------------------
(***************************************************************************)
(* The work queue as a service (LocalWorkQueue, agents/core/work_queue.py): *)
(* a set of issues, and one action per operation.  Every operation of the  *)
(* local queue reads, changes and rewrites the issue file under one RLock, *)
(* so each is a single step.  The clients - worker agents, HTTP callers,   *)
(* operators, patrols, agent threads - are not modelled here: they call    *)
(* any operation at any time with the arguments some caller in the code    *)
(* passes.  What holds here therefore holds whatever the clients do;       *)
(* IssueWorker and SOCFleet compose the queue with its real clients.       *)
(*                                                                         *)
(* A call that the queue refuses (it returns None or False) changes        *)
(* nothing: it is a stuttering step.                                       *)
(***************************************************************************)
EXTENDS SOCIssue, Sequences

CONSTANTS IssueId,        \* ids of the issues patrols may open
          MaxGeneration,  \* bound: leases handed out per issue
          MaxFailures     \* bound: failed attempts in one retry window

ASSUME BoundAssumption == MaxGeneration \in Nat /\ MaxFailures \in Nat

VARIABLES published,  \* ids with a file in the queue
          issues,     \* the stored issues (NewIssue where there is no file yet)
          granted     \* history: the agents acquire_lease returned a lease to

vars == <<published, issues, granted>>

Init ==
    /\ published = {}
    /\ issues = [id \in IssueId |-> NewIssue]
    /\ granted = [id \in IssueId |-> <<>>]

Store(id, issue) == issues' = [issues EXCEPT ![id] = issue]

-----------------------------------------------------------------------------
(* The operations *)

\* upsert_observed_issue: create, refresh or reopen.
UpsertObserved(id) ==
    /\ published' = published \cup {id}
    /\ Store(id, IF id \in published THEN Reobserved(issues[id]) ELSE NewIssue)
    /\ UNCHANGED granted

AcquireLease(id, a) ==
    /\ id \in published
    /\ MayAcquire(issues[id], a)
    /\ Len(granted[id]) < MaxGeneration
    /\ issues[id].failures < MaxFailures
    /\ Store(id, Leased(issues[id], a))
    /\ granted' = [granted EXCEPT ![id] = Append(@, a)]
    /\ UNCHANGED published

RenewLease(id, a) ==
    /\ id \in published
    /\ MayRenew(issues[id], a)
    /\ Store(id, Renewed(issues[id]))
    /\ UNCHANGED <<published, granted>>

\* release_lease by a worker that ends its run, or by POST .../release.
ReleaseLease(id, a, s) ==
    /\ id \in published
    /\ MayRelease(issues[id], a)
    /\ Store(id, Released(issues[id], s))
    /\ UNCHANGED <<published, granted>>

\* release_lease(force=True): operators and patrols.
ForceRelease(id, s) ==
    /\ id \in published
    /\ Store(id, Released(issues[id], s))
    /\ UNCHANGED <<published, granted>>

\* update_issue_status with neither pointer.
UpdateStatus(id, s) ==
    /\ id \in published
    /\ Store(id, WithStatus(issues[id], s))
    /\ UNCHANGED <<published, granted>>

\* update_issue_status(VALIDATING, active_proposal_id=p).
LinkProposal(id, p) ==
    /\ id \in published
    /\ Store(id, WithProposal(issues[id], p))
    /\ UNCHANGED <<published, granted>>

\* update_issue_status(APPLIED, applied_change_id=p).
LinkChange(id, p) ==
    /\ id \in published
    /\ Store(id, WithChange(issues[id], p))
    /\ UNCHANGED <<published, granted>>

\* record_attempt with an outcome that counts as a failure.
RecordFailure(id) ==
    /\ id \in published
    /\ issues[id].failures < MaxFailures
    /\ Store(id, Failed(issues[id]))
    /\ UNCHANGED <<published, granted>>

\* record_attempt(OPERATOR_REQUEUED): a new retry window.
RecordRequeue(id) ==
    /\ id \in published
    /\ Store(id, FreshBudget(issues[id]))
    /\ UNCHANGED <<published, granted>>

\* reclaim_expired_leases: one sweep over all the issues under the lock.
ReclaimExpiredLeases ==
    /\ \A id \in published : IsReclaimable(issues[id]) => issues[id].failures < MaxFailures
    /\ issues' = [id \in IssueId |->
                    IF id \in published /\ IsReclaimable(issues[id])
                    THEN Reclaimed(issues[id]) ELSE issues[id]]
    /\ UNCHANGED <<published, granted>>

\* The clock reaches expires_at.
Lapse(id) ==
    /\ issues[id].lease.live
    /\ Store(id, Lapsed(issues[id]))
    /\ UNCHANGED <<published, granted>>

-----------------------------------------------------------------------------
(* The specification: the arguments are those the callers in the code pass *)

\* IssueWorker._finish, POST .../release
WorkerRelease == {"AVAILABLE", "VALIDATING"}

\* requeue_issue and POST .../release; closing; abandon_approved_change
ForcedRelease == {"AVAILABLE", "CLOSED", "NEEDS_HUMAN"}

\* IssueWorker._work, escalation, decisions and validation results, closing
WrittenStatus == {"EXECUTING", "NEEDS_HUMAN", "APPROVED", "BLOCKED",
                  "VALIDATION_FAILED", "CLOSED"}

Operation(id) ==
    \/ UpsertObserved(id)
    \/ \E a \in Agent :
          \/ AcquireLease(id, a)
          \/ RenewLease(id, a)
          \/ \E s \in WorkerRelease : ReleaseLease(id, a, s)
    \/ \E s \in ForcedRelease : ForceRelease(id, s)
    \/ \E s \in WrittenStatus : UpdateStatus(id, s)
    \/ \E p \in Proposal : LinkProposal(id, p) \/ LinkChange(id, p)
    \/ RecordFailure(id) \/ RecordRequeue(id)
    \/ Lapse(id)

Next ==
    \/ \E id \in IssueId : Operation(id)
    \/ ReclaimExpiredLeases

Spec == Init /\ [][Next]_vars

-----------------------------------------------------------------------------
(* Properties *)

\* Every stored issue is well formed, and nothing is known of an issue before
\* it is published.
TypeOK ==
    /\ published \in SUBSET IssueId
    /\ issues \in [IssueId -> Issue]
    /\ granted \in [IssueId -> Seq(Agent)]
    /\ \A id \in IssueId \ published : issues[id] = NewIssue /\ granted[id] = <<>>

\* Lease generations are fencing tokens: the generation of the lease on record,
\* or with no lease the number kept in references["lease_generation"], counts
\* every lease ever handed out on the issue, so no two leases share a generation
\* across releases, reclaims, takeovers and reopenings; and the lease on record
\* belongs to the agent it was last handed to.
FencingTokens ==
    \A id \in IssueId :
        /\ LastGeneration(issues[id]) = Len(granted[id])
        /\ HasLease(issues[id]) =>
              issues[id].lease.owner = granted[id][Len(granted[id])]

\* An issue waiting in the pool carries no lease and no claim, so find_eligible
\* never shows an AVAILABLE issue that acquire_lease would refuse.
PoolIsUnleased ==
    \A id \in IssueId :
        issues[id].status = "AVAILABLE" =>
            ~HasLease(issues[id]) /\ issues[id].claimed_by = NoAgent

\* While an issue is leased, its claim and the mirrored generation agree with
\* the lease: the number survives whoever drops the lease next.
ClaimMatchesLease ==
    \A id \in IssueId :
        HasLease(issues[id]) =>
            /\ issues[id].claimed_by = issues[id].lease.owner
            /\ issues[id].generation = issues[id].lease.generation

\* A lease that has lapsed is never revived: a late heartbeat cannot bring it
\* back once others may have been let in.
LapsedStaysLapsed ==
    [][\A id \in IssueId :
          /\ HasLease(issues[id]) /\ ~issues[id].lease.live
          /\ LastGeneration(issues'[id]) = LastGeneration(issues[id])
          => ~issues'[id].lease.live]_vars

\* A live lease is lost only by its owner's release, a forced release, the
\* reopening of an issue that was closed under it, or time: never to another
\* agent's acquire or to the sweep.
LiveLeaseIsSafe ==
    [][\A id \in IssueId :
          /\ issues[id].lease.live
          /\ issues'[id].lease.owner # issues[id].lease.owner
          => \/ issues[id].status = "CLOSED" /\ UpsertObserved(id)
             \/ \E s \in ForcedRelease : ForceRelease(id, s)
             \/ \E s \in WorkerRelease : ReleaseLease(id, issues[id].lease.owner, s)]_vars

-----------------------------------------------------------------------------
(* The queue implements the fenced lease *)

Fence == INSTANCE FencedLease WITH
    Resource <- IssueId,
    issued   <- granted,
    owner    <- [id \in IssueId |-> issues[id].lease.owner],
    token    <- [id \in IssueId |-> LastGeneration(issues[id])],
    live     <- [id \in IssueId |-> issues[id].lease.live]

\* Every behaviour of the queue is one of the abstract fenced lease.
ImplementsFencedLease == Fence!Spec
=============================================================================
