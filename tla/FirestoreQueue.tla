--------------------------- MODULE FirestoreQueue ---------------------------
(***************************************************************************)
(* The work queue shared by several servers (FirestoreWorkQueue,           *)
(* agents/core/work_queue.py).  Creating, acquiring and reclaiming are     *)
(* Firestore transactions, and writing a status or adding an attempt is a  *)
(* single update: each is one step, the same as in WorkQueue.  Renewing    *)
(* and releasing are NOT: they read the issue, decide, and update some of  *)
(* its fields in a second request, with whatever happened in between lost. *)
(* The sweep lists its candidates first and reclaims each of them in a     *)
(* transaction of its own.                                                 *)
(***************************************************************************)
EXTENDS WorkQueue

CONSTANT Caller   \* the concurrent callers of renew_lease and release_lease

VARIABLES calls,       \* calls[c]: the renewal or release caller c is in the middle of
          candidates   \* issues the running sweep has listed and not yet visited

cloudVars == <<vars, calls, candidates>>

NoCall == [op |-> "none"]

\* What the second request of a renewal makes of an issue without a lease:
\* `lease` becomes a map with nothing in it but expires_at, which is read back
\* as a lease without an owner.
GhostLease == [owner |-> NoAgent, generation |-> 1, live |-> TRUE]

IsGhost(l) == l = GhostLease \/ l = [GhostLease EXCEPT !.live = FALSE]

CloudInit ==
    /\ Init
    /\ calls = [c \in Caller |-> NoCall]
    /\ candidates = {}

-----------------------------------------------------------------------------
(* renew_lease *)

StartRenew(c, id, a) ==
    /\ calls[c] = NoCall
    /\ id \in published
    /\ MayRenew(issues[id], a)
    /\ calls' = [calls EXCEPT ![c] = [op |-> "renew", issue |-> id, read |-> issues[id].lease]]
    /\ UNCHANGED <<vars, candidates>>

\* Mutant: the whole lease that was read is written back.
FinishRenewWhole(c) ==
    LET id == calls[c].issue IN
    /\ calls[c].op = "renew"
    /\ Store(id, [issues[id] EXCEPT !.lease = calls[c].read])
    /\ calls' = [calls EXCEPT ![c] = NoCall]
    /\ UNCHANGED <<published, granted, candidates>>

\* Only lease.expires_at is written, to the lease that is there by now.
FinishRenew(c) ==
    LET id == calls[c].issue IN
    /\ calls[c].op = "renew"
    /\ Store(id, IF HasLease(issues[id])
                 THEN Renewed(issues[id])
                 ELSE [issues[id] EXCEPT !.lease = GhostLease])
    /\ calls' = [calls EXCEPT ![c] = NoCall]
    /\ UNCHANGED <<published, granted, candidates>>

-----------------------------------------------------------------------------
(* release_lease *)

StartRelease(c, id, s) ==
    /\ calls[c] = NoCall
    /\ id \in published
    /\ calls' = [calls EXCEPT ![c] = [op |-> "release", issue |-> id,
                                      read |-> issues[id].lease, status |-> s]]
    /\ UNCHANGED <<vars, candidates>>

\* By a worker, whose handle is compared with the owner.
StartWorkerRelease(c, id, a, s) == MayRelease(issues[id], a) /\ StartRelease(c, id, s)

\* Mutant: an issue returns to the pool with the claim still on it.
ReleasedFromKeepingClaim(i, l, s) ==
    [i EXCEPT !.generation = IF l # NoLease THEN l.generation ELSE @,
              !.lease = NoLease,
              !.status = s]

\* The generation is taken from the lease that was read.
ReleasedFrom(i, l, s) ==
    [i EXCEPT !.generation = IF l # NoLease THEN l.generation ELSE @,
              !.lease = NoLease,
              !.status = s,
              !.claimed_by = IF s = "AVAILABLE" THEN NoAgent ELSE @]

FinishRelease(c) ==
    LET id == calls[c].issue IN
    /\ calls[c].op = "release"
    /\ Store(id, ReleasedFrom(issues[id], calls[c].read, calls[c].status))
    /\ calls' = [calls EXCEPT ![c] = NoCall]
    /\ UNCHANGED <<published, granted, candidates>>

\* The second request fails, or the server dies before it.
CallLost(c) ==
    /\ calls[c] # NoCall
    /\ calls' = [calls EXCEPT ![c] = NoCall]
    /\ UNCHANGED <<vars, candidates>>

-----------------------------------------------------------------------------
(* reclaim_expired_leases *)

StartSweep ==
    /\ candidates = {}
    /\ candidates' = {id \in published : IsReclaimable(issues[id])}
    /\ UNCHANGED <<vars, calls>>

\* Mutant: a candidate is reclaimed on the strength of the listing.
ReclaimListed(id) ==
    /\ id \in candidates
    /\ candidates' = candidates \ {id}
    /\ issues[id].failures < MaxFailures
    /\ Store(id, Reclaimed(issues[id]))
    /\ UNCHANGED <<published, granted, calls>>

\* One transaction: the owner may have renewed meanwhile, so it checks again.
ReclaimCandidate(id) ==
    /\ id \in candidates
    /\ candidates' = candidates \ {id}
    /\ issues[id].failures < MaxFailures
    /\ Store(id, IF IsReclaimable(issues[id]) THEN Reclaimed(issues[id]) ELSE issues[id])
    /\ UNCHANGED <<published, granted, calls>>

-----------------------------------------------------------------------------

\* The operations that are one request or one transaction.
AtomicOperation(id) ==
    /\ \/ UpsertObserved(id)
       \/ \E a \in Agent : AcquireLease(id, a)
       \/ \E s \in WrittenStatus : UpdateStatus(id, s)
       \/ \E p \in Proposal : LinkProposal(id, p) \/ LinkChange(id, p)
       \/ RecordFailure(id) \/ RecordRequeue(id)
       \/ Lapse(id)
    /\ UNCHANGED <<calls, candidates>>

CloudNext ==
    \/ \E id \in IssueId :
          \/ AtomicOperation(id)
          \/ ReclaimCandidate(id)
          \/ \E c \in Caller :
                \/ \E a \in Agent :
                      \/ StartRenew(c, id, a)
                      \/ \E s \in WorkerRelease : StartWorkerRelease(c, id, a, s)
                \/ \E s \in ForcedRelease : StartRelease(c, id, s)
    \/ \E c \in Caller : FinishRenew(c) \/ FinishRelease(c) \/ CallLost(c)
    \/ StartSweep

CloudSpec == CloudInit /\ [][CloudNext]_cloudVars

-----------------------------------------------------------------------------
(* Properties *)

Call == [op : {"renew"}, issue : IssueId, read : Lease]
        \cup [op : {"release"}, issue : IssueId, status : Status,
              read : Lease \cup {NoLease, GhostLease, [GhostLease EXCEPT !.live = FALSE]}]

CloudTypes ==
    /\ published \in SUBSET IssueId
    /\ \A id \in IssueId :
          \/ issues[id] \in Issue
          \/ IsGhost(issues[id].lease) /\ [issues[id] EXCEPT !.lease = NoLease] \in Issue
    /\ calls \in [Caller -> Call \cup {NoCall}]
    /\ candidates \subseteq published

\* The state is well formed.  Two-request renewals and releases may drop, revive
\* or empty a lease, but they never hand it to a past owner: a lease with an owner
\* belongs to the agent that acquire_lease last granted one, and the issue's claim
\* is that agent's.  And however stale a release was, an issue it puts back in the
\* pool carries no claim, so the next dispatch does not find it taken.
LeasesAndClaimsAgree ==
    /\ CloudTypes
    /\ \A id \in IssueId :
          LET l == issues[id].lease IN
          /\ l # NoLease /\ ~IsGhost(l) =>
                /\ l.owner = granted[id][Len(granted[id])]
                /\ issues[id].claimed_by = l.owner
          /\ issues[id].status = "AVAILABLE" => issues[id].claimed_by = NoAgent

\* A sweep that listed an issue as lapsed does not take it from a worker whose
\* renewal, or a new worker whose acquire, came in before its transaction.
SweepSparesLiveLeases ==
    [][\A id \in IssueId :
          /\ id \in candidates /\ candidates' = candidates \ {id}
          /\ issues[id].lease.live
          => issues'[id].lease = issues[id].lease]_cloudVars
-----------------------------------------------------------------------------
(* What the shared queue implements of the lease *)

Late == INSTANCE LateLease WITH
    Resource <- IssueId,
    issued   <- granted,
    owner    <- [id \in IssueId |-> issues[id].lease.owner],
    live     <- [id \in IssueId |-> issues[id].lease.live],
    asked    <- [c \in Caller |-> IF calls[c].op = "renew" THEN {calls[c].issue} ELSE {}]

\* Every behaviour of the shared queue is one of a lease whose extensions may
\* come late: whatever its renewals, releases and sweeps overtake, no lease is
\* handed out over another agent's live one, no past owner gets a lease back, and
\* what a renewal revives or extends by mistake is paid for by one renewal that
\* a live owner had asked for.
ImplementsLateLease == Late!Spec
=============================================================================
