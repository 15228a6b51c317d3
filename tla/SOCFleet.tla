------------------------------ MODULE SOCFleet ------------------------------
(***************************************************************************)
(* The whole of one server: the work queue and its workers together with   *)
(* everybody else who acts on an issue - the patrols of the scheduler, the *)
(* reviewers of proposals, the operators at the web UI - and with crashes. *)
(* All of these are handlers on the event loop (agents/core/lifecycle.py,  *)
(* proposal_manager.py, fleet_scheduler.py, clients/web/server.py).        *)
(*                                                                         *)
(* A browser may show an old state, so a request may arrive in any state:  *)
(* only the server's own checks guard the handlers.                        *)
(***************************************************************************)
EXTENDS IssueWorker

CONSTANTS MaxInterventions,  \* bound: operator requests, closings and reopenings
          MaxFaults          \* bound: crashes and failed calls

VARIABLES interventions, faults

fleetVars == <<vars, workerVars, interventions, faults>>

Intervene ==
    /\ interventions < MaxInterventions
    /\ interventions' = interventions + 1
    /\ UNCHANGED faults

NoIntervention == UNCHANGED <<interventions, faults>>

-----------------------------------------------------------------------------
(* Patrols *)

\* open_issue: a patrol opens, refreshes or reopens the issue.
PatrolFindsProblem(id) ==
    /\ pending = <<>>
    /\ UpsertObserved(id)
    /\ IF issues[id].status = "CLOSED"
       THEN Intervene /\ started' = [started EXCEPT ![id] = 0]
       ELSE NoIntervention /\ UNCHANGED started
    /\ UNCHANGED <<run, threads, pending, proposals>>

\* The problem is gone: resolve_without_change or verify_and_close.
PatrolFindsHealthy(id) ==
    /\ id \in published
    /\ \/ /\ issues[id].status \in SelfResolvable
          /\ Handler(<<Forced(id, "CLOSED"), Write(id, "CLOSED")>>)
       \/ /\ issues[id].status \in {"APPLIED", "VALIDATING"}
          /\ Handler(<<Write(id, "CLOSED"), Forced(id, "CLOSED")>>)
    /\ Intervene
    /\ UNCHANGED <<vars, run, threads, proposals, started>>

-----------------------------------------------------------------------------
(* Operators *)

OperatorRequeues(id) ==
    /\ id \in published
    /\ issues[id].status \in Attention
    /\ Handler(<<Requeued(id), Forced(id, "AVAILABLE")>>)
    /\ Intervene
    /\ UNCHANGED <<vars, run, threads, proposals, started>>

OperatorCloses(id) ==
    /\ id \in published
    /\ issues[id].status # "CLOSED"
    /\ Handler(<<Forced(id, "CLOSED"), Write(id, "CLOSED")>>)
    /\ Intervene
    /\ UNCHANGED <<vars, run, threads, proposals, started>>

\* POST .../claim: a lease on behalf of any agent; nobody starts to work.
OperatorClaims(a, id) ==
    /\ pending = <<>>
    /\ AcquireLease(id, a)
    /\ Intervene
    /\ UNCHANGED workerVars

\* POST .../release, which the web UI sends with force.
OperatorReleases(id) ==
    /\ pending = <<>>
    /\ ForceRelease(id, "AVAILABLE")
    /\ started' = [started EXCEPT ![id] = 0]
    /\ Intervene
    /\ UNCHANGED <<run, threads, pending, proposals>>

\* POST .../decide: decide_issue.
OperatorDecides(id, s) ==
    /\ pending = <<>>
    /\ UpdateStatus(id, s)
    /\ Intervene
    /\ UNCHANGED workerVars

-----------------------------------------------------------------------------
(* Reviewers *)

MoveProposal(p, from, to) ==
    /\ proposals[p].state = from
    /\ proposals' = [proposals EXCEPT ![p].state = to]
    /\ UNCHANGED <<vars, run, threads, started>>
    /\ NoIntervention

\* approve_and_merge: the mutation is executed and the file moved; the issue is
\* told last.
ReviewerApproves(p) ==
    /\ MoveProposal(p, "open", "merged")
    /\ Handler(<<Apply(proposals[p].issue, p)>>)

\* Mutant: a change nobody has applied yet is reported as applied.
ReviewerApprovesManualAsApplied(p) ==
    /\ MoveProposal(p, "open", "manual")
    /\ Handler(<<Apply(proposals[p].issue, p)>>)

\* approve_and_merge of an action without an executor: a human has to apply it.
ReviewerApprovesManual(p) ==
    /\ MoveProposal(p, "open", "manual")
    /\ Handler(<<Write(proposals[p].issue, "APPROVED")>>)

ReviewerRejects(p) ==
    /\ MoveProposal(p, "open", "rejected")
    /\ Handler(<<Write(proposals[p].issue, "BLOCKED")>>)

\* mark_manually_applied
ReviewerMarksApplied(p) ==
    /\ MoveProposal(p, "manual", "merged")
    /\ Handler(<<Apply(proposals[p].issue, p)>>)

\* abandon_manual_apply
ReviewerAbandons(p) ==
    /\ MoveProposal(p, "manual", "abandoned")
    /\ Handler(<<Abandon(proposals[p].issue)>>)

-----------------------------------------------------------------------------

\* The server stops at any point and is started again: files stay, tasks and
\* threads are gone.
Crash ==
    /\ run' = [a \in Agent |-> Idle]
    /\ threads' = {}
    /\ pending' = <<>>
    /\ UNCHANGED <<vars, proposals, started>>

Fault ==
    /\ faults < MaxFaults
    /\ faults' = faults + 1
    /\ WorkerFault \/ Crash
    /\ UNCHANGED interventions

FleetInit ==
    /\ Init
    /\ WorkerInit
    /\ interventions = 0
    /\ faults = 0

Patrol == \E id \in IssueId : PatrolFindsProblem(id) \/ PatrolFindsHealthy(id)

Operator ==
    \E id \in IssueId :
        \/ OperatorRequeues(id)
        \/ OperatorCloses(id)
        \/ \E a \in Agent : OperatorClaims(a, id)
        \/ OperatorReleases(id)
        \/ \E s \in {"APPROVED", "BLOCKED"} : OperatorDecides(id, s)

Reviewer ==
    \E p \in Proposal :
        \/ ReviewerApproves(p)
        \/ ReviewerApprovesManual(p)
        \/ ReviewerRejects(p)
        \/ ReviewerMarksApplied(p)
        \/ ReviewerAbandons(p)

FleetNext ==
    \/ WorkerStep /\ NoIntervention
    \/ Patrol
    \/ Operator
    \/ Reviewer
    \/ Fault

FleetSafety == FleetInit /\ [][FleetNext]_fleetVars

\* An attended lease is renewed by the heartbeat of a run of its owner.
Attended(id) ==
    \E a \in Agent : /\ run[a].pc # "idle"
                     /\ run[a].issue = id
                     /\ issues[id].lease.owner = a

\* What the server does by itself: the loop runs the handlers it has started,
\* the scheduler polls, tasks begin, and a run ends at the latest at its
\* time-out; a lease that nobody renews lapses.
Fairness ==
    /\ WF_fleetVars(Perform /\ NoIntervention)
    /\ WF_fleetVars(Sweep /\ NoIntervention)
    /\ \A a \in Agent :
          /\ WF_fleetVars(BeginWork(a) /\ NoIntervention)
          /\ WF_fleetVars(Interrupted(a) /\ NoIntervention)
    /\ \A id \in IssueId :
          /\ WF_fleetVars((\E a \in Agent : Dispatch(a, id)) /\ NoIntervention)
          /\ WF_fleetVars(~Attended(id) /\ Lapse(id) /\ UNCHANGED workerVars /\ NoIntervention)

FleetSpec == FleetSafety /\ Fairness

-----------------------------------------------------------------------------
(* Properties *)

FleetTypes ==
    /\ run \in [Agent -> [pc : {"idle", "claimed", "chatting"},
                          issue : IssueId \cup {NoIssue},
                          token : Nat]]
    /\ threads \subseteq [issue : IssueId, token : Nat, proposal : Proposal \cup {NoProposal}]
    /\ proposals \in [Proposal -> [state : {"none", "open", "merged", "manual",
                                            "rejected", "abandoned"},
                                   issue : IssueId \cup {NoIssue}]]
    /\ started \in [IssueId -> Nat]
    /\ \A i \in 1..Len(pending) : pending[i].issue \in published
    /\ interventions \in Nat /\ faults \in Nat

\* The state is well formed, and two agents of a server never work on the same
\* issue, not even after the lease of the first has lapsed and the issue has been
\* swept back into the pool.
NoDoubleRun ==
    /\ FleetTypes
    /\ \A a, b \in Busy : run[a].issue = run[b].issue => a = b

\* The retry budget holds through crashes, failed calls, lapses and takeovers:
\* unless an operator or a reopening puts the issue back, the fleet starts at
\* most MaxAttempts runs on it before it is left to a human - and one more when
\* the last run is taken over before the sweep.
RetryBudget ==
    \A id \in IssueId : started[id] <= MaxAttempts + 1

\* An issue is APPLIED only through a change that was made: its applied change
\* is a proposal that was merged with an executed mutation or marked applied by
\* a human.
AppliedIsMerged ==
    \A id \in IssueId :
        issues[id].status = "APPLIED" =>
            /\ issues[id].change # NoProposal
            /\ proposals[issues[id].change].state = "merged"

\* The fleet uses the queue only through its operations.
UsesQueue == Spec

\* An issue the fleet has in hand comes to rest: its change waits for review or
\* further, or a human is called.  No crash, stalled worker or abandoned thread
\* leaves it in the pool or in a worker's hands for ever.
IssuesSettle ==
    \A id \in IssueId :
        (id \in published /\ issues[id].status \in Reclaimable \cup {"AVAILABLE"})
            ~> issues[id].status \in PostWork \cup Attention

-----------------------------------------------------------------------------
(* What the documentation says and the code does not do *)

WorkerReturns(id) ==
    \E a \in Agent :
        pending # <<>> /\ Head(pending) = Release(a, id, "AVAILABLE")

\* _finish: "Proposal submitted: keep VALIDATING (and claimed_by) but drop the
\* lease."
ProposalKeepsIssue ==
    [][\A id \in IssueId :
          issues[id].status = "VALIDATING" /\ WorkerReturns(id)
          => issues'[id].status # "AVAILABLE"]_fleetVars
=============================================================================
