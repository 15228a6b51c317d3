--------------------------- MODULE SOCFleetProofs ---------------------------
(***************************************************************************)
(* Proofs about SOCFleet, for any agents, issues, proposals and bounds.    *)
(*                                                                         *)
(* The argument: what the loop has still to call (pending) is well formed, *)
(* concerns published issues, and is a claim only if it is the only call,  *)
(* of an agent that is idle, on an issue that is not in flight; so every   *)
(* step of the fleet makes one operation of the queue with an argument the *)
(* queue's specification allows, and the theorems about the queue hold in  *)
(* the fleet.                                                              *)
(*                                                                         *)
(* The retry budget needs more (BudgetInv): a run that ended is on record  *)
(* as a failure before its issue goes back to the pool, and a claim is     *)
(* pending only on an issue that has an attempt left.                      *)
(***************************************************************************)
EXTENDS SOCFleet, QueueProofs

-----------------------------------------------------------------------------
(* The invariant *)

\* The calls a handler may leave pending.
QueueCall ==
         [op : {"claim"}, issue : IssueId, agent : Agent]
    \cup [op : {"failure", "requeued", "abandon"}, issue : IssueId]
    \cup [op : {"release"}, issue : IssueId, agent : Agent, status : WorkerRelease]
    \cup [op : {"force"}, issue : IssueId, status : ForcedRelease]
    \cup [op : {"write"}, issue : IssueId, status : WrittenStatus]
    \cup [op : {"apply"}, issue : IssueId, proposal : Proposal]

IsMerged(p) == proposals[p].state = "merged"

\* What is true of a call as long as it is pending.
Due(c) ==
    /\ c.issue \in published
    /\ c.op = "claim" => Len(pending) = 1 /\ c.agent \notin Busy /\ c.issue \notin InFlight
    /\ c.op = "apply" => IsMerged(c.proposal)

PendingInv ==
    /\ pending \in Seq(QueueCall)
    /\ \A i \in 1..Len(pending) : Due(pending[i])

\* Runs, threads and proposals belong to published issues.
Placed ==
    /\ \A a \in Busy : run[a].issue \in published
    /\ \A t \in threads : t.issue \in published
    /\ \A p \in Proposal : proposals[p].state # "none" => proposals[p].issue \in published

Apart == \A a, b \in Busy : run[a].issue = run[b].issue => a = b

\* FleetTypes, without the pending calls and the counters.
ActorTypes ==
    /\ run \in [Agent -> [pc : {"idle", "claimed", "chatting"},
                          issue : IssueId \cup {NoIssue},
                          token : Nat]]
    /\ threads \subseteq [issue : IssueId, token : Nat, proposal : Proposal \cup {NoProposal}]
    /\ proposals \in [Proposal -> [state : {"none", "open", "merged", "manual",
                                            "rejected", "abandoned"},
                                   issue : IssueId \cup {NoIssue}]]
    /\ started \in [IssueId -> Nat]

Counters == interventions \in Nat /\ faults \in Nat

FleetInv ==
    /\ TypeOK /\ AppliedIsMerged
    /\ ActorTypes /\ Placed /\ Apart
    /\ PendingInv
    /\ Counters

-----------------------------------------------------------------------------
(* Calls and sequences of calls *)

\* The calls the handlers leave are queue calls.
LEMMA CallsAreCalls ==
    ASSUME NEW id \in IssueId
    PROVE  /\ Failure(id) \in QueueCall
           /\ Requeued(id) \in QueueCall
           /\ Abandon(id) \in QueueCall
           /\ \A s \in ForcedRelease : Forced(id, s) \in QueueCall
           /\ \A s \in WrittenStatus : Write(id, s) \in QueueCall
<1>1. /\ Failure(id) \in QueueCall
      /\ Requeued(id) \in QueueCall
      /\ Abandon(id) \in QueueCall
  BY DEF QueueCall, Failure, Requeued, Abandon
<1>2. ASSUME NEW s \in ForcedRelease PROVE Forced(id, s) \in QueueCall
  BY DEF QueueCall, Forced
<1>3. ASSUME NEW s \in WrittenStatus PROVE Write(id, s) \in QueueCall
  BY DEF QueueCall, Write
<1> QED
  BY <1>1, <1>2, <1>3

\* The calls of an agent and of a handler are calls of the queue.
LEMMA AgentCallsAreCalls ==
    ASSUME NEW id \in IssueId, NEW a \in Agent
    PROVE  /\ Claim(a, id) \in QueueCall
           /\ \A s \in WorkerRelease : Release(a, id, s) \in QueueCall
<1>1. Claim(a, id) \in QueueCall
  BY DEF QueueCall, Claim
<1>2. ASSUME NEW s \in WorkerRelease PROVE Release(a, id, s) \in QueueCall
  BY DEF QueueCall, Release
<1> QED
  BY <1>1, <1>2

\* So is the application of a proposal.
LEMMA ApplyIsCall ==
    ASSUME NEW id \in IssueId, NEW p \in Proposal
    PROVE  Apply(id, p) \in QueueCall
BY DEF QueueCall, Apply

\* What a queue call carries.
LEMMA CallFacts ==
    ASSUME NEW c \in QueueCall
    PROVE  /\ c.issue \in IssueId
           /\ c.op \in {"claim", "release"} => c.agent \in Agent
           /\ c.op = "release" => c.status \in WorkerRelease
           /\ c.op = "force" => c.status \in ForcedRelease
           /\ c.op = "write" => c.status \in WrittenStatus
           /\ c.op = "apply" => c.proposal \in Proposal
BY DEF QueueCall

\* The head of the pending calls is due.
LEMMA HeadIsDue ==
    ASSUME PendingInv, pending # <<>>
    PROVE  Head(pending) \in QueueCall /\ Due(Head(pending))
BY DEF PendingInv

\* A handler that leaves one call, or two that are no claims.
LEMMA OneCall ==
    ASSUME NEW c \in QueueCall, pending' = <<c>>, Due(c)'
    PROVE  PendingInv'
BY DEF PendingInv

\* Two calls of which neither is a claim may be pending together.
LEMMA TwoCalls ==
    ASSUME NEW c \in QueueCall, NEW d \in QueueCall, pending' = <<c, d>>,
           c.op \notin {"claim", "apply"}, d.op \notin {"claim", "apply"},
           c.issue \in published', d.issue \in published'
    PROVE  PendingInv'
<1>1. pending' \in Seq(QueueCall) /\ Len(pending') = 2 /\ pending'[1] = c /\ pending'[2] = d
  OBVIOUS
<1>2. \A i \in 1..2 : i = 1 \/ i = 2
  OBVIOUS
<1> QED
  BY <1>1, <1>2 DEF PendingInv, Due

\* An empty list of calls is well formed.
LEMMA NoCalls == ASSUME pending' = <<>> PROVE PendingInv'
BY DEF PendingInv

-----------------------------------------------------------------------------
(* What a step of the fleet does to the queue *)

\* The operations of the queue but LinkChange.
PlainOperation(id) ==
    \/ UpsertObserved(id)
    \/ \E a \in Agent :
          \/ AcquireLease(id, a)
          \/ RenewLease(id, a)
          \/ \E s \in WorkerRelease : ReleaseLease(id, a, s)
    \/ \E s \in ForcedRelease : ForceRelease(id, s)
    \/ \E s \in WrittenStatus : UpdateStatus(id, s)
    \/ \E p \in Proposal : LinkProposal(id, p)
    \/ RecordFailure(id) \/ RecordRequeue(id)
    \/ Lapse(id)

Plain ==
    \/ \E id \in IssueId : PlainOperation(id)
    \/ ReclaimExpiredLeases
    \/ UNCHANGED vars

\* An issue is linked to a change that was made.
Applies == \E id \in IssueId, p \in Proposal : LinkChange(id, p) /\ IsMerged(p)

\* The call that the loop makes next is one of these.
LEMMA PerformIsQueueStep ==
    ASSUME FleetInv, Perform
    PROVE  Plain \/ Applies
<1> DEFINE c == Head(pending)
<1>1. c \in QueueCall /\ Due(c)
  BY HeadIsDue DEF FleetInv, Perform
<1>2. c.issue \in IssueId
  BY <1>1, CallFacts
<1>3. CASE c.op = "claim" /\ PerformClaim(c.agent, c.issue)
  <2>1. c.agent \in Agent
    BY <1>1, <1>3, CallFacts
  <2> QED
    BY <1>2, <1>3, <2>1 DEF PerformClaim, Plain, PlainOperation
<1>4. CASE c.op = "abandon" /\ PerformAbandon(c.issue)
  BY <1>4 DEF PerformAbandon, Plain
<1>5. CASE c.op = "failure" /\ RecordFailure(c.issue)
  BY <1>2, <1>5 DEF Plain, PlainOperation
<1>6. CASE c.op = "requeued" /\ RecordRequeue(c.issue)
  BY <1>2, <1>6 DEF Plain, PlainOperation
<1>7. CASE c.op = "release" /\ PerformRelease(c.agent, c.issue, c.status)
  <2>1. c.agent \in Agent /\ c.status \in WorkerRelease
    BY <1>1, <1>7, CallFacts
  <2> QED
    BY <1>2, <1>7, <2>1 DEF PerformRelease, Plain, PlainOperation
<1>8. CASE c.op = "force" /\ ForceRelease(c.issue, c.status)
  <2>1. c.status \in ForcedRelease
    BY <1>1, <1>8, CallFacts
  <2> QED
    BY <1>2, <1>8, <2>1 DEF Plain, PlainOperation
<1>9. CASE c.op = "write" /\ UpdateStatus(c.issue, c.status)
  <2>1. c.status \in WrittenStatus
    BY <1>1, <1>9, CallFacts
  <2> QED
    BY <1>2, <1>9, <2>1 DEF Plain, PlainOperation
<1>10. CASE c.op = "apply" /\ LinkChange(c.issue, c.proposal)
  <2>1. c.proposal \in Proposal /\ IsMerged(c.proposal)
    BY <1>1, <1>10, CallFacts DEF Due
  <2> QED
    BY <1>2, <1>10, <2>1 DEF Applies
<1> HIDE DEF c
<1>11. \/ c.op = "claim" /\ PerformClaim(c.agent, c.issue)
       \/ c.op = "abandon" /\ PerformAbandon(c.issue)
       \/ c.op = "failure" /\ RecordFailure(c.issue)
       \/ c.op = "requeued" /\ RecordRequeue(c.issue)
       \/ c.op = "release" /\ PerformRelease(c.agent, c.issue, c.status)
       \/ c.op = "force" /\ ForceRelease(c.issue, c.status)
       \/ c.op = "write" /\ UpdateStatus(c.issue, c.status)
       \/ c.op = "apply" /\ LinkChange(c.issue, c.proposal)
  BY DEF Perform, c
<1> QED
  BY <1>3, <1>4, <1>5, <1>6, <1>7, <1>8, <1>9, <1>10, <1>11

\* Nothing goes around the queue.
LEMMA QueuePart ==
    ASSUME FleetInv, [FleetNext]_fleetVars
    PROVE  Plain \/ Applies
<1>1. published \subseteq IssueId /\ (\A t \in threads : t.issue \in published)
  BY DEF FleetInv, TypeOK, Placed
<1>2. CASE UNCHANGED fleetVars
  BY <1>2 DEF fleetVars, Plain
<1>3. CASE WorkerStep
  <2>1. ASSUME NEW a \in Agent, BeginWork(a)
        PROVE  Plain
    <3>1. run[a].issue \in IssueId /\ "EXECUTING" \in WrittenStatus
      BY <1>1, <2>1 DEF BeginWork, UpdateStatus, WrittenStatus
    <3> QED
      BY <2>1, <3>1 DEF BeginWork, Plain, PlainOperation
  <2>2. ASSUME NEW t \in threads, SubmitLink(t)
        PROVE  Plain
    <3>1. t.issue \in IssueId /\ t.proposal \in Proposal
      BY <1>1, <2>2 DEF FleetInv, ActorTypes, SubmitLink
    <3> QED
      BY <2>2, <3>1 DEF SubmitLink, Plain, PlainOperation
  <2>3. ASSUME NEW a \in Agent,
               \/ \E id \in IssueId : Dispatch(a, id)
               \/ ChatReturns(a) \/ ChatFails(a) \/ Interrupted(a)
        PROVE  Plain
    BY <2>3 DEF Dispatch, ChatReturns, ChatFails, Interrupted, Plain
  <2>4. ASSUME NEW t \in threads,
               (\E p \in Proposal : SubmitProposal(t, p)) \/ OrphanEnds(t)
        PROVE  Plain
    BY <2>4 DEF SubmitProposal, OrphanEnds, Plain
  <2>5. CASE Sweep \/ \E id \in IssueId : Lapse(id) /\ UNCHANGED workerVars
    BY <2>5 DEF Sweep, Plain, PlainOperation
  <2> QED
    BY <1>3, <2>1, <2>2, <2>3, <2>4, <2>5, PerformIsQueueStep DEF WorkerStep
<1>4. CASE Patrol
  BY <1>4 DEF Patrol, PatrolFindsProblem, PatrolFindsHealthy, Plain, PlainOperation
<1>5. CASE Operator
  <2>1. ASSUME NEW id \in IssueId, OperatorRequeues(id) \/ OperatorCloses(id)
        PROVE  Plain
    BY <2>1 DEF OperatorRequeues, OperatorCloses, Plain
  <2>2. ASSUME NEW id \in IssueId, NEW a \in Agent, OperatorClaims(a, id)
        PROVE  Plain
    BY <2>2 DEF OperatorClaims, Plain, PlainOperation
  <2>3. ASSUME NEW id \in IssueId, OperatorReleases(id)
        PROVE  Plain
    BY <2>3 DEF OperatorReleases, ForcedRelease, Plain, PlainOperation
  <2>4. ASSUME NEW id \in IssueId, NEW s \in {"APPROVED", "BLOCKED"}, OperatorDecides(id, s)
        PROVE  Plain
    BY <2>4 DEF OperatorDecides, WrittenStatus, Plain, PlainOperation
  <2> QED
    BY <1>5, <2>1, <2>2, <2>3, <2>4 DEF Operator
<1>6. CASE Reviewer
  BY <1>6 DEF Reviewer, ReviewerApproves, ReviewerApprovesManual, ReviewerRejects,
              ReviewerMarksApplied, ReviewerAbandons, MoveProposal, Plain
<1>7. CASE Fault
  <2>1. CASE HandlerFails \/ Crash \/ \E t \in threads : SubmitLinkFails(t)
    BY <2>1 DEF HandlerFails, Crash, SubmitLinkFails, Plain
  <2>2. CASE ClaimLedgerFails
    <3>1. Head(pending) \in QueueCall /\ Head(pending).op = "claim"
      BY <2>2, HeadIsDue DEF FleetInv, ClaimLedgerFails
    <3>2. Head(pending).issue \in IssueId /\ Head(pending).agent \in Agent
      BY <3>1, CallFacts
    <3> QED
      BY <2>2, <3>2 DEF ClaimLedgerFails, Plain, PlainOperation
  <2> QED
    BY <1>7, <2>1, <2>2 DEF Fault, WorkerFault
<1> QED
  BY <1>2, <1>3, <1>4, <1>5, <1>6, <1>7 DEF FleetNext

\* A step of the fleet is a step of the queue.
LEMMA FleetStepIsQueueStep ==
    ASSUME FleetInv, [FleetNext]_fleetVars
    PROVE  [Next]_vars
BY QueuePart DEF Plain, PlainOperation, Applies, Next, Operation

\* No file is ever removed from the queue.
LEMMA PublishedGrows == ASSUME [Next]_vars PROVE published \subseteq published'
BY DEF Next, Operation, UpsertObserved, AcquireLease, RenewLease, ReleaseLease,
       ForceRelease, UpdateStatus, LinkProposal, LinkChange, RecordFailure,
       RecordRequeue, ReclaimExpiredLeases, Lapse, vars

\* An issue that is APPLIED after a plain operation was APPLIED before it, through
\* the same change.
LEMMA PlainAppliesNothing ==
    ASSUME TypeOK, Plain, NEW id \in IssueId, issues'[id].status = "APPLIED"
    PROVE  issues[id].status = "APPLIED" /\ issues'[id].change = issues[id].change
<1> DEFINE Same(i) == issues[id].status = "APPLIED" /\ i.change = issues[id].change
<1>1. issues[id] \in Issue
  BY DEF TypeOK
<1>2. \A o \in IssueId : \A x : Store(o, x) => issues'[id] = IF o = id THEN x ELSE issues[id]
  BY DEF Store, TypeOK
<1>3. issues'[id] = issues[id] => Same(issues'[id])
  OBVIOUS
<1>4. \A s \in Status : s # "APPLIED" =>
         /\ WithStatus(issues[id], s).status # "APPLIED"
         /\ Released(issues[id], s).status # "APPLIED"
  BY <1>1, ReleasedType DEF WithStatus, Issue
<1>5. /\ WorkerRelease \subseteq Status \ {"APPLIED"}
      /\ ForcedRelease \subseteq Status \ {"APPLIED"}
      /\ WrittenStatus \subseteq Status \ {"APPLIED"}
  BY DEF WorkerRelease, ForcedRelease, WrittenStatus, Status, Reclaimable,
         SelfResolvable, Attention, PostWork
<1>6. ASSUME NEW o \in IssueId, UpsertObserved(o)
      PROVE  Same(issues'[id])
  <2>1. Reobserved(issues[id]).status = "APPLIED" => Reobserved(issues[id]) = issues[id]
    <3>1. "AVAILABLE" \in Status
      BY DEF Status, SelfResolvable
    <3>2. /\ Released(issues[id], "AVAILABLE") \in Issue
          /\ Released(issues[id], "AVAILABLE").status = "AVAILABLE"
      BY <1>1, <3>1, ReleasedType
    <3>3. [FreshBudget(Released(issues[id], "AVAILABLE")) EXCEPT !.proposal = NoProposal].status
             = "AVAILABLE"
      BY <3>2 DEF FreshBudget, Issue
    <3> QED
      BY <3>3 DEF Reobserved
  <2>2. NewIssue.status # "APPLIED"
    BY DEF NewIssue
  <2> QED
    BY <1>2, <1>3, <1>6, <2>1, <2>2 DEF UpsertObserved
<1>7. ASSUME NEW o \in IssueId, NEW a \in Agent, AcquireLease(o, a)
      PROVE  Same(issues'[id])
  <2>1. Leased(issues[id], a).status = "LEASED"
    BY <1>1, LeasedType
  <2> QED
    BY <1>2, <1>3, <1>7, <2>1 DEF AcquireLease
<1>8. ASSUME NEW o \in IssueId, NEW a \in Agent, RenewLease(o, a)
      PROVE  Same(issues'[id])
  BY <1>1, <1>2, <1>3, <1>8, RenewedType DEF RenewLease, MayRenew
<1>9. ASSUME NEW o \in IssueId, NEW a \in Agent, NEW s \in WorkerRelease, ReleaseLease(o, a, s)
      PROVE  Same(issues'[id])
  BY <1>2, <1>3, <1>4, <1>5, <1>9 DEF ReleaseLease
<1>10. ASSUME NEW o \in IssueId, NEW s \in ForcedRelease, ForceRelease(o, s)
       PROVE  Same(issues'[id])
  BY <1>2, <1>3, <1>4, <1>5, <1>10 DEF ForceRelease
<1>11. ASSUME NEW o \in IssueId, NEW s \in WrittenStatus, UpdateStatus(o, s)
       PROVE  Same(issues'[id])
  BY <1>2, <1>3, <1>4, <1>5, <1>11 DEF UpdateStatus
<1>12. ASSUME NEW o \in IssueId, NEW p \in Proposal, LinkProposal(o, p)
       PROVE  Same(issues'[id])
  <2>1. WithProposal(issues[id], p).status = "VALIDATING"
    BY <1>1 DEF WithProposal, Issue
  <2> QED
    BY <1>2, <1>3, <1>12, <2>1 DEF LinkProposal
<1>13. ASSUME NEW o \in IssueId, RecordFailure(o) \/ RecordRequeue(o)
       PROVE  Same(issues'[id])
  <2>1. /\ Failed(issues[id]).status = issues[id].status
        /\ Failed(issues[id]).change = issues[id].change
        /\ FreshBudget(issues[id]).status = issues[id].status
        /\ FreshBudget(issues[id]).change = issues[id].change
    BY <1>1 DEF Failed, FreshBudget, Issue
  <2> QED
    BY <1>2, <1>3, <1>13, <2>1 DEF RecordFailure, RecordRequeue
<1>14. ASSUME NEW o \in IssueId, Lapse(o)
       PROVE  Same(issues'[id])
  <2>1. /\ Lapsed(issues[id]).status = issues[id].status
        /\ Lapsed(issues[id]).change = issues[id].change
    BY <1>1 DEF Lapsed, Issue
  <2> QED
    BY <1>2, <1>3, <1>14, <2>1 DEF Lapse
<1>15. ASSUME ReclaimExpiredLeases
       PROVE  Same(issues'[id])
  <2>1. Reclaimed(issues[id]).status = "AVAILABLE"
    BY <1>1, ReleasedType, FailedType DEF Reclaimed, Status, SelfResolvable
  <2> QED
    BY <1>3, <1>15, <2>1 DEF ReclaimExpiredLeases
<1>16. ASSUME UNCHANGED vars
       PROVE  Same(issues'[id])
  BY <1>3, <1>16 DEF vars
<1> QED
  BY <1>6, <1>7, <1>8, <1>9, <1>10, <1>11, <1>12, <1>13, <1>14, <1>15, <1>16
     DEF Plain, PlainOperation

\* A merge is final.
LEMMA MergeIsFinal ==
    ASSUME ActorTypes, [FleetNext]_fleetVars
    PROVE  \A p \in Proposal : IsMerged(p) => IsMerged(p)'
<1> USE DEF IsMerged
<1>1. CASE UNCHANGED proposals
  BY <1>1
<1>2. ASSUME NEW t \in threads, NEW p \in Proposal, SubmitProposal(t, p)
      PROVE  \A q \in Proposal : IsMerged(q) => IsMerged(q)'
  BY <1>2 DEF SubmitProposal, ActorTypes
<1>3. ASSUME NEW p \in Proposal, NEW to, MoveProposal(p, "open", to) \/ MoveProposal(p, "manual", to)
      PROVE  \A q \in Proposal : IsMerged(q) => IsMerged(q)'
  BY <1>3 DEF MoveProposal, ActorTypes
<1>4. CASE Reviewer
  BY <1>3, <1>4 DEF Reviewer, ReviewerApproves, ReviewerApprovesManual, ReviewerRejects,
                    ReviewerMarksApplied, ReviewerAbandons
<1>5. CASE WorkerStep
  BY <1>1, <1>2, <1>5 DEF WorkerStep, Dispatch, BeginWork, ChatReturns, ChatFails, Interrupted,
     SubmitLink, OrphanEnds, Sweep, Perform, workerVars
<1>6. CASE Patrol \/ Operator \/ Fault \/ UNCHANGED fleetVars
  BY <1>1, <1>6 DEF Patrol, PatrolFindsProblem, PatrolFindsHealthy, Operator,
     OperatorRequeues, OperatorCloses, OperatorClaims, OperatorReleases, OperatorDecides,
     Fault, WorkerFault, HandlerFails, ClaimLedgerFails, SubmitLinkFails, Crash,
     workerVars, fleetVars
<1> QED
  BY <1>4, <1>5, <1>6 DEF FleetNext

\* What is applied was merged, after every step.
LEMMA AppliedStep ==
    ASSUME FleetInv, [FleetNext]_fleetVars
    PROVE  AppliedIsMerged'
<1>1. TypeOK /\ ActorTypes /\ AppliedIsMerged
  BY DEF FleetInv
<1>2. ASSUME NEW id \in IssueId, issues'[id].status = "APPLIED"
      PROVE  /\ issues'[id].change # NoProposal
             /\ proposals'[issues'[id].change].state = "merged"
  <2>1. CASE issues[id].status = "APPLIED" /\ issues'[id].change = issues[id].change
    <3>1. issues[id].change \in Proposal /\ IsMerged(issues[id].change)
      BY <1>1, <2>1 DEF AppliedIsMerged, TypeOK, Issue, IsMerged
    <3> QED
      BY <1>1, <2>1, <3>1, MergeIsFinal, NullAssumption DEF IsMerged
  <2>2. ASSUME NEW o \in IssueId, NEW p \in Proposal, LinkChange(o, p), IsMerged(p), o = id
        PROVE  issues'[id].change = p
    BY <1>1, <2>2 DEF LinkChange, Store, WithChange, TypeOK, Issue
  <2>3. ASSUME NEW o \in IssueId, NEW p \in Proposal, LinkChange(o, p), o # id
        PROVE  issues'[id] = issues[id]
    BY <1>1, <2>3 DEF LinkChange, Store, TypeOK
  <2>4. CASE Applies
    <3>1. PICK o \in IssueId, p \in Proposal : LinkChange(o, p) /\ IsMerged(p)
      BY <2>4 DEF Applies
    <3>2. CASE o = id
      BY <1>1, <2>2, <3>1, <3>2, MergeIsFinal, NullAssumption DEF IsMerged
    <3>3. CASE o # id
      BY <1>2, <2>1, <2>3, <3>1, <3>3
    <3> QED
      BY <3>2, <3>3
  <2>5. CASE Plain
    BY <1>1, <1>2, <2>1, <2>5, PlainAppliesNothing
  <2> QED
    BY <2>4, <2>5, QueuePart
<1> QED
  BY <1>2 DEF AppliedIsMerged

-----------------------------------------------------------------------------
(* What a step of the fleet does to the runs, the threads and the calls *)

\* Calls that stay pending stay due.
LEMMA CallsStay ==
    ASSUME PendingInv, pending' = pending, published \subseteq published',
           run' = run \/ pending = <<>>,
           \A p \in Proposal : IsMerged(p) => IsMerged(p)'
    PROVE  PendingInv'
<1>1. CASE pending = <<>>
  BY <1>1, NoCalls
<1>2. CASE run' = run
  <2>1. Busy' = Busy /\ InFlight' = InFlight
    BY <1>2 DEF Busy, InFlight
  <2>2. ASSUME NEW i \in 1..Len(pending)
        PROVE  Due(pending[i])'
    <3>1. pending[i] \in QueueCall /\ Due(pending[i])
      BY DEF PendingInv
    <3> QED
      BY <2>1, <3>1, CallFacts DEF Due
  <2> QED
    BY <2>2 DEF PendingInv
<1> QED
  BY <1>1, <1>2

\* The calls that remain after the first one: none of them is a claim.
LEMMA CallsGoOn ==
    ASSUME PendingInv, pending # <<>>, pending' = Tail(pending),
           published \subseteq published',
           \A p \in Proposal : IsMerged(p) => IsMerged(p)'
    PROVE  PendingInv'
<1>1. /\ pending' \in Seq(QueueCall)
      /\ Len(pending') = Len(pending) - 1
      /\ \A i \in 1..Len(pending') : pending'[i] = pending[i + 1] /\ i + 1 \in 1..Len(pending)
  BY DEF PendingInv
<1>2. ASSUME NEW c \in QueueCall, Due(c), c.op # "claim"
      PROVE  Due(c)'
  BY <1>2, CallFacts DEF Due
<1>3. ASSUME NEW i \in 1..Len(pending')
      PROVE  /\ pending[i + 1] \in QueueCall
             /\ Due(pending[i + 1])
             /\ pending[i + 1].op # "claim"
  <2>1. /\ i + 1 \in 1..Len(pending) /\ Len(pending) # 1
        /\ pending[i + 1] \in QueueCall /\ Due(pending[i + 1])
    BY <1>1 DEF PendingInv
  <2> QED
    BY <2>1 DEF Due
<1>4. ASSUME NEW i \in 1..Len(pending'), NEW c, c = pending'[i]
      PROVE  Due(c)'
  BY <1>1, <1>2, <1>3, <1>4
<1>5. \A i \in 1..Len(pending') : Due(pending[i])'
  BY <1>4 DEF Due
<1> QED
  BY <1>1, <1>5 DEF PendingInv

\* Nobody begins or ends a run: the actors stay apart and in place.
ActorInv == ActorTypes /\ Placed /\ Apart

LEMMA ActorsStay ==
    ASSUME ActorInv, published \subseteq published', started' \in [IssueId -> Nat],
           UNCHANGED <<run, threads, proposals>>
    PROVE  ActorInv'
BY DEF ActorInv, ActorTypes, Placed, Apart, Busy

\* A run ends; its thread may go on.
LEMMA RunEnds ==
    ASSUME ActorInv, published \subseteq published', NEW a \in Agent,
           run' = [run EXCEPT ![a] = Idle], threads' \subseteq threads,
           UNCHANGED <<proposals, started>>
    PROVE  ActorInv'
<1>1. /\ run' \in [Agent -> [pc : {"idle", "claimed", "chatting"},
                             issue : IssueId \cup {NoIssue}, token : Nat]]
      /\ \A b \in Agent : run'[b].pc # "idle" => run'[b] = run[b]
  BY DEF ActorInv, ActorTypes, Idle
<1> QED
  BY <1>1 DEF ActorInv, ActorTypes, Placed, Apart, Busy

\* A thread changes what it is at.
LEMMA ThreadSteps ==
    ASSUME ActorInv, published \subseteq published', NEW t \in threads,
           NEW p \in Proposal \cup {NoProposal},
           threads' = (threads \ {t}) \cup {[t EXCEPT !.proposal = p]},
           UNCHANGED <<run, proposals, started>>
    PROVE  ActorInv'
<1>1. t \in [issue : IssueId, token : Nat, proposal : Proposal \cup {NoProposal}]
      /\ t.issue \in published
  BY DEF ActorInv, ActorTypes, Placed
<1>2. /\ [t EXCEPT !.proposal = p] \in
             [issue : IssueId, token : Nat, proposal : Proposal \cup {NoProposal}]
      /\ [t EXCEPT !.proposal = p].issue \in published
  BY <1>1
<1> QED
  BY <1>2 DEF ActorInv, ActorTypes, Placed, Apart, Busy

\* The dispatcher, the runs and the threads.
LEMMA WorkerPart ==
    ASSUME FleetInv, WorkerStep, ~Perform, published \subseteq published',
           \A p \in Proposal : IsMerged(p) => IsMerged(p)'
    PROVE  ActorInv' /\ PendingInv'
<1>1. /\ TypeOK /\ ActorInv /\ PendingInv
      /\ ActorTypes /\ Placed /\ published \subseteq IssueId
  BY DEF FleetInv, ActorInv, TypeOK
<1>2. ASSUME NEW a \in Agent, NEW id \in IssueId, Dispatch(a, id)
      PROVE  ActorInv' /\ PendingInv'
  <2>1. id \in published' /\ id \notin InFlight' /\ a \notin Busy'
    BY <1>2 DEF Dispatch, InFlight, Busy
  <2>2. ActorInv'
    BY <1>1, <1>2, ActorsStay DEF Dispatch, ActorTypes
  <2>3. CASE pending' = <<Claim(a, id)>>
    <3>1. Due(Claim(a, id))'
      BY <2>1, <2>3 DEF Due, Claim
    <3> QED
      BY <2>2, <2>3, <3>1, AgentCallsAreCalls, OneCall
  <2>4. CASE pending' = <<Write(id, "NEEDS_HUMAN")>>
    <3>1. Due(Write(id, "NEEDS_HUMAN"))'
      BY <2>1 DEF Due, Write
    <3>2. Write(id, "NEEDS_HUMAN") \in QueueCall
      BY CallsAreCalls DEF WrittenStatus
    <3> QED
      BY <2>2, <2>4, <3>1, <3>2, OneCall
  <2> QED
    BY <1>2, <2>3, <2>4 DEF Dispatch, Handler
<1>3. ASSUME NEW a \in Agent, BeginWork(a)
      PROVE  ActorInv' /\ PendingInv'
  <2>1. /\ run[a].issue \in published
        /\ run[a] \in [pc : {"idle", "claimed", "chatting"}, issue : IssueId \cup {NoIssue}, token : Nat]
    BY <1>1, <1>3 DEF BeginWork, ActorTypes, Placed, Busy
  <2>2. run[a].issue \in IssueId /\ run[a].token \in Nat
    BY <1>1, <2>1
  <2>3. ThreadOf(run[a]) \in [issue : IssueId, token : Nat, proposal : Proposal \cup {NoProposal}]
        /\ ThreadOf(run[a]).issue = run[a].issue
    BY <2>2 DEF ThreadOf
  <2>4. /\ run' \in [Agent -> [pc : {"idle", "claimed", "chatting"},
                               issue : IssueId \cup {NoIssue}, token : Nat]]
        /\ \A b \in Agent : run'[b].issue = run[b].issue
        /\ Busy' = Busy
    BY <1>1, <1>3 DEF BeginWork, ActorTypes, Busy
  <2>5. ActorInv'
    BY <1>1, <1>3, <2>1, <2>3, <2>4 DEF BeginWork, ActorInv, ActorTypes, Placed, Apart
  <2> QED
    BY <1>3, <2>5, NoCalls DEF BeginWork
<1>4. ASSUME NEW a \in Agent, ChatReturns(a) \/ ChatFails(a) \/ Interrupted(a)
      PROVE  ActorInv' /\ PendingInv'
  <2>1. ActorInv'
    BY <1>1, <1>4, RunEnds DEF ChatReturns, ChatFails, Interrupted
  <2>2. PICK id \in IssueId : id = run[a].issue /\ id \in published
    BY <1>1, <1>4 DEF ChatReturns, ChatFails, Interrupted, Placed, Busy
  <2>3. \/ pending' = <<Release(a, id, "VALIDATING")>>
        \/ pending' = <<Failure(id), Release(a, id, "AVAILABLE")>>
    BY <1>4, <2>2 DEF ChatReturns, ChatFails, Interrupted, Handler, Unsuccessful
  <2>4. /\ Release(a, id, "VALIDATING") \in QueueCall
        /\ Release(a, id, "AVAILABLE") \in QueueCall
        /\ Failure(id) \in QueueCall
    BY <2>2, CallsAreCalls, AgentCallsAreCalls DEF WorkerRelease
  <2>5. CASE pending' = <<Release(a, id, "VALIDATING")>>
    <3>1. Due(Release(a, id, "VALIDATING"))'
      BY <1>1, <2>2 DEF Due, Release
    <3> QED
      BY <2>1, <2>4, <2>5, <3>1, OneCall
  <2>6. CASE pending' = <<Failure(id), Release(a, id, "AVAILABLE")>>
    <3>1. /\ Failure(id).op = "failure" /\ Failure(id).issue = id
          /\ Release(a, id, "AVAILABLE").op = "release" /\ Release(a, id, "AVAILABLE").issue = id
      BY DEF Failure, Release
    <3>2. PendingInv'
      BY <2>2, <2>4, <2>6, <3>1, TwoCalls
    <3> QED
      BY <2>1, <3>2
  <2> QED
    BY <2>3, <2>5, <2>6
<1>5. ASSUME NEW t \in threads, NEW p \in Proposal, SubmitProposal(t, p)
      PROVE  ActorInv' /\ PendingInv'
  <2>1. t \in [issue : IssueId, token : Nat, proposal : Proposal \cup {NoProposal}]
        /\ t.issue \in published
    BY <1>1 DEF ActorTypes, Placed
  <2>2. /\ [t EXCEPT !.proposal = p] \in
               [issue : IssueId, token : Nat, proposal : Proposal \cup {NoProposal}]
        /\ [t EXCEPT !.proposal = p].issue \in published
        /\ t.issue \in IssueId
    BY <2>1
  <2>3. /\ proposals' \in [Proposal -> [state : {"none", "open", "merged", "manual",
                                                "rejected", "abandoned"},
                                       issue : IssueId \cup {NoIssue}]]
        /\ \A q \in Proposal : proposals'[q] = IF q = p THEN [state |-> "open", issue |-> t.issue]
                                                ELSE proposals[q]
    BY <1>1, <1>5, <2>2 DEF SubmitProposal, ActorTypes
  <2>4. ActorInv'
    BY <1>1, <1>5, <2>1, <2>2, <2>3 DEF SubmitProposal, ActorInv, ActorTypes, Placed, Apart, Busy
  <2> QED
    BY <1>1, <1>5, <2>4, CallsStay DEF SubmitProposal
<1>6. ASSUME NEW t \in threads, SubmitLink(t)
      PROVE  ActorInv' /\ PendingInv'
  BY <1>1, <1>6, ThreadSteps, CallsStay DEF SubmitLink
<1>7. ASSUME NEW t \in threads, OrphanEnds(t)
      PROVE  ActorInv' /\ PendingInv'
  <2>1. ActorInv'
    BY <1>1, <1>7 DEF OrphanEnds, ActorInv, ActorTypes, Placed, Apart, Busy
  <2> QED
    BY <1>1, <1>7, <2>1, CallsStay DEF OrphanEnds
<1>8. ASSUME Sweep \/ \E id \in IssueId : Lapse(id) /\ UNCHANGED workerVars
      PROVE  ActorInv' /\ PendingInv'
  BY <1>1, <1>8, ActorsStay, CallsStay DEF Sweep, workerVars, ActorTypes
<1> QED
  BY <1>2, <1>3, <1>4, <1>5, <1>6, <1>7, <1>8 DEF WorkerStep

\* Two calls put before the rest.
LEMMA TwoBefore ==
    ASSUME PendingInv, pending # <<>>, NEW c \in QueueCall, NEW d \in QueueCall,
           pending' = <<c, d>> \o Tail(pending)
    PROVE  /\ pending' \in Seq(QueueCall) /\ Len(pending) \in Nat
           /\ Len(pending') = Len(pending) + 1
           /\ pending'[1] = c /\ pending'[2] = d
           /\ \A i \in 3..Len(pending') : pending'[i] = pending[i - 1] /\ i - 1 \in 2..Len(pending)
<1>1. /\ Tail(pending) \in Seq(QueueCall)
      /\ Len(Tail(pending)) = Len(pending) - 1 /\ Len(pending) \in Nat
      /\ \A i \in 1..Len(Tail(pending)) : Tail(pending)[i] = pending[i + 1] /\ i + 1 \in 1..Len(pending)
  BY DEF PendingInv
<1>2. <<c, d>> \in Seq(QueueCall) /\ Len(<<c, d>>) = 2
  OBVIOUS
<1>3. pending' \in Seq(QueueCall) /\ Len(pending') = Len(pending) + 1
  BY <1>1, <1>2
<1>4. pending'[1] = c /\ pending'[2] = d
  BY <1>1, <1>2
<1>5. \A i \in 3..Len(pending') : pending'[i] = Tail(pending)[i - 2] /\ i - 2 \in 1..Len(Tail(pending))
  BY <1>1, <1>2, <1>3
<1> QED
  BY <1>1, <1>3, <1>4, <1>5

\* abandon_approved_change, which makes two more calls before the rest.
LEMMA CallsComeBefore ==
    ASSUME PendingInv, pending # <<>>, NEW c \in QueueCall, NEW d \in QueueCall,
           pending' = <<c, d>> \o Tail(pending),
           c.op \notin {"claim", "apply"}, d.op \notin {"claim", "apply"},
           c.issue \in published', d.issue \in published',
           published \subseteq published',
           \A p \in Proposal : IsMerged(p) => IsMerged(p)'
    PROVE  PendingInv'
<1>2. /\ pending' \in Seq(QueueCall)
      /\ Len(pending') = Len(pending) + 1
      /\ pending'[1] = c /\ pending'[2] = d
      /\ \A i \in 3..Len(pending') : pending'[i] = pending[i - 1] /\ i - 1 \in 2..Len(pending)
      /\ Len(pending) \in Nat
  BY TwoBefore
<1>3. ASSUME NEW e \in QueueCall, Due(e), e.op # "claim"
      PROVE  Due(e)'
  BY <1>3, CallFacts DEF Due
<1>4. Due(c)' /\ Due(d)'
  BY DEF Due
<1>5. \A i \in 2..Len(pending) :
         pending[i] \in QueueCall /\ Due(pending[i]) /\ pending[i].op # "claim"
  BY DEF PendingInv, Due
<1>6. ASSUME NEW i \in 1..Len(pending'), NEW e, e = pending'[i]
      PROVE  Due(e)'
  <2>1. i = 1 \/ i = 2 \/ i \in 3..Len(pending')
    BY <1>2
  <2> QED
    BY <1>2, <1>3, <1>4, <1>5, <1>6, <2>1
<1>7. \A i \in 1..Len(pending') : Due(pending[i])'
  BY <1>6 DEF Due
<1> QED
  BY <1>2, <1>7 DEF PendingInv

\* The calls of the running handler.
LEMMA PerformPart ==
    ASSUME FleetInv, Perform, published \subseteq published',
           \A p \in Proposal : IsMerged(p) => IsMerged(p)'
    PROVE  ActorInv' /\ PendingInv'
<1>1. /\ TypeOK /\ ActorInv /\ PendingInv
      /\ ActorTypes /\ Placed /\ Apart /\ published \subseteq IssueId
  BY DEF FleetInv, ActorInv, TypeOK
<1>2. PICK c \in QueueCall : c = Head(pending) /\ Due(c) /\ c.issue \in IssueId
  BY <1>1, HeadIsDue, CallFacts DEF Perform
<1>3. CASE c.op = "claim" /\ PerformClaim(c.agent, c.issue)
  <2>1. /\ c.agent \in Agent /\ c.agent \notin Busy /\ c.issue \notin InFlight
        /\ c.issue \in published /\ pending' = Tail(pending)
    BY <1>2, <1>3, CallFacts DEF Due, PerformClaim
  <2>2. PendingInv'
    BY <1>1, <2>1, CallsGoOn DEF Perform
  <2>3. CASE MayAcquire(issues[c.issue], c.agent)
    <3>1. LastGeneration(issues[c.issue]) + 1 \in Nat
      BY <1>1, <1>2, LeaseFacts DEF TypeOK
    <3>2. /\ run' = [run EXCEPT ![c.agent] = [pc |-> "claimed", issue |-> c.issue,
                                              token |-> LastGeneration(issues[c.issue]) + 1]]
          /\ started' = [started EXCEPT ![c.issue] = @ + 1]
          /\ UNCHANGED <<threads, proposals>>
      BY <1>3, <2>3 DEF PerformClaim, Perform
    <3>3. /\ run' \in [Agent -> [pc : {"idle", "claimed", "chatting"},
                                 issue : IssueId \cup {NoIssue}, token : Nat]]
          /\ \A b \in Agent \ {c.agent} : run'[b] = run[b]
          /\ run'[c.agent].issue = c.issue
          /\ started' \in [IssueId -> Nat]
      BY <1>1, <1>2, <2>1, <3>1, <3>2 DEF ActorTypes
    <3>4. \A b \in Busy : run[b].issue # c.issue
      BY <2>1 DEF InFlight
    <3>5. Apart' /\ Placed'
      BY <1>1, <2>1, <3>2, <3>3, <3>4 DEF Apart, Placed, Busy
    <3> QED
      BY <1>1, <2>2, <3>2, <3>3, <3>5 DEF ActorInv, ActorTypes
  <2>4. CASE ~MayAcquire(issues[c.issue], c.agent)
    BY <1>1, <1>3, <2>2, <2>4, ActorsStay DEF PerformClaim, Perform, ActorTypes
  <2> QED
    BY <2>3, <2>4
<1>4. CASE c.op = "abandon" /\ PerformAbandon(c.issue)
  <2>1. ActorInv'
    BY <1>1, <1>4, ActorsStay DEF PerformAbandon, Perform, ActorTypes
  <2>2. CASE pending' = Tail(pending)
    BY <1>1, <2>1, <2>2, CallsGoOn DEF Perform
  <2>3. CASE pending' = <<Forced(c.issue, "NEEDS_HUMAN"), Write(c.issue, "NEEDS_HUMAN")>> \o Tail(pending)
    <3>1. /\ Forced(c.issue, "NEEDS_HUMAN") \in QueueCall
          /\ Write(c.issue, "NEEDS_HUMAN") \in QueueCall
      BY <1>2, CallsAreCalls DEF ForcedRelease, WrittenStatus
    <3>2. /\ Forced(c.issue, "NEEDS_HUMAN").op = "force"
          /\ Forced(c.issue, "NEEDS_HUMAN").issue = c.issue
          /\ Write(c.issue, "NEEDS_HUMAN").op = "write"
          /\ Write(c.issue, "NEEDS_HUMAN").issue = c.issue
          /\ c.issue \in published'
      BY <1>2 DEF Forced, Write, Due
    <3>3. PendingInv'
      BY <1>1, <2>3, <3>1, <3>2, CallsComeBefore DEF Perform
    <3> QED
      BY <2>1, <3>3
  <2> QED
    BY <1>4, <2>2, <2>3 DEF PerformAbandon
<1>5. CASE c.op \notin {"claim", "abandon"}
  <2>1. /\ pending' = Tail(pending) /\ pending # <<>>
        /\ UNCHANGED <<run, threads, proposals>>
        /\ started' = [started EXCEPT ![c.issue] = IF c.op = "requeued" THEN 0 ELSE @]
    BY <1>2, <1>5 DEF Perform
  <2>2. started' \in [IssueId -> Nat]
    BY <1>1, <1>2, <2>1 DEF ActorTypes
  <2> QED
    BY <1>1, <2>1, <2>2, ActorsStay, CallsGoOn
<1> QED
  BY <1>2, <1>3, <1>4, <1>5 DEF Perform

\* Patrols and operators.
LEMMA OthersPart ==
    ASSUME FleetInv, Patrol \/ Operator, published \subseteq published',
           \A p \in Proposal : IsMerged(p) => IsMerged(p)'
    PROVE  ActorInv' /\ PendingInv'
<1>1. /\ TypeOK /\ ActorInv /\ PendingInv
      /\ ActorTypes /\ Placed /\ published \subseteq IssueId
  BY DEF FleetInv, ActorInv, TypeOK
<1>2. ASSUME NEW id \in IssueId, PatrolFindsProblem(id) \/ OperatorReleases(id)
      PROVE  ActorInv' /\ PendingInv'
  <2>1. /\ started' \in [IssueId -> Nat]
        /\ UNCHANGED <<run, threads, proposals>> /\ pending' = <<>>
    BY <1>1, <1>2 DEF PatrolFindsProblem, OperatorReleases, ActorTypes
  <2> QED
    BY <1>1, <2>1, ActorsStay, NoCalls
<1>3. ASSUME NEW id \in IssueId,
             \/ PatrolFindsHealthy(id) \/ OperatorRequeues(id) \/ OperatorCloses(id)
      PROVE  ActorInv' /\ PendingInv'
  <2>1. /\ started' \in [IssueId -> Nat] /\ id \in published'
        /\ UNCHANGED <<run, threads, proposals>>
        /\ \/ pending' = <<Forced(id, "CLOSED"), Write(id, "CLOSED")>>
           \/ pending' = <<Write(id, "CLOSED"), Forced(id, "CLOSED")>>
           \/ pending' = <<Requeued(id), Forced(id, "AVAILABLE")>>
    BY <1>1, <1>3 DEF PatrolFindsHealthy, OperatorRequeues, OperatorCloses, Handler, ActorTypes
  <2>2. ActorInv'
    BY <1>1, <2>1, ActorsStay
  <2>3. /\ Forced(id, "CLOSED") \in QueueCall /\ Forced(id, "AVAILABLE") \in QueueCall
        /\ Write(id, "CLOSED") \in QueueCall /\ Requeued(id) \in QueueCall
    BY CallsAreCalls DEF ForcedRelease, WrittenStatus
  <2>4. /\ \A s : Forced(id, s).op = "force" /\ Forced(id, s).issue = id
        /\ \A s : Write(id, s).op = "write" /\ Write(id, s).issue = id
        /\ Requeued(id).op = "requeued" /\ Requeued(id).issue = id
    BY DEF Forced, Write, Requeued
  <2>5. PendingInv'
    BY <2>1, <2>3, <2>4, TwoCalls
  <2> QED
    BY <2>2, <2>5
<1>4. ASSUME NEW id \in IssueId,
             (\E a \in Agent : OperatorClaims(a, id))
             \/ \E s \in {"APPROVED", "BLOCKED"} : OperatorDecides(id, s)
      PROVE  ActorInv' /\ PendingInv'
  <2>1. UNCHANGED <<run, threads, proposals, started>> /\ pending' = <<>>
    BY <1>4 DEF OperatorClaims, OperatorDecides, workerVars
  <2> QED
    BY <1>1, <2>1, ActorsStay, NoCalls DEF ActorTypes
<1> QED
  BY <1>2, <1>3, <1>4 DEF Patrol, Operator

\* Reviewers.
LEMMA ReviewerPart ==
    ASSUME FleetInv, Reviewer, published \subseteq published'
    PROVE  ActorInv' /\ PendingInv'
<1>1. /\ TypeOK /\ ActorInv /\ PendingInv
      /\ ActorTypes /\ Placed /\ published \subseteq IssueId
  BY DEF FleetInv, ActorInv, TypeOK
<1>2. ASSUME NEW p \in Proposal, NEW from \in {"open", "manual"},
             NEW to \in {"merged", "manual", "rejected", "abandoned"}, MoveProposal(p, from, to)
      PROVE  /\ ActorInv'
             /\ proposals'[p].state = to
             /\ proposals[p].issue \in IssueId /\ proposals[p].issue \in published'
  <2>1. /\ proposals' \in [Proposal -> [state : {"none", "open", "merged", "manual",
                                                "rejected", "abandoned"},
                                       issue : IssueId \cup {NoIssue}]]
        /\ proposals'[p].state = to
        /\ \A q \in Proposal : /\ proposals'[q].issue = proposals[q].issue
                                /\ q # p => proposals'[q].state = proposals[q].state
    BY <1>1, <1>2 DEF MoveProposal, ActorTypes
  <2>2. proposals[p].issue \in published
    BY <1>1, <1>2 DEF MoveProposal, Placed
  <2>3. Placed'
    BY <1>1, <1>2, <2>1, <2>2 DEF MoveProposal, Placed, Busy
  <2> QED
    BY <1>1, <1>2, <2>1, <2>2, <2>3 DEF MoveProposal, ActorInv, ActorTypes, Apart, Busy
<1>3. ASSUME NEW p \in Proposal, NEW to \in {"manual", "rejected"}, MoveProposal(p, "open", to),
             NEW s \in WrittenStatus, pending' = <<Write(proposals[p].issue, s)>>
      PROVE  ActorInv' /\ PendingInv'
  <2>1. PICK id \in IssueId : id = proposals[p].issue /\ id \in published'
    BY <1>2, <1>3
  <2>2. Write(id, s) \in QueueCall /\ Due(Write(id, s))'
    BY <2>1, CallsAreCalls DEF Due, Write
  <2> QED
    BY <1>2, <1>3, <2>1, <2>2, OneCall
<1>4. ASSUME NEW p \in Proposal, NEW from \in {"open", "manual"}, MoveProposal(p, from, "merged"),
             pending' = <<Apply(proposals[p].issue, p)>>
      PROVE  ActorInv' /\ PendingInv'
  <2>1. PICK id \in IssueId : id = proposals[p].issue /\ id \in published'
    BY <1>2, <1>4
  <2>2. proposals'[p].state = "merged"
    BY <1>2, <1>4
  <2>3. Apply(id, p) \in QueueCall /\ Due(Apply(id, p))'
    BY <2>1, <2>2, ApplyIsCall DEF Due, Apply, IsMerged
  <2> QED
    BY <1>2, <1>4, <2>1, <2>3, OneCall
<1>5. ASSUME NEW p \in Proposal, ReviewerAbandons(p)
      PROVE  ActorInv' /\ PendingInv'
  <2>1. PICK id \in IssueId : id = proposals[p].issue /\ id \in published'
    BY <1>2, <1>5 DEF ReviewerAbandons
  <2>2. Abandon(id) \in QueueCall /\ Due(Abandon(id))'
    BY <2>1, CallsAreCalls DEF Due, Abandon
  <2> QED
    BY <1>2, <1>5, <2>1, <2>2, OneCall DEF ReviewerAbandons, Handler
<1>6. "APPROVED" \in WrittenStatus /\ "BLOCKED" \in WrittenStatus
  BY DEF WrittenStatus
<1> QED
  BY <1>3, <1>4, <1>5, <1>6 DEF Reviewer, ReviewerApproves, ReviewerApprovesManual,
     ReviewerRejects, ReviewerMarksApplied, Handler

\* Crashes and failed calls.
LEMMA FaultPart ==
    ASSUME FleetInv, Fault, published \subseteq published',
           \A p \in Proposal : IsMerged(p) => IsMerged(p)'
    PROVE  ActorInv' /\ PendingInv'
<1>1. /\ TypeOK /\ ActorInv /\ PendingInv
      /\ ActorTypes /\ Placed /\ published \subseteq IssueId
  BY DEF FleetInv, ActorInv, TypeOK
<1>2. CASE HandlerFails \/ ClaimLedgerFails
  BY <1>1, <1>2, ActorsStay, NoCalls DEF HandlerFails, ClaimLedgerFails, ActorTypes
<1>3. ASSUME NEW t \in threads, SubmitLinkFails(t)
      PROVE  ActorInv' /\ PendingInv'
  BY <1>1, <1>3, ThreadSteps, CallsStay DEF SubmitLinkFails
<1>4. CASE Crash
  <2>1. \A a \in Agent : run'[a].pc = "idle"
    BY <1>4 DEF Crash, Idle
  <2>2. run' \in [Agent -> [pc : {"idle", "claimed", "chatting"},
                           issue : IssueId \cup {NoIssue}, token : Nat]]
    BY <1>4 DEF Crash, Idle
  <2>3. ActorInv'
    BY <1>1, <1>4, <2>1, <2>2 DEF Crash, ActorInv, ActorTypes, Placed, Apart, Busy
  <2> QED
    BY <1>4, <2>3, NoCalls DEF Crash
<1> QED
  BY <1>2, <1>3, <1>4 DEF Fault, WorkerFault

\* The bounds' counters.
LEMMA CountersStep ==
    ASSUME Counters, [FleetNext]_fleetVars
    PROVE  Counters'
<1>1. NoIntervention \/ Intervene \/ Fault \/ UNCHANGED fleetVars => Counters'
  BY DEF NoIntervention, Intervene, Fault, Counters, fleetVars
<1>2. Patrol => NoIntervention \/ Intervene
  BY DEF Patrol, PatrolFindsProblem, PatrolFindsHealthy
<1>3. Operator => Intervene
  BY DEF Operator, OperatorRequeues, OperatorCloses, OperatorClaims, OperatorReleases,
         OperatorDecides
<1>4. Reviewer => NoIntervention
  BY DEF Reviewer, ReviewerApproves, ReviewerApprovesManual, ReviewerRejects,
         ReviewerMarksApplied, ReviewerAbandons, MoveProposal
<1> QED
  BY <1>1, <1>2, <1>3, <1>4 DEF FleetNext

-----------------------------------------------------------------------------
(* The theorems *)

\* Every step of the fleet preserves the invariant.
LEMMA FleetInvStep == FleetInv /\ [FleetNext]_fleetVars => FleetInv'
<1> SUFFICES ASSUME FleetInv, [FleetNext]_fleetVars PROVE FleetInv'
  OBVIOUS
<1>1. [Next]_vars
  BY FleetStepIsQueueStep
<1>2. TypeOK' /\ published \subseteq published'
  BY <1>1, Effects, PublishedGrows DEF FleetInv
<1>3. AppliedIsMerged'
  BY AppliedStep
<1>4. Counters'
  BY CountersStep DEF FleetInv
<1>5. \A p \in Proposal : IsMerged(p) => IsMerged(p)'
  BY MergeIsFinal DEF FleetInv
<1>6. ASSUME UNCHANGED fleetVars PROVE ActorInv' /\ PendingInv'
  <2>1. ActorInv /\ PendingInv
    BY DEF FleetInv, ActorInv
  <2>2. UNCHANGED <<run, threads, proposals, started, pending>>
    BY <1>6 DEF fleetVars, workerVars
  <2>3. ActorInv'
    BY <1>2, <2>1, <2>2, ActorsStay DEF ActorInv, ActorTypes
  <2> QED
    BY <1>2, <1>5, <2>1, <2>2, <2>3, CallsStay
<1>7. ActorInv' /\ PendingInv'
  BY <1>2, <1>5, <1>6, WorkerPart, PerformPart, OthersPart, ReviewerPart, FaultPart
     DEF FleetNext
<1> QED
  BY <1>2, <1>3, <1>4, <1>7 DEF FleetInv, ActorInv

\* A server that has just been installed satisfies the invariant.
LEMMA FleetInvInit == FleetInit => FleetInv
<1> SUFFICES ASSUME FleetInit PROVE FleetInv
  OBVIOUS
<1>1. TypeOK
  BY QueueInvInit DEF FleetInit, QueueInv
<1>2. AppliedIsMerged
  BY DEF AppliedIsMerged, FleetInit, Init, NewIssue
<1>3. ActorTypes /\ Placed /\ Apart
  BY DEF FleetInit, WorkerInit, ActorTypes, Placed, Apart, Busy, Idle
<1>4. PendingInv
  BY DEF FleetInit, WorkerInit, PendingInv
<1>5. Counters
  BY DEF FleetInit, Counters
<1> QED
  BY <1>1, <1>2, <1>3, <1>4, <1>5 DEF FleetInv

\* The invariant holds in every reachable state.
LEMMA FleetInvariant == FleetSafety => []FleetInv
BY FleetInvInit, FleetInvStep, PTL DEF FleetSafety

\* Two agents of a server never work on one issue: a claim waits only for an idle
\* agent and an issue that is not in flight, and nothing else starts a run.
THEOREM AgentsKeepApart == FleetSafety => []NoDoubleRun
<1>1. FleetInv => NoDoubleRun
  <2> SUFFICES ASSUME FleetInv PROVE NoDoubleRun
    OBVIOUS
  <2>1. FleetTypes
    BY DEF FleetInv, FleetTypes, ActorTypes, PendingInv, Due, Counters
  <2> QED
    BY <2>1 DEF FleetInv, Apart, NoDoubleRun
<1> QED
  BY <1>1, FleetInvariant, PTL

\* Whatever fails between a review and the report of it, an issue is APPLIED only
\* through a proposal whose change was made.
THEOREM AppliedWasMerged == FleetSafety => []AppliedIsMerged
<1>1. FleetInv => AppliedIsMerged
  BY DEF FleetInv
<1> QED
  BY <1>1, FleetInvariant, PTL

\* The fleet, with its threads, patrols, operators, reviewers and crashes, is a
\* client of the queue that WorkQueue allows for.
THEOREM FleetUsesQueue == FleetSafety => UsesQueue
<1>1. FleetInit => Init
  BY DEF FleetInit
<1>2. FleetInv /\ [FleetNext]_fleetVars => [Next]_vars
  BY FleetStepIsQueueStep
<1> QED
  BY <1>1, <1>2, FleetInvariant, PTL DEF FleetSafety, UsesQueue, Spec

\* So what was proved of the queue holds in the fleet: leases are fenced, and a
\* live lease is lost only by a release, a forced one, or a reopening.
THEOREM FleetIsFenced ==
    FleetSafety => /\ []FencingTokens
                   /\ []PoolIsUnleased
                   /\ LiveLeaseIsSafe
                   /\ ImplementsFencedLease
BY FleetUsesQueue, GenerationsFence, PoolUnleased, LiveLeaseKept, QueueImplementsFence, PTL
   DEF UsesQueue

-----------------------------------------------------------------------------
(* The retry budget *)

\* The runs an issue in this state may have had: one for each failure on record,
\* and one that is not over yet unless the issue is back in the pool.
Affords(i) == IF i.status = "AVAILABLE" THEN i.failures ELSE i.failures + 1

\* A call that puts an issue back in the pool ...
Returns(c) == c.op \in {"release", "force"} /\ c.status = "AVAILABLE"

\* ... and one that sees to it that its runs are counted.
Covers(c, d) == c.op \in {"failure", "requeued"} /\ c.issue = d.issue

\* What is true of the next call: nobody has taken the issue that is to be
\* claimed, and one that is to go back has been paid for.
HeadPaid(c) ==
    /\ c.op = "claim" => /\ ~issues[c.issue].lease.live
                         /\ issues[c.issue].failures < MaxAttempts
    /\ Returns(c) => started[c.issue] <= issues[c.issue].failures

\* Later calls put back what the next one pays for, and nothing else.
CallsPaid ==
    /\ pending # <<>> => HeadPaid(pending[1])
    /\ \A i \in 2..Len(pending) : Returns(pending[i]) => i = 2 /\ Covers(pending[1], pending[i])

Affordable == \A id \in IssueId : started[id] <= Affords(issues[id])

BudgetInv == Affordable /\ CallsPaid /\ RetryBudget

\* What the operations make of what an issue affords.
LEMMA AffordsFacts ==
    ASSUME NEW i \in Issue
    PROVE  /\ i.failures \in Nat /\ Affords(i) \in Nat
           /\ i.failures <= Affords(i) /\ Affords(i) <= i.failures + 1
           /\ Failed(i).failures = i.failures + 1
           /\ FreshBudget(i).failures = 0
           /\ Affords(Failed(i)) = Affords(i) + 1
           /\ \A p \in Proposal : /\ Affords(WithProposal(i, p)) = i.failures + 1
                                  /\ WithProposal(i, p).failures = i.failures
                                  /\ WithProposal(i, p).lease = i.lease
                                  /\ Affords(WithChange(i, p)) = i.failures + 1
           /\ \A s \in Status \ {"AVAILABLE"} : Affords(WithStatus(i, s)) = i.failures + 1
           /\ i.lease.live => /\ Lapsed(i).failures = i.failures
                              /\ Affords(Lapsed(i)) = Affords(i)
<1>1. i.failures \in Nat
  BY DEF Issue
<1>2. /\ Failed(i).failures = i.failures + 1 /\ Failed(i).status = i.status
      /\ FreshBudget(i).failures = 0
  BY <1>1 DEF Failed, FreshBudget, Issue
<1>3. ASSUME NEW p \in Proposal
      PROVE  /\ WithProposal(i, p).failures = i.failures /\ WithProposal(i, p).status = "VALIDATING"
             /\ WithProposal(i, p).lease = i.lease
             /\ WithChange(i, p).failures = i.failures /\ WithChange(i, p).status = "APPLIED"
  BY DEF WithProposal, WithChange, Issue
<1>4. ASSUME NEW s \in Status \ {"AVAILABLE"}
      PROVE  WithStatus(i, s).failures = i.failures /\ WithStatus(i, s).status = s
  BY DEF WithStatus, Issue
<1>5. i.lease.live => Lapsed(i).failures = i.failures /\ Lapsed(i).status = i.status
  BY DEF Lapsed, Issue
<1> QED BY <1>1, <1>2, <1>3, <1>4, <1>5 DEF Affords

\* A release keeps the count of failures.
LEMMA ReleasedAffords ==
    ASSUME NEW i \in Issue, NEW s \in Status
    PROVE  /\ Released(i, s).failures = i.failures
           /\ s # "AVAILABLE" => Affords(Released(i, s)) = i.failures + 1
           /\ s = "AVAILABLE" => Affords(Released(i, s)) = i.failures
<1> DEFINE c == IF s = "AVAILABLE" THEN NoAgent ELSE i.claimed_by
<1>1. Released(i, s) = [i EXCEPT !.generation = LastGeneration(i), !.lease = NoLease,
                                 !.status = s, !.claimed_by = c]
  BY DEF Released, Issue
<1> HIDE DEF c
<1>2. Released(i, s).failures = i.failures
  BY <1>1 DEF Issue
<1> QED BY <1>2, ReleasedType DEF Affords

\* The sweep counts the run it ends.
LEMMA ReclaimedAffords ==
    ASSUME NEW i \in Issue
    PROVE  Affords(Reclaimed(i)) = i.failures + 1
<1>1. "AVAILABLE" \in Status
  BY DEF Status, SelfResolvable
<1>2. PICK r \in Issue : r = Released(i, "AVAILABLE") /\ r.failures = i.failures /\ r.status = "AVAILABLE"
  BY <1>1, ReleasedType, ReleasedAffords
<1>3. Failed(r).failures = i.failures + 1 /\ Failed(r).status = "AVAILABLE"
  BY <1>2, FailedType, AffordsFacts
<1> QED BY <1>2, <1>3 DEF Reclaimed, Affords

\* A takeover counts the run it ends, and every lease affords one more run, unless
\* it was the caller's already.
LEMMA LeasedAffords ==
    ASSUME NEW i \in Issue, NEW a \in Agent, MayAcquire(i, a)
    PROVE  /\ Affords(Leased(i, a)) >= Affords(i)
           /\ ~i.lease.live => Affords(Leased(i, a)) = Affords(i) + 1
<1> DEFINE g == LastGeneration(i) + 1
           l == [owner |-> a, generation |-> g, live |-> TRUE]
           j == IF IsReclaimable(i) THEN Failed(i) ELSE i
<1>1. j \in Issue /\ j.failures = IF IsReclaimable(i) THEN i.failures + 1 ELSE i.failures
  BY FailedType, AffordsFacts
<1>2. Leased(i, a) = [j EXCEPT !.lease = l, !.generation = g,
                               !.status = "LEASED", !.claimed_by = a]
  BY DEF Leased
<1> HIDE DEF l, j, g
<1>3. Leased(i, a).failures = j.failures /\ Leased(i, a).status = "LEASED"
  BY <1>1, <1>2 DEF Issue
<1>4. i.failures \in Nat
  BY AffordsFacts
<1>5. ~i.lease.live => \/ i.status = "AVAILABLE" /\ ~IsReclaimable(i)
                       \/ i.status # "AVAILABLE" /\ IsReclaimable(i)
  BY DEF MayAcquire, IsClaimable, IsReclaimable, Reclaimable
<1> QED BY <1>1, <1>3, <1>4, <1>5 DEF Affords

\* No issue affords less than before.
Afforded == \A id \in IssueId : Affords(issues'[id]) >= Affords(issues[id])

\* To store an issue that affords no less leaves every issue affording no less.
LEMMA StoreAffords ==
    ASSUME TypeOK, NEW o \in IssueId, NEW x, Store(o, x), Affords(x) >= Affords(issues[o])
    PROVE  Afforded
<1> SUFFICES ASSUME NEW id \in IssueId PROVE Affords(issues'[id]) >= Affords(issues[id])
  BY DEF Afforded
<1>1. issues[id] \in Issue /\ Affords(issues[id]) \in Nat
  BY AffordsFacts DEF TypeOK
<1>2. issues'[id] = IF id = o THEN x ELSE issues[id]
  BY DEF Store, TypeOK
<1>3. CASE id = o
  BY <1>2, <1>3
<1>4. CASE id # o
  BY <1>1, <1>2, <1>4
<1> QED BY <1>3, <1>4

\* A step that stores nothing does too.
LEMMA SameAffords == ASSUME TypeOK, UNCHANGED issues PROVE Afforded
<1> SUFFICES ASSUME NEW id \in IssueId PROVE Affords(issues[id]) >= Affords(issues[id])
  BY DEF Afforded
<1>1. issues[id] \in Issue
  BY DEF TypeOK
<1> QED BY <1>1, AffordsFacts

\* The operations that do not put an issue back in the pool, or count the run
\* that they end.
LEMMA OperationsAfford ==
    ASSUME TypeOK, NEW o \in IssueId,
           \/ UpsertObserved(o) /\ issues[o].status # "CLOSED"
           \/ \E a \in Agent : AcquireLease(o, a)
           \/ \E a \in Agent, s \in WorkerRelease \ {"AVAILABLE"} : ReleaseLease(o, a, s)
           \/ \E s \in ForcedRelease \ {"AVAILABLE"} : ForceRelease(o, s)
           \/ \E s \in WrittenStatus : UpdateStatus(o, s)
           \/ \E p \in Proposal : LinkProposal(o, p) \/ LinkChange(o, p)
           \/ RecordFailure(o) \/ Lapse(o) \/ ReclaimExpiredLeases
    PROVE  Afforded
<1>1. PICK i \in Issue : i = issues[o]
  BY DEF TypeOK
<1>2. i.failures \in Nat /\ Affords(i) \in Nat /\ Affords(i) <= i.failures + 1
  BY AffordsFacts
<1>3. /\ WorkerRelease \subseteq Status /\ ForcedRelease \subseteq Status
      /\ WrittenStatus \subseteq Status \ {"AVAILABLE"}
  BY DEF WorkerRelease, ForcedRelease, WrittenStatus, Status, Reclaimable,
         SelfResolvable, Attention, PostWork
<1>4. CASE UpsertObserved(o) /\ issues[o].status # "CLOSED"
  <2>1. Store(o, i)
    BY <1>1, <1>4, ReobservedType DEF UpsertObserved, TypeOK
  <2> QED BY <1>1, <1>2, <2>1, StoreAffords
<1>5. ASSUME NEW a \in Agent, AcquireLease(o, a) PROVE Afforded
  BY <1>1, <1>5, LeasedAffords, StoreAffords DEF AcquireLease
<1>6. ASSUME NEW s \in Status \ {"AVAILABLE"}, Store(o, Released(i, s)) PROVE Afforded
  BY <1>1, <1>2, <1>6, ReleasedAffords, StoreAffords
<1>7. ASSUME NEW s \in Status \ {"AVAILABLE"}, Store(o, WithStatus(i, s)) PROVE Afforded
  BY <1>1, <1>2, <1>7, AffordsFacts, StoreAffords
<1>8. ASSUME NEW p \in Proposal, LinkProposal(o, p) \/ LinkChange(o, p) PROVE Afforded
  <2>1. Affords(WithProposal(i, p)) = i.failures + 1 /\ Affords(WithChange(i, p)) = i.failures + 1
    BY AffordsFacts
  <2> QED BY <1>1, <1>2, <1>8, <2>1, StoreAffords DEF LinkProposal, LinkChange
<1>9. CASE RecordFailure(o)
  <2>1. Affords(Failed(i)) = Affords(i) + 1
    BY AffordsFacts
  <2> QED BY <1>1, <1>2, <1>9, <2>1, StoreAffords DEF RecordFailure
<1>10. CASE Lapse(o)
  <2>1. Affords(Lapsed(i)) = Affords(i)
    BY <1>1, <1>10, AffordsFacts DEF Lapse
  <2> QED BY <1>1, <1>2, <1>10, <2>1, StoreAffords DEF Lapse
<1>11. CASE ReclaimExpiredLeases
  <2> SUFFICES ASSUME NEW id \in IssueId PROVE Affords(issues'[id]) >= Affords(issues[id])
    BY DEF Afforded
  <2>1. PICK j \in Issue : j = issues[id]
    BY DEF TypeOK
  <2>2. issues'[id] = j \/ issues'[id] = Reclaimed(j)
    BY <1>11, <2>1 DEF ReclaimExpiredLeases
  <2>3. /\ j.failures \in Nat /\ Affords(j) \in Nat /\ Affords(j) <= j.failures + 1
        /\ Affords(Reclaimed(j)) = j.failures + 1
    BY AffordsFacts, ReclaimedAffords
  <2>4. Affords(Reclaimed(j)) >= Affords(j) /\ Affords(j) >= Affords(j)
    BY <2>3
  <2> QED BY <2>1, <2>2, <2>4
<1> QED
  BY <1>1, <1>3, <1>4, <1>5, <1>6, <1>7, <1>8, <1>9, <1>10, <1>11
     DEF ReleaseLease, ForceRelease, UpdateStatus

\* As long as no run starts, what is affordable stays so.
LEMMA NoRunStarts ==
    ASSUME TypeOK, TypeOK', started \in [IssueId -> Nat], BudgetInv, CallsPaid',
           \A id \in IssueId :
              \/ started'[id] = 0
              \/ /\ started'[id] = started[id]
                 /\ \/ Affords(issues'[id]) >= Affords(issues[id])
                    \/ started[id] <= Affords(issues'[id])
    PROVE  BudgetInv'
<1>1. ASSUME NEW id \in IssueId
      PROVE  started'[id] <= Affords(issues'[id]) /\ started'[id] <= MaxAttempts + 1
  <2>1. PICK i \in Issue : i = issues[id]
    BY DEF TypeOK
  <2>2. PICK j \in Issue : j = issues'[id]
    BY DEF TypeOK
  <2>3. Affords(i) \in Nat /\ Affords(j) \in Nat /\ started[id] \in Nat /\ MaxAttempts \in Nat
    BY AffordsFacts, WorkerAssumption
  <2>4. started[id] <= Affords(i) /\ started[id] <= MaxAttempts + 1
    BY <2>1 DEF BudgetInv, Affordable, RetryBudget
  <2>5. CASE started'[id] = 0
    BY <2>2, <2>3, <2>5
  <2>6. CASE started'[id] = started[id] /\ Affords(j) >= Affords(i)
    BY <2>2, <2>3, <2>4, <2>6
  <2>7. CASE started'[id] = started[id] /\ started[id] <= Affords(j)
    BY <2>2, <2>4, <2>7
  <2> QED BY <2>1, <2>2, <2>5, <2>6, <2>7
<1> QED BY <1>1 DEF BudgetInv, Affordable, RetryBudget

\* Calls that wait stay paid for while only a thread or the clock steps.
LEMMA CallsStayPaid ==
    ASSUME PendingInv, CallsPaid, UNCHANGED <<pending, started>>,
           \A id \in IssueId : /\ issues'[id].failures = issues[id].failures
                               /\ ~issues[id].lease.live => ~issues'[id].lease.live
    PROVE  CallsPaid'
<1>1. ASSUME pending # <<>> PROVE HeadPaid(pending[1])'
  <2>1. PICK c \in QueueCall : c = pending[1] /\ c.issue \in IssueId
    BY <1>1, CallFacts DEF PendingInv
  <2>2. HeadPaid(c)
    BY <1>1, <2>1 DEF CallsPaid
  <2> QED BY <2>1, <2>2 DEF HeadPaid, Returns
<1> QED BY <1>1 DEF CallsPaid, Returns, Covers

\* A new handler leaves calls that are paid for.
LEMMA NoCallsPaid == ASSUME pending' = <<>> PROVE CallsPaid'
BY DEF CallsPaid

\* A pending list of one call is paid for if that call is.
LEMMA OneCallPaid == ASSUME NEW c, pending' = <<c>>, HeadPaid(c)' PROVE CallsPaid'
BY DEF CallsPaid

\* Of two calls the second returns the issue, and the first pays for it.
LEMMA TwoCallsPaid ==
    ASSUME NEW c, NEW d, pending' = <<c, d>>,
           c.op # "claim", ~Returns(c), Returns(d) => Covers(c, d)
    PROVE  CallsPaid'
<1>1. Len(pending') = 2 /\ pending'[1] = c /\ pending'[2] = d /\ 2..2 = {2}
  OBVIOUS
<1>2. HeadPaid(c)'
  BY DEF HeadPaid, Returns
<1>3. \A i \in 2..2 : Returns(pending'[i]) => i = 2 /\ Covers(pending'[1], pending'[i])
  BY <1>1
<1> QED BY <1>1, <1>2, <1>3 DEF CallsPaid, HeadPaid, Returns, Covers

\* The call after the one that was made.
LEMMA CallsGoOnPaid ==
    ASSUME PendingInv, CallsPaid, pending # <<>>, pending' = Tail(pending),
           Head(pending).op \in {"failure", "requeued"}
              => started'[Head(pending).issue] <= issues'[Head(pending).issue].failures
    PROVE  CallsPaid'
<1>1. /\ Len(pending') = Len(pending) - 1 /\ Len(pending) \in Nat
      /\ \A i \in 1..Len(pending') : pending'[i] = pending[i + 1] /\ i + 1 \in 2..Len(pending)
      /\ Head(pending) = pending[1]
  BY DEF PendingInv
<1>2. ASSUME pending' # <<>>, NEW c, c = pending[2] PROVE HeadPaid(c)'
  <2>1. 2 \in 1..Len(pending) /\ Len(pending) # 1
    BY <1>1, <1>2 DEF PendingInv
  <2>2. c.op # "claim"
    BY <1>2, <2>1 DEF PendingInv, Due
  <2>3. Returns(c) => Covers(pending[1], c)
    BY <1>2, <2>1 DEF CallsPaid
  <2>4. Returns(c) => started'[c.issue] <= issues'[c.issue].failures
    BY <1>1, <2>3 DEF Covers
  <2> QED BY <2>2, <2>4 DEF HeadPaid, Returns
<1>3. pending' # <<>> => pending'[1] = pending[2]
  BY <1>1 DEF PendingInv
<1>4. pending' # <<>> => HeadPaid(pending[1])'
  <2> SUFFICES ASSUME pending' # <<>> PROVE HeadPaid(pending[1])'
    OBVIOUS
  <2>1. PICK c : c = pending[2]
    OBVIOUS
  <2>2. HeadPaid(c)' /\ pending'[1] = c
    BY <1>2, <1>3, <2>1
  <2> QED BY <2>2 DEF HeadPaid, Returns
<1>5. \A i \in 2..Len(pending') : ~Returns(pending'[i])
  <2> SUFFICES ASSUME NEW i \in 2..Len(pending') PROVE ~Returns(pending'[i])
    OBVIOUS
  <2>1. i \in 1..Len(pending') /\ i + 1 # 2
    BY <1>1
  <2>2. pending'[i] = pending[i + 1] /\ i + 1 \in 2..Len(pending)
    BY <1>1, <2>1
  <2> QED BY <2>1, <2>2 DEF CallsPaid
<1>6. \A i \in 2..Len(pending') : ~Returns(pending[i])'
  BY <1>5 DEF Returns
<1> QED BY <1>4, <1>6 DEF CallsPaid

\* The calls of abandon_approved_change put nothing back in the pool.
LEMMA AbandonPaid ==
    ASSUME PendingInv, CallsPaid, pending # <<>>, NEW id \in IssueId,
           Head(pending).op = "abandon",
           pending' = <<Forced(id, "NEEDS_HUMAN"), Write(id, "NEEDS_HUMAN")>> \o Tail(pending)
    PROVE  CallsPaid'
<1>1. PICK c \in QueueCall : c = Forced(id, "NEEDS_HUMAN")
  BY CallsAreCalls DEF ForcedRelease
<1>2. PICK d \in QueueCall : d = Write(id, "NEEDS_HUMAN")
  BY CallsAreCalls DEF WrittenStatus
<1>3. c.op # "claim" /\ ~Returns(c) /\ ~Returns(d)
  BY <1>1, <1>2 DEF Forced, Write, Returns
<1>4. /\ pending'[1] = c /\ pending'[2] = d /\ Len(pending) \in Nat
      /\ \A i \in 3..Len(pending') : pending'[i] = pending[i - 1] /\ i - 1 \in 2..Len(pending)
  BY <1>1, <1>2, TwoBefore
<1>5. \A i \in 2..Len(pending) : ~Returns(pending[i])
  BY DEF CallsPaid, Covers, PendingInv
<1>6. \A i \in 2..Len(pending') : ~Returns(pending'[i])
  <2> SUFFICES ASSUME NEW i \in 2..Len(pending') PROVE ~Returns(pending'[i])
    OBVIOUS
  <2>1. i = 2 \/ i \in 3..Len(pending')
    OBVIOUS
  <2> QED BY <1>3, <1>4, <1>5, <2>1
<1>7. \A i \in 2..Len(pending') : ~Returns(pending[i])'
  BY <1>6 DEF Returns
<1>8. HeadPaid(pending[1])'
  BY <1>3, <1>4 DEF HeadPaid, Returns
<1> QED BY <1>7, <1>8 DEF CallsPaid

\* The dispatcher, the runs and the threads start no run, and what they leave to
\* be called is paid for.
LEMMA WorkerKeepsBudget ==
    ASSUME FleetInv, TypeOK', BudgetInv, WorkerStep, ~Perform
    PROVE  BudgetInv'
<1>1. /\ TypeOK /\ ActorTypes /\ PendingInv /\ CallsPaid /\ published \subseteq IssueId
      /\ started \in [IssueId -> Nat] /\ (\A a \in Busy : run[a].issue \in published)
      /\ \A t \in threads : t.issue \in published
  BY DEF FleetInv, ActorTypes, Placed, BudgetInv, TypeOK
<1>2. ASSUME UNCHANGED started, Afforded, CallsPaid' PROVE BudgetInv'
  BY <1>1, <1>2, NoRunStarts DEF Afforded
<1>3. ASSUME NEW a \in Agent, NEW id \in IssueId, Dispatch(a, id) PROVE BudgetInv'
  <2>1. Afforded /\ UNCHANGED <<started, issues>>
    BY <1>1, <1>3, SameAffords DEF Dispatch, vars
  <2>2. CASE issues[id].failures < MaxAttempts /\ pending' = <<Claim(a, id)>>
    <3>1. PICK c : c = Claim(a, id)
      OBVIOUS
    <3>2. ~issues[id].lease.live
      BY <1>3 DEF Dispatch, IsClaimable, IsReclaimable
    <3>3. c.issue = id /\ ~Returns(c)
      BY <3>1 DEF Claim, Returns
    <3>4. HeadPaid(c)'
      BY <2>1, <2>2, <3>2, <3>3 DEF HeadPaid, Returns
    <3> QED BY <1>2, <2>1, <2>2, <3>1, <3>4, OneCallPaid
  <2>3. CASE pending' = <<Write(id, "NEEDS_HUMAN")>>
    <3>1. HeadPaid(Write(id, "NEEDS_HUMAN"))'
      BY DEF HeadPaid, Returns, Write
    <3> QED BY <1>2, <2>1, <2>3, <3>1, OneCallPaid
  <2> QED BY <1>3, <2>2, <2>3 DEF Dispatch, Handler
<1>4. ASSUME NEW a \in Agent, BeginWork(a) PROVE BudgetInv'
  <2>1. run[a].issue \in IssueId /\ "EXECUTING" \in WrittenStatus
    BY <1>1, <1>4 DEF BeginWork, Busy, WrittenStatus
  <2>2. Afforded
    BY <1>1, <1>4, <2>1, OperationsAfford DEF BeginWork
  <2> QED BY <1>2, <1>4, <2>2, NoCallsPaid DEF BeginWork
<1>5. ASSUME NEW a \in Agent, ChatReturns(a) \/ ChatFails(a) \/ Interrupted(a) PROVE BudgetInv'
  <2>1. Afforded /\ UNCHANGED started
    BY <1>1, <1>5, SameAffords DEF ChatReturns, ChatFails, Interrupted, vars
  <2>2. PICK id \in IssueId : id = run[a].issue
    BY <1>1, <1>5 DEF ChatReturns, ChatFails, Interrupted, Busy
  <2>3. CASE pending' = <<Release(a, id, "VALIDATING")>>
    <3>1. HeadPaid(Release(a, id, "VALIDATING"))'
      BY DEF HeadPaid, Returns, Release
    <3> QED BY <1>2, <2>1, <2>3, <3>1, OneCallPaid
  <2>4. CASE pending' = <<Failure(id), Release(a, id, "AVAILABLE")>>
    <3>1. /\ Failure(id).op # "claim" /\ ~Returns(Failure(id))
          /\ Covers(Failure(id), Release(a, id, "AVAILABLE"))
      BY DEF Returns, Covers, Failure, Release
    <3> QED BY <1>2, <2>1, <2>4, <3>1, TwoCallsPaid
  <2> QED
    BY <1>5, <2>2, <2>3, <2>4 DEF ChatReturns, ChatFails, Interrupted, Handler, Unsuccessful
<1>6. ASSUME NEW t \in threads, (\E p \in Proposal : SubmitProposal(t, p)) \/ OrphanEnds(t)
      PROVE  BudgetInv'
  <2>1. UNCHANGED <<issues, started, pending>>
    BY <1>6 DEF SubmitProposal, OrphanEnds, vars
  <2> QED BY <1>1, <1>2, <2>1, SameAffords, CallsStayPaid
<1>7. ASSUME NEW t \in threads, SubmitLink(t) PROVE BudgetInv'
  <2>1. t.issue \in IssueId /\ t.proposal \in Proposal
    BY <1>1, <1>7 DEF ActorTypes, SubmitLink
  <2>2. PICK o \in IssueId, p \in Proposal : o = t.issue /\ p = t.proposal
    BY <2>1
  <2>3. LinkProposal(o, p) /\ UNCHANGED <<started, pending>>
    BY <1>7, <2>2 DEF SubmitLink
  <2>4. Afforded
    BY <1>1, <2>3, OperationsAfford
  <2>5. issues[o] \in Issue /\ Store(o, WithProposal(issues[o], p))
    BY <1>1, <2>3 DEF TypeOK, LinkProposal
  <2>6. \A id \in IssueId : /\ issues'[id].failures = issues[id].failures
                            /\ ~issues[id].lease.live => ~issues'[id].lease.live
    BY <1>1, <2>5, AffordsFacts DEF Store, TypeOK
  <2> QED BY <1>1, <1>2, <2>3, <2>4, <2>6, CallsStayPaid
<1>8. ASSUME NEW o \in IssueId, Lapse(o), UNCHANGED workerVars PROVE BudgetInv'
  <2>1. Afforded
    BY <1>1, <1>8, OperationsAfford
  <2>2. UNCHANGED <<started, pending>>
    BY <1>8 DEF workerVars
  <2>3. issues[o] \in Issue /\ Store(o, Lapsed(issues[o])) /\ issues[o].lease.live
    BY <1>1, <1>8 DEF TypeOK, Lapse
  <2>4. \A id \in IssueId : /\ issues'[id].failures = issues[id].failures
                            /\ ~issues[id].lease.live => ~issues'[id].lease.live
    BY <1>1, <2>3, AffordsFacts DEF Store, TypeOK
  <2> QED BY <1>1, <1>2, <2>1, <2>2, <2>4, CallsStayPaid
<1>9. CASE Sweep
  <2>1. UNCHANGED <<started, pending>> /\ pending = <<>> /\ ReclaimExpiredLeases
    BY <1>9 DEF Sweep, workerVars
  <2>2. CASE IssueId = {}
    BY <1>1, <1>2, <2>1, <2>2, NoCallsPaid DEF Afforded
  <2>3. CASE IssueId # {}
    <3>1. PICK o : o \in IssueId
      BY <2>3
    <3> QED BY <1>1, <1>2, <2>1, <3>1, OperationsAfford, NoCallsPaid
  <2> QED BY <2>2, <2>3
<1> QED BY <1>3, <1>4, <1>5, <1>6, <1>7, <1>8, <1>9 DEF WorkerStep

\* A claim starts a run only on an issue that nobody has taken and that has
\* attempts left; the lease affords the run.
LEMMA ClaimKeepsBudget ==
    ASSUME FleetInv, TypeOK', BudgetInv, Perform,
           NEW o \in IssueId, NEW a \in Agent, Head(pending) = Claim(a, o),
           PerformClaim(a, o)
    PROVE  BudgetInv'
<1>1. /\ TypeOK /\ PendingInv /\ CallsPaid /\ started \in [IssueId -> Nat] /\ pending # <<>>
  BY DEF FleetInv, ActorTypes, BudgetInv, Perform
<1>2. CallsPaid'
  BY <1>1, CallsGoOnPaid DEF PerformClaim, Claim
<1>3. CASE ~MayAcquire(issues[o], a)
  <2>1. UNCHANGED <<issues, started>>
    BY <1>3 DEF PerformClaim, vars
  <2> QED BY <1>1, <1>2, <2>1, SameAffords, NoRunStarts DEF Afforded
<1>4. CASE MayAcquire(issues[o], a)
  <2>1. HeadPaid(Claim(a, o))
    BY <1>1 DEF CallsPaid, PendingInv
  <2>2. ~issues[o].lease.live /\ issues[o].failures < MaxAttempts
    BY <2>1 DEF HeadPaid, Claim
  <2>3. PICK i \in Issue : i = issues[o]
    BY <1>1 DEF TypeOK
  <2>4. PICK j : j = Leased(i, a)
    OBVIOUS
  <2>5. /\ Affords(j) = Affords(i) + 1
        /\ \A id \in IssueId : issues'[id] = IF id = o THEN j ELSE issues[id]
        /\ \A id \in IssueId : started'[id] = IF id = o THEN started[o] + 1 ELSE started[id]
    BY <1>1, <1>4, <2>2, <2>3, <2>4, LeasedAffords DEF PerformClaim, AcquireLease, Store, TypeOK
  <2>6. /\ i.failures \in Nat /\ Affords(i) \in Nat /\ Affords(i) <= i.failures + 1
        /\ started[o] \in Nat /\ MaxAttempts \in Nat /\ i.failures < MaxAttempts
        /\ started[o] <= Affords(i) /\ started[o] <= MaxAttempts + 1
    BY <1>1, <2>2, <2>3, AffordsFacts, WorkerAssumption DEF BudgetInv, Affordable, RetryBudget
  <2>7. i.status = "AVAILABLE" => Affords(i) = i.failures
    BY DEF Affords
  <2>8. ASSUME NEW id \in IssueId
        PROVE  started'[id] <= Affords(issues'[id]) /\ started'[id] <= MaxAttempts + 1
    <3>1. CASE id = o
      BY <2>5, <2>6, <3>1
    <3>2. CASE id # o
      BY <2>5, <3>2 DEF BudgetInv, Affordable, RetryBudget
    <3> QED BY <3>1, <3>2
  <2> QED BY <1>2, <2>8 DEF BudgetInv, Affordable, RetryBudget
<1> QED BY <1>3, <1>4

\* The other calls start no run; those that put an issue back have been paid for.
LEMMA CallKeepsBudget ==
    ASSUME FleetInv, TypeOK', BudgetInv, Perform,
           NEW c \in QueueCall, c = Head(pending), c.op # "claim"
    PROVE  BudgetInv'
<1>1. /\ TypeOK /\ PendingInv /\ CallsPaid /\ started \in [IssueId -> Nat]
      /\ pending # <<>> /\ pending[1] = c
  BY DEF FleetInv, ActorTypes, BudgetInv, Perform, PendingInv
<1>2. PICK o \in IssueId, i \in Issue : o = c.issue /\ i = issues[o]
  BY <1>1, CallFacts DEF TypeOK
<1>3. /\ HeadPaid(c) /\ i.failures \in Nat /\ Affords(i) \in Nat /\ started[o] \in Nat
      /\ Affords(i) <= i.failures + 1 /\ started[o] <= Affords(i)
  BY <1>1, <1>2, AffordsFacts DEF CallsPaid, BudgetInv, Affordable
<1>4. CASE c.op = "abandon"
  <2>1. PerformAbandon(o)
    BY <1>2, <1>4 DEF Perform
  <2>2. UNCHANGED <<issues, started>>
    BY <2>1 DEF PerformAbandon, vars
  <2>3. CASE pending' = Tail(pending)
    <3>1. CallsPaid'
      BY <1>1, <1>4, <2>3, CallsGoOnPaid
    <3> QED BY <1>1, <2>2, <3>1, SameAffords, NoRunStarts DEF Afforded
  <2>4. CASE pending' = <<Forced(o, "NEEDS_HUMAN"), Write(o, "NEEDS_HUMAN")>> \o Tail(pending)
    <3>1. CallsPaid'
      BY <1>1, <1>4, <2>4, AbandonPaid
    <3> QED BY <1>1, <2>2, <3>1, SameAffords, NoRunStarts DEF Afforded
  <2> QED BY <2>1, <2>3, <2>4 DEF PerformAbandon
<1>5. CASE c.op # "abandon"
  <2>1. /\ pending' = Tail(pending)
        /\ started' = [started EXCEPT ![o] = IF c.op = "requeued" THEN 0 ELSE @]
        /\ \/ c.op = "failure" /\ RecordFailure(o)
           \/ c.op = "requeued" /\ RecordRequeue(o)
           \/ c.op = "release" /\ PerformRelease(c.agent, o, c.status)
           \/ c.op = "force" /\ ForceRelease(o, c.status)
           \/ c.op = "write" /\ UpdateStatus(o, c.status)
           \/ c.op = "apply" /\ LinkChange(o, c.proposal)
    BY <1>2, <1>5 DEF Perform
  <2>2. \A id \in IssueId : started'[id] = IF id = o /\ c.op = "requeued" THEN 0 ELSE started[id]
    BY <1>1, <2>1
  <2>3. ASSUME c.op \notin {"failure", "requeued"}, Afforded PROVE BudgetInv'
    <3>1. CallsPaid'
      BY <1>1, <2>1, <2>3, CallsGoOnPaid
    <3> QED BY <1>1, <2>2, <2>3, <3>1, NoRunStarts DEF Afforded
  <2>4. CASE c.op = "failure"
    <3>1. RecordFailure(o) /\ UNCHANGED started
      BY <1>1, <2>1, <2>4
    <3>2. Afforded
      BY <1>1, <3>1, OperationsAfford
    <3>3. issues'[o] = Failed(i)
      BY <1>1, <1>2, <3>1 DEF RecordFailure, Store, TypeOK
    <3>4. started'[o] <= issues'[o].failures
      BY <1>3, <3>1, <3>3, AffordsFacts
    <3>5. CallsPaid'
      BY <1>1, <1>2, <2>1, <3>4, CallsGoOnPaid
    <3> QED BY <1>1, <3>1, <3>2, <3>5, NoRunStarts DEF Afforded
  <2>5. CASE c.op = "requeued"
    <3>1. /\ \A id \in IssueId \ {o} : issues'[id] = issues[id]
          /\ issues'[o].failures = 0
      BY <1>1, <1>2, <2>1, <2>5, AffordsFacts DEF RecordRequeue, Store, TypeOK
    <3>2. started'[o] <= issues'[o].failures
      BY <2>2, <2>5, <3>1
    <3>3. CallsPaid'
      BY <1>1, <1>2, <2>1, <3>2, CallsGoOnPaid
    <3>4. ASSUME NEW id \in IssueId \ {o} PROVE Affords(issues'[id]) >= Affords(issues[id])
      <4>1. PICK j \in Issue : j = issues[id]
        BY <1>1 DEF TypeOK
      <4> QED BY <3>1, <4>1, AffordsFacts
    <3> QED BY <1>1, <2>2, <2>5, <3>3, <3>4, NoRunStarts
  <2>6. ASSUME NEW s \in Status, Store(o, Released(i, s)),
               c.op \in {"release", "force"}, c.status = s
        PROVE  BudgetInv'
    <3>1. CASE s = "AVAILABLE"
      <4>1. started[o] <= i.failures
        BY <1>2, <1>3, <2>6, <3>1 DEF HeadPaid, Returns
      <4>2. /\ issues'[o] = Released(i, s) /\ Affords(Released(i, s)) = i.failures
            /\ \A id \in IssueId \ {o} : issues'[id] = issues[id]
        BY <1>1, <2>6, <3>1, ReleasedAffords DEF Store, TypeOK
      <4>3. CallsPaid'
        BY <1>1, <2>1, <2>6, CallsGoOnPaid
      <4>4. ASSUME NEW id \in IssueId \ {o} PROVE Affords(issues'[id]) >= Affords(issues[id])
        <5>1. PICK j \in Issue : j = issues[id]
          BY <1>1 DEF TypeOK
        <5> QED BY <4>2, <5>1, AffordsFacts
      <4> QED BY <1>1, <2>2, <2>6, <4>1, <4>2, <4>3, <4>4, NoRunStarts
    <3>2. CASE s # "AVAILABLE"
      <4>1. Affords(Released(i, s)) >= Affords(i)
        BY <1>3, <3>2, ReleasedAffords
      <4> QED BY <1>1, <1>2, <2>3, <2>6, <4>1, StoreAffords
    <3> QED BY <3>1, <3>2
  <2>7. WorkerRelease \subseteq Status /\ ForcedRelease \subseteq Status
    BY DEF ForcedRelease, WorkerRelease, Status, Reclaimable, SelfResolvable, Attention, PostWork
  <2>8. CASE c.op = "release"
    <3>1. PICK a \in Agent, s \in WorkerRelease : a = c.agent /\ s = c.status
      BY <2>8, CallFacts
    <3>2. CASE MayRelease(i, a)
      BY <1>2, <2>1, <2>6, <2>7, <2>8, <3>1, <3>2 DEF PerformRelease, ReleaseLease
    <3>3. CASE ~MayRelease(i, a)
      <4>1. UNCHANGED issues
        BY <1>2, <2>1, <2>8, <3>1, <3>3 DEF PerformRelease, vars
      <4> QED BY <1>1, <2>3, <2>8, <4>1, SameAffords
    <3> QED BY <3>2, <3>3
  <2>9. CASE c.op = "force"
    <3>1. PICK s \in ForcedRelease : s = c.status
      BY <2>9, CallFacts
    <3> QED BY <1>2, <2>1, <2>6, <2>7, <2>9, <3>1 DEF ForceRelease
  <2>10. CASE c.op \in {"write", "apply"}
    <3>1. \/ \E s \in WrittenStatus : UpdateStatus(o, s)
          \/ \E p \in Proposal : LinkChange(o, p)
      BY <2>1, <2>10, CallFacts
    <3>2. Afforded
      BY <1>1, <3>1, OperationsAfford
    <3> QED BY <2>3, <2>10, <3>2
  <2> QED BY <2>1, <2>4, <2>5, <2>8, <2>9, <2>10
<1> QED BY <1>4, <1>5

\* The running handler.
LEMMA PerformKeepsBudget ==
    ASSUME FleetInv, TypeOK', BudgetInv, Perform
    PROVE  BudgetInv'
<1>1. PICK c \in QueueCall : c = Head(pending)
  BY HeadIsDue DEF FleetInv, Perform
<1>2. CASE c.op = "claim"
  <2>1. PICK o \in IssueId, a \in Agent : c = Claim(a, o)
    BY <1>2 DEF QueueCall, Claim
  <2>2. PerformClaim(a, o)
    BY <1>1, <2>1 DEF Perform, Claim
  <2> QED BY <1>1, <2>1, <2>2, ClaimKeepsBudget
<1>3. CASE c.op # "claim"
  BY <1>1, <1>3, CallKeepsBudget
<1> QED BY <1>2, <1>3

\* Patrols and operators: what they put back in the pool has a fresh budget.
LEMMA OthersKeepBudget ==
    ASSUME FleetInv, TypeOK', BudgetInv, Patrol \/ Operator
    PROVE  BudgetInv'
<1>1. TypeOK /\ started \in [IssueId -> Nat]
  BY DEF FleetInv, ActorTypes
<1>2. ASSUME UNCHANGED started, Afforded, CallsPaid' PROVE BudgetInv'
  BY <1>1, <1>2, NoRunStarts DEF Afforded
<1>3. ASSUME NEW o \in IssueId, NEW x, Store(o, x), started' = [started EXCEPT ![o] = 0],
             pending' = <<>>
      PROVE  BudgetInv'
  <2>1. CallsPaid'
    BY <1>3, NoCallsPaid
  <2>2. started'[o] = 0
    BY <1>1, <1>3
  <2>3. ASSUME NEW id \in IssueId \ {o}
        PROVE  started'[id] = started[id] /\ Affords(issues'[id]) >= Affords(issues[id])
    <3>1. PICK j \in Issue : j = issues[id]
      BY <1>1 DEF TypeOK
    <3>2. issues'[id] = j /\ started'[id] = started[id]
      BY <1>1, <1>3, <3>1 DEF Store, TypeOK
    <3> QED BY <3>1, <3>2, AffordsFacts
  <2> QED BY <1>1, <2>1, <2>2, <2>3, NoRunStarts
<1>4. ASSUME NEW o \in IssueId, PatrolFindsProblem(o) PROVE BudgetInv'
  <2>1. PICK x : Store(o, x)
    BY <1>4 DEF PatrolFindsProblem, UpsertObserved
  <2>2. CASE issues[o].status = "CLOSED"
    BY <1>3, <1>4, <2>1, <2>2 DEF PatrolFindsProblem
  <2>3. CASE issues[o].status # "CLOSED"
    BY <1>1, <1>2, <1>4, <2>3, OperationsAfford, NoCallsPaid DEF PatrolFindsProblem
  <2> QED BY <2>2, <2>3
<1>5. ASSUME NEW o \in IssueId, OperatorReleases(o) PROVE BudgetInv'
  BY <1>3, <1>5 DEF OperatorReleases, ForceRelease
<1>6. ASSUME NEW o \in IssueId,
             (\E a \in Agent : OperatorClaims(a, o))
             \/ \E s \in {"APPROVED", "BLOCKED"} : OperatorDecides(o, s)
      PROVE  BudgetInv'
  <2>1. (\E a \in Agent : AcquireLease(o, a)) \/ \E s \in WrittenStatus : UpdateStatus(o, s)
    BY <1>6 DEF OperatorClaims, OperatorDecides, WrittenStatus
  <2>2. UNCHANGED started /\ pending' = <<>>
    BY <1>6 DEF OperatorClaims, OperatorDecides, workerVars
  <2> QED BY <1>1, <1>2, <2>1, <2>2, OperationsAfford, NoCallsPaid
<1>7. ASSUME NEW o \in IssueId,
             PatrolFindsHealthy(o) \/ OperatorRequeues(o) \/ OperatorCloses(o)
      PROVE  BudgetInv'
  <2>1. UNCHANGED <<started, issues>>
    BY <1>7 DEF PatrolFindsHealthy, OperatorRequeues, OperatorCloses, vars
  <2>2. PICK c, d : /\ pending' = <<c, d>> /\ c.op # "claim"
                    /\ ~Returns(c) /\ (Returns(d) => Covers(c, d))
    <3>1. /\ \A s : Write(o, s).op = "write"
          /\ Forced(o, "CLOSED").op = "force" /\ Forced(o, "CLOSED").status = "CLOSED"
          /\ Requeued(o).op = "requeued" /\ Requeued(o).issue = o
          /\ Forced(o, "AVAILABLE").issue = o
      BY DEF Write, Forced, Requeued
    <3>2. \/ pending' = <<Forced(o, "CLOSED"), Write(o, "CLOSED")>>
          \/ pending' = <<Write(o, "CLOSED"), Forced(o, "CLOSED")>>
          \/ pending' = <<Requeued(o), Forced(o, "AVAILABLE")>>
      BY <1>7 DEF PatrolFindsHealthy, OperatorRequeues, OperatorCloses, Handler
    <3> QED BY <3>1, <3>2 DEF Returns, Covers
  <2>3. CallsPaid'
    BY <2>2, TwoCallsPaid
  <2> QED BY <1>1, <1>2, <2>1, <2>3, SameAffords
<1> QED BY <1>4, <1>5, <1>6, <1>7 DEF Patrol, Operator

\* Reviewers leave one call, which puts nothing back in the pool.
LEMMA ReviewerKeepsBudget ==
    ASSUME FleetInv, TypeOK', BudgetInv, Reviewer
    PROVE  BudgetInv'
<1>1. TypeOK /\ started \in [IssueId -> Nat]
  BY DEF FleetInv, ActorTypes
<1>2. UNCHANGED <<issues, started>>
  BY DEF Reviewer, ReviewerApproves, ReviewerApprovesManual, ReviewerRejects,
         ReviewerMarksApplied, ReviewerAbandons, MoveProposal, vars
<1>3. PICK c : pending' = <<c>> /\ c.op \notin {"claim", "release", "force"}
  BY DEF Reviewer, ReviewerApproves, ReviewerApprovesManual, ReviewerRejects,
         ReviewerMarksApplied, ReviewerAbandons, Handler, Apply, Write, Abandon
<1>4. HeadPaid(c)'
  BY <1>3 DEF HeadPaid, Returns
<1>5. CallsPaid'
  BY <1>3, <1>4, OneCallPaid
<1> QED BY <1>1, <1>2, <1>5, SameAffords, NoRunStarts DEF Afforded

\* A crash or a failed call drops what was to be called; a claim whose ledger
\* entry fails has taken the lease but starts no run.
LEMMA FaultKeepsBudget ==
    ASSUME FleetInv, TypeOK', BudgetInv, Fault
    PROVE  BudgetInv'
<1>1. TypeOK /\ PendingInv /\ CallsPaid /\ started \in [IssueId -> Nat]
  BY DEF FleetInv, ActorTypes, BudgetInv
<1>2. CASE HandlerFails \/ Crash
  <2>1. UNCHANGED <<issues, started>> /\ pending' = <<>>
    BY <1>2 DEF HandlerFails, Crash, vars
  <2> QED BY <1>1, <2>1, SameAffords, NoCallsPaid, NoRunStarts DEF Afforded
<1>3. CASE \E t \in threads : SubmitLinkFails(t)
  <2>1. UNCHANGED <<issues, started, pending>>
    BY <1>3 DEF SubmitLinkFails, vars
  <2> QED BY <1>1, <2>1, SameAffords, CallsStayPaid, NoRunStarts DEF Afforded
<1>4. CASE ClaimLedgerFails
  <2>1. PICK o \in IssueId, a \in Agent : o = Head(pending).issue /\ a = Head(pending).agent
    BY <1>1, <1>4, HeadIsDue, CallFacts DEF ClaimLedgerFails
  <2>2. AcquireLease(o, a) /\ UNCHANGED started /\ pending' = <<>>
    BY <1>4, <2>1 DEF ClaimLedgerFails
  <2> QED BY <1>1, <2>2, OperationsAfford, NoCallsPaid, NoRunStarts DEF Afforded
<1> QED BY <1>2, <1>3, <1>4 DEF Fault, WorkerFault

\* Every step of the fleet keeps the budget.
LEMMA BudgetStep == FleetInv /\ BudgetInv /\ [FleetNext]_fleetVars => BudgetInv'
<1> SUFFICES ASSUME FleetInv, BudgetInv, [FleetNext]_fleetVars PROVE BudgetInv'
  OBVIOUS
<1>1. TypeOK'
  BY FleetInvStep DEF FleetInv
<1>2. CASE UNCHANGED fleetVars
  <2>1. UNCHANGED <<issues, pending, started>>
    BY <1>2 DEF fleetVars, vars, workerVars
  <2> QED BY <1>1, <2>1, SameAffords, CallsStayPaid, NoRunStarts
          DEF Afforded, FleetInv, ActorTypes, BudgetInv
<1>3. CASE WorkerStep
  BY <1>1, <1>3, WorkerKeepsBudget, PerformKeepsBudget
<1> QED
  BY <1>1, <1>2, <1>3, OthersKeepBudget, ReviewerKeepsBudget, FaultKeepsBudget DEF FleetNext

\* A fresh server has started nothing.
LEMMA BudgetInit == FleetInit => BudgetInv
<1> SUFFICES ASSUME FleetInit PROVE BudgetInv
  OBVIOUS
<1>1. pending = <<>> /\ started = [id \in IssueId |-> 0] /\ issues = [id \in IssueId |-> NewIssue]
  BY DEF FleetInit, Init, WorkerInit
<1>2. Affordable
  BY <1>1 DEF Affordable, Affords, NewIssue
<1>3. RetryBudget
  BY <1>1, WorkerAssumption DEF RetryBudget
<1>4. CallsPaid
  BY <1>1 DEF CallsPaid
<1> QED BY <1>2, <1>3, <1>4 DEF BudgetInv

\* Whatever crashes, lapses, fails or is taken over: unless an operator or a
\* reopening puts the issue back, at most MaxAttempts + 1 runs are started on it.
\* Every run that ends is on record as a failure before its issue is in the pool
\* again, so an issue that is up for a claim has had no more runs than failures.
THEOREM RetriesAreBounded == FleetSafety => []RetryBudget
<1>1. BudgetInv => RetryBudget
  BY DEF BudgetInv
<1> QED
  BY <1>1, BudgetInit, BudgetStep, FleetInvariant, PTL DEF FleetSafety
=============================================================================
