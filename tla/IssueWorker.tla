---------------------------- MODULE IssueWorker ----------------------------
(***************************************************************************)
(* The autonomous workers of one server (agents/core/issue_worker.py) on   *)
(* top of the work queue.  Three kinds of actors touch the queue:          *)
(*                                                                         *)
(*  - the event loop of the server runs the dispatcher, the workers'       *)
(*    coroutines, the scheduler and the HTTP handlers.  Between two awaits *)
(*    a handler runs alone on the loop, but each of its queue calls is a   *)
(*    step of its own: `pending` is what the running handler still has to  *)
(*    do, and the loop is free when it is empty;                           *)
(*  - the threads of asyncio.to_thread, in which an agent's tool calls     *)
(*    submit proposals, run beside the loop.  A timeout or a cancellation  *)
(*    abandons the thread, it does not stop it;                            *)
(*  - the clock, that lets leases lapse.                                   *)
(*                                                                         *)
(* The heartbeat of a live lease changes nothing here (the clock is a bit  *)
(* of the lease), so it is no action: a lease with an attending run MAY    *)
(* lapse (the loop was blocked, a renewal failed), one without it must.    *)
(* The retry cooldown only delays Dispatch.                                *)
(***************************************************************************)
EXTENDS WorkQueue, FiniteSets

CONSTANTS NoIssue,        \* an idle agent's issue
          MaxAttempts,    \* IssueWorker.max_attempts
          MaxConcurrent   \* IssueWorker.max_concurrent

ASSUME WorkerAssumption ==
    /\ NoIssue \notin IssueId
    /\ MaxAttempts \in Nat \ {0}
    /\ MaxConcurrent \in Nat

VARIABLES run,        \* run[a]: the issue agent a is working on (_tasks, _in_flight)
          threads,    \* the tool threads, each bound to the issue of its run
          pending,    \* queue calls the handler on the event loop has still to make
          proposals,  \* the proposal files: their directory and their issue_id
          started     \* history: runs on an issue since an operator or a reopening
                      \* last put it in the pool

workerVars == <<run, threads, pending, proposals, started>>

Idle == [pc |-> "idle", issue |-> NoIssue, token |-> 0]

Busy == {a \in Agent : run[a].pc # "idle"}

InFlight == {run[a].issue : a \in Busy}

\* The thread of a run, outside a call of submit_proposal.
ThreadOf(r) == [issue |-> r.issue, token |-> r.token, proposal |-> NoProposal]

HasRun(t) ==
    \E a \in Agent : /\ run[a].pc = "chatting"
                     /\ run[a].issue = t.issue
                     /\ run[a].token = t.token

-----------------------------------------------------------------------------
(* The calls a handler has still to make *)

Claim(a, id)      == [op |-> "claim", issue |-> id, agent |-> a]
Failure(id)       == [op |-> "failure", issue |-> id]
Requeued(id)      == [op |-> "requeued", issue |-> id]
Release(a, id, s) == [op |-> "release", issue |-> id, agent |-> a, status |-> s]
Forced(id, s)     == [op |-> "force", issue |-> id, status |-> s]
Write(id, s)      == [op |-> "write", issue |-> id, status |-> s]
Apply(id, p)      == [op |-> "apply", issue |-> id, proposal |-> p]
Abandon(id)       == [op |-> "abandon", issue |-> id]

\* A handler may start when the loop is free; it leaves these calls to make.
Handler(calls) == pending = <<>> /\ pending' = calls

-----------------------------------------------------------------------------
(* The dispatcher and the worker coroutine *)

\* Mutant: an issue this server is already working on is not skipped.
DispatchAgain(a, id) ==
    /\ Cardinality(Busy) < MaxConcurrent
    /\ a \notin Busy
    /\ id \in published
    /\ IsClaimable(issues[id])
    /\ Handler(IF issues[id].failures < MaxAttempts
               THEN <<Claim(a, id)>>
               ELSE <<Write(id, "NEEDS_HUMAN")>>)
    /\ UNCHANGED <<vars, run, threads, proposals, started>>

\* dispatch for an idle agent: an eligible issue that is not in flight is
\* claimed, or escalated when its retry budget is used up.
Dispatch(a, id) ==
    /\ Cardinality(Busy) < MaxConcurrent
    /\ a \notin Busy
    /\ id \in published \ InFlight
    /\ IsClaimable(issues[id])
    /\ Handler(IF issues[id].failures < MaxAttempts
               THEN <<Claim(a, id)>>
               ELSE <<Write(id, "NEEDS_HUMAN")>>)
    /\ UNCHANGED <<vars, run, threads, proposals, started>>

\* _work up to the await: EXECUTING is written whatever the status is by now.
BeginWork(a) ==
    /\ pending = <<>>
    /\ run[a].pc = "claimed"
    /\ UpdateStatus(run[a].issue, "EXECUTING")
    /\ run' = [run EXCEPT ![a].pc = "chatting"]
    /\ threads' = threads \cup {ThreadOf(run[a])}
    /\ UNCHANGED <<pending, proposals, started>>

\* _finish after a run that did not end with a submitted proposal.
Unsuccessful(a, id) == <<Failure(id), Release(a, id, "AVAILABLE")>>

\* agent.chat returns: the outcome is read off the issue, and _finish follows.
ChatReturns(a) ==
    LET id == run[a].issue IN
    /\ run[a].pc = "chatting"
    /\ ThreadOf(run[a]) \in threads
    /\ threads' = threads \ {ThreadOf(run[a])}
    /\ run' = [run EXCEPT ![a] = Idle]
    /\ Handler(IF issues[id].status = "VALIDATING" /\ issues[id].proposal # NoProposal
               THEN <<Release(a, id, "VALIDATING")>>
               ELSE Unsuccessful(a, id))
    /\ UNCHANGED <<vars, proposals, started>>

\* agent.chat raises, whatever it did before.
ChatFails(a) ==
    /\ run[a].pc = "chatting"
    /\ ThreadOf(run[a]) \in threads
    /\ threads' = threads \ {ThreadOf(run[a])}
    /\ run' = [run EXCEPT ![a] = Idle]
    /\ Handler(Unsuccessful(a, run[a].issue))
    /\ UNCHANGED <<vars, proposals, started>>

\* Mutant: a time-out does not count as a failed attempt.
InterruptedUncounted(a) ==
    /\ run[a].pc = "chatting"
    /\ run' = [run EXCEPT ![a] = Idle]
    /\ Handler(<<Release(a, run[a].issue, "AVAILABLE")>>)
    /\ UNCHANGED <<vars, threads, proposals, started>>

\* wait_for times out, or stop() cancels the task: the thread goes on.
Interrupted(a) ==
    /\ run[a].pc = "chatting"
    /\ run' = [run EXCEPT ![a] = Idle]
    /\ Handler(Unsuccessful(a, run[a].issue))
    /\ UNCHANGED <<vars, threads, proposals, started>>

\* Mutant: a holder without a run on this server is presumed dead.
SweepUnattended ==
    /\ pending = <<>>
    /\ issues' = [id \in IssueId |->
                    IF issues[id].status \in Reclaimable /\ id \notin InFlight
                    THEN Reclaimed(issues[id]) ELSE issues[id]]
    /\ UNCHANGED <<published, granted, workerVars>>

\* The scheduler's sweep.
Sweep ==
    /\ pending = <<>>
    /\ ReclaimExpiredLeases
    /\ UNCHANGED workerVars

-----------------------------------------------------------------------------
(* The tool threads *)

\* submit_proposal writes the proposal file, linked to the bound issue ...
SubmitProposal(t, p) ==
    /\ t.proposal = NoProposal
    /\ proposals[p].state = "none"
    /\ proposals' = [proposals EXCEPT ![p] = [state |-> "open", issue |-> t.issue]]
    /\ threads' = (threads \ {t}) \cup {[t EXCEPT !.proposal = p]}
    /\ UNCHANGED <<vars, run, pending, started>>

\* ... and then links the issue to it ...
SubmitLink(t) ==
    /\ t.proposal # NoProposal
    /\ LinkProposal(t.issue, t.proposal)
    /\ threads' = (threads \ {t}) \cup {[t EXCEPT !.proposal = NoProposal]}
    /\ UNCHANGED <<run, pending, proposals, started>>

\* ... unless that fails, which is only logged.
SubmitLinkFails(t) ==
    /\ t.proposal # NoProposal
    /\ threads' = (threads \ {t}) \cup {[t EXCEPT !.proposal = NoProposal]}
    /\ UNCHANGED <<vars, run, pending, proposals, started>>

\* An abandoned thread ends; nobody waits for its result.
OrphanEnds(t) ==
    /\ t.proposal = NoProposal
    /\ ~HasRun(t)
    /\ threads' = threads \ {t}
    /\ UNCHANGED <<vars, run, pending, proposals, started>>

-----------------------------------------------------------------------------
(* The next call of the handler on the event loop *)

\* claim_work: the lease, and a task for the run.
PerformClaim(a, id) ==
    IF MayAcquire(issues[id], a)
    THEN /\ AcquireLease(id, a)
         /\ run' = [run EXCEPT ![a] = [pc    |-> "claimed",
                                       issue |-> id,
                                       token |-> LastGeneration(issues[id]) + 1]]
         /\ started' = [started EXCEPT ![id] = @ + 1]
         /\ pending' = Tail(pending)
    ELSE /\ pending' = Tail(pending)   \* lost the race
         /\ UNCHANGED <<vars, run, started>>

PerformRelease(a, id, s) ==
    IF MayRelease(issues[id], a) THEN ReleaseLease(id, a, s) ELSE UNCHANGED vars

\* abandon_approved_change acts only on an APPROVED issue.
PerformAbandon(id) ==
    /\ pending' = IF issues[id].status = "APPROVED"
                  THEN <<Forced(id, "NEEDS_HUMAN"), Write(id, "NEEDS_HUMAN")>> \o Tail(pending)
                  ELSE Tail(pending)
    /\ UNCHANGED <<vars, run, started>>

Perform ==
    /\ pending # <<>>
    /\ LET c == Head(pending) IN
         \/ c.op = "claim" /\ PerformClaim(c.agent, c.issue)
         \/ c.op = "abandon" /\ PerformAbandon(c.issue)
         \/ /\ c.op \notin {"claim", "abandon"}
            /\ \/ c.op = "failure" /\ RecordFailure(c.issue)
               \/ c.op = "requeued" /\ RecordRequeue(c.issue)
               \/ c.op = "release" /\ PerformRelease(c.agent, c.issue, c.status)
               \/ c.op = "force" /\ ForceRelease(c.issue, c.status)
               \/ c.op = "write" /\ UpdateStatus(c.issue, c.status)
               \/ c.op = "apply" /\ LinkChange(c.issue, c.proposal)
            /\ started' = [started EXCEPT ![c.issue] = IF c.op = "requeued" THEN 0 ELSE @]
            /\ pending' = Tail(pending)
            /\ UNCHANGED run
    /\ UNCHANGED <<threads, proposals>>

\* A call raises: the handler logs it and drops the rest of its calls.
HandlerFails ==
    /\ pending # <<>>
    /\ pending' = <<>>
    /\ UNCHANGED <<vars, run, threads, proposals, started>>

\* claim_issue raises in the ledger after the queue has granted the lease: the
\* dispatcher starts no task.
ClaimLedgerFails ==
    /\ pending # <<>>
    /\ Head(pending).op = "claim"
    /\ AcquireLease(Head(pending).issue, Head(pending).agent)
    /\ pending' = <<>>
    /\ UNCHANGED <<run, threads, proposals, started>>

-----------------------------------------------------------------------------

WorkerInit ==
    /\ run = [a \in Agent |-> Idle]
    /\ threads = {}
    /\ pending = <<>>
    /\ proposals = [p \in Proposal |-> [state |-> "none", issue |-> NoIssue]]
    /\ started = [id \in IssueId |-> 0]

WorkerStep ==
    \/ \E a \in Agent :
          \/ \E id \in IssueId : Dispatch(a, id)
          \/ BeginWork(a)
          \/ ChatReturns(a)
          \/ ChatFails(a)
          \/ Interrupted(a)
    \/ \E t \in threads :
          \/ \E p \in Proposal : SubmitProposal(t, p)
          \/ SubmitLink(t)
          \/ OrphanEnds(t)
    \/ Sweep
    \/ Perform
    \/ \E id \in IssueId : Lapse(id) /\ UNCHANGED workerVars

WorkerFault == HandlerFails \/ ClaimLedgerFails \/ \E t \in threads : SubmitLinkFails(t)
=============================================================================
