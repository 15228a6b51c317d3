# TLA+ models of the SOC operating system in `secops_engine_sdk`

The SDK contains a fleet of agents that work on security-operations issues
without supervision (`agents/core/`): patrols open issues in a work queue, worker
agents lease them and propose changes, humans review the changes, patrols verify
them. That fleet is what this project models, together with what it stands on:
the ledger, the to-do board, the patrol schedules, the conversations with the
agents and the client of the Google SecOps API. The rest of the repository - the
facade, its workflows, the command line, desktop and terminal clients - is
stateless request code and documents.

- [Components](#components)
- [Modules](#modules)
- [Runs](#runs)
- [Fairness](#fairness)
- [What is proved](#what-is-proved)
- [Disagreements found](#disagreements-found)
- [Limits](#limits)
- [Plan](#plan)

## Components

| component | state | operations | what is hard |
|---|---|---|---|
| Work queue, local (`work_queue.py`, `LocalWorkQueue`) | one JSON file per issue: status, lease, generation, claim, attempts, pointers to the proposal and the change | `upsert_observed_issue`, `acquire_lease`, `renew_lease`, `release_lease`, `update_issue_status`, `record_attempt`, `reclaim_expired_leases` | called by the event loop and by tool threads; leases lapse at any time; a file is rewritten in place |
| Work queue, Firestore (`FirestoreWorkQueue`) | the same, as documents shared by several servers | the same | only some operations are transactions |
| Issue worker (`issue_worker.py`) | `_tasks`, `_in_flight`, heartbeats | `dispatch`, `_work`, `_finish`, `cancel_all` | awaits, time-outs that leave threads running, crashes |
| Lifecycle manager (`lifecycle.py`) | none | opening, claiming, deciding, applying, closing, requeueing: each a sequence of queue calls and a ledger entry | a failure between two calls; status read and then overwritten |
| Proposal manager (`proposal_manager.py`) with approval policy and target baselines | a Markdown file per proposal in `open/`, `merged/` or `rejected/` | create, update, approve and merge, reject, mark applied, abandon | a live write, a file move and an issue update that are not atomic; edits by others |
| Issue ledger (`materializer.py`, `ledger.py`, `git_guard.py`) | numbered event files and `issue.yaml` per issue | one entry per life-cycle transition | numbers are counts of files; nothing locks the directory; `issue.yaml` is rewritten in place |
| Fleet scheduler (`fleet_scheduler.py`) | a dictionary of schedules, a document per schedule | poll loop, patrols, `trigger_*`, `update_schedule` | dictionaries shared across awaits, and replaced meanwhile; a save may fail |
| Base agent (`base_adk_agent.py`) | the executed tool calls, the last widget, the last proposal | `claim_work`, `renew_work_lease`, `submit_proposal`, `chat` | one object per agent, several conversations; tools run in threads |
| Evidence store (`evidence_store.py`) | to-dos, rule states, agent configurations | `upsert_todo`, `resolve_todo`, `update_todo_status`, `deduplicate_todos` | read, merge, save without a lock |
| Chat engine (`clients/web/chat_engine.py`) | messages, the job list | `dispatch`, `start_job`, `complete_job`, `fail_job`, `list_active_jobs` | ids by the millisecond; agents that fail; jobs that are given up while they go on |
| API adapter (`adapters/google_secops.py`) and credentials (`engine/auth.py`) | a retry log, a cached token | `_request`, `retries_since`, `get_token`, `invalidate` | shared by threads; a POST is retried when its answer is lost |
| Pagination (`engine/pagination.py`) | none | `collect_pages` | the service decides how the chain of pages goes on |
| Knowledge store, communication router | documents, messages | publish, list, deliver | little |
| Web server (`clients/web/server.py`) | none of its own | REST endpoints for operators and reviewers | browsers show old states |

How they interact: the scheduler's loop sweeps lapsed leases, dispatches idle
workers and runs the patrols that are due, one after the other, on the server's
event loop. The REST endpoints are handlers on the same loop. A worker's run is a
task on the loop; it awaits `agent.chat`, whose tool calls run in threads of
`asyncio.to_thread` and call the proposal manager and the queue directly. So a
handler is interleaved with another handler only at an `await`, and with a
thread anywhere. Everything that survives a crash is a file (or a document).

What makes them correct, in short: an issue is worked by one agent at a time; a
lease is never taken from a live worker by anybody but an operator; generations
tell a late holder from the present one; the retry budget bounds what the fleet
does before it calls a human; an issue is reported as applied only if a change
was made; no issue is forgotten; what a human decided is not undone by a machine.
The ledger tells what happened in the order in which it happened; the to-do board
says what the patrols find; a patrol that is on is run and one that was switched
off is not; a conversation is not given what belongs to another; a caller of the
API learns how often its request may have been executed.

## Modules

| module | models | state and actions |
|---|---|---|
| `SOCIssue` | one issue and what each queue operation makes of it | operators only: `Leased`, `Released`, `Reclaimed`, `Reobserved`, ... and the guards `IsClaimable`, `MayAcquire`, `MayRenew`, `MayRelease` |
| `WorkQueue` | `LocalWorkQueue` as a service | `published`, `issues`, and the history `granted`; one action per operation, called with any argument that some caller in the code passes |
| `FencedLease` | the abstract specification of the queue's leases | per resource an owner, a token and the list of owners so far: a token is issued, is lost, or lapses |
| `LateLease` | the abstract specification of the leases of the shared queue | as `FencedLease`, without tokens; and the extensions that were `asked` for: each lands later, on whatever lease there is by then, or is lost |
| `IssueWorker` | `IssueWorker`, the tool threads, the event loop | `run`, `threads`, `pending`, `proposals`, and the history `started` |
| `SOCFleet` | the whole of one server | adds patrols, operators, reviewers and crashes; every queue call of every handler is a step |
| `FirestoreQueue` | `FirestoreWorkQueue` | adds to `WorkQueue` the calls in progress (`calls`) and the listed candidates of a sweep |
| `ProposalManager` | `ProposalManager`, the approval policy, the target baselines, the replay agent | `rule`, the directories `open`, `merged`, `rejected`, the request in progress `handler`, the threads `drafts` and `replay`, what the issues were `told`; one action per step of a request |
| `ProposalLife` | the abstract specification of a proposal's life | the `decisions` taken, what issues were `told`, and the number of `mishaps`; a proposal is judged, then perhaps settled, and each mishap lets one decision more be taken |
| `IssueLedger` | `IssueMaterializer`, and the life cycle that calls it, for one issue | `events` (file name -> call), `yaml`, the calls in progress, the `status` in the queue; `Begin` is the queue's half of a call, then `CountEvents`, `WriteEvent`, `ReadYaml`, `TruncateYaml`, `FillYaml` |
| `TodoBoard` | the to-dos of one resource in the local evidence store | `board`, the `kind` of patrol the resource has, whether it is `anomalous`, and what the event loop and a tool thread are at (`calls`); a read and a write are two steps |
| `PatrolSchedule` | the schedules of `FleetScheduler` and their documents | `dicts` (every dictionary a patrol has had), `store`, `walkers` (the loop and the requests, with the dictionaries they have still to run) |
| `ApiAdapter` | `_request`, the retry log, the token cache, `collect_pages` | `calls` (one workflow per thread), `cached`, `log`, `seq`; outside: the token `accepted`, the writes executed (`written`) and the `chain` of pages |
| `AgentChat` | `AgentDispatcher`, the job list, the fields an agent keeps during a chat | `chats` (a dispatch, a worker's run or a request), `agents`, `jobs`, and the turns that have `ended`; a turn is one call of `agent.chat`, `CallOutside` calls a tool in none; `Answer(d)` is the message with which the turn of `d` would end now |
| `MC...` | symmetry and constants for TLC | |
| `...Proofs` | theorems, see [What is proved](#what-is-proved) | |

`SOCIssue` <- `WorkQueue` <- `IssueWorker` <- `SOCFleet`, each EXTENDing the one
before, and `WorkQueue` <- `FirestoreQueue`. `ProposalManager` stands alone: it
takes the issue for somebody who is told the outcome, as `SOCFleet` takes a merge
for one step. An action of `IssueWorker` or
`SOCFleet` that touches an issue is a conjunction of an action of `WorkQueue` and
the worker's own bookkeeping; the property `UsesQueue` checks that nothing goes
around the queue. `IssueLedger`, `TodoBoard`, `PatrolSchedule`, `ApiAdapter` and
`AgentChat` stand alone too: what they share with the fleet (that an issue is
moved before it is entered, that tools run in threads, that handlers run one at a
time) is part of each.

Abstractions:

- *Time.* A lease has a bit `live` (`not is_expired()`), and the clock is the
  action `Lapse`. A heartbeat sets a bit that is already set, so in `IssueWorker`
  it is not an action: a lease MAY lapse at any time, attended or not, and the
  fairness condition makes it lapse only if nobody attends it. The cooldown
  between attempts only delays `Dispatch`.
- *Attempts.* `failures` is `failed_attempt_count(issue)`, the number of failed
  outcomes since the last `OPERATOR_REQUEUED` or `REOPENED`.
- *The event loop.* `pending` holds the queue calls the running handler has still
  to make. A handler starts only when it is empty. Threads step in between.
- *Names.* Agents, issues and proposals are model values; capabilities always match.
- *Failures.* `HandlerFails`: a call raises and the handler's `except` drops the
  rest. `ClaimLedgerFails`: the ledger raises after the lease was granted.
  `SubmitLinkFails`: linking a proposal fails and is logged. `Crash`: the server
  stops and restarts; runs, threads and the running handler are gone.

In `ProposalManager`:

- *A request is a handler.* `approve_and_merge` is `Approve` (file read, policy
  gate), `CheckPasses` or `CheckRefuses`, `Execute` or `ExecuteUnanswered`,
  `WriteVerdict`, `UnlinkOpen`, `Commit`, `Report`; `reject_proposal`,
  `mark_manually_applied` and `abandon_manual_apply` share the steps they have. The
  endpoints do not await, so one request runs at a time, but it may fail
  (`StepRaises`) or the server die (`Crash`) between any two steps.
- *Threads.* `create_proposal` is two steps (read the clock and the baseline, write
  the file); what the agent read before it wrote its text is not on record and not
  modelled. The replay agent
  reads the proposal, then looks for its file, then writes.
- *The rule* has a text, a revision that every saved version raises, and one bit
  for its deployment; proposals enable the rule. A submission's text is named for
  the submission, so writing it can be told from any other text.
- *Kinds.* The action types fall into five classes with different gates, executors
  and baselines; `high` is a risk of HIGH or CRITICAL.
- *Parsing.* A file is read back as it was written, except where a text of the
  proposal contains `---`, the frontmatter's delimiter (`Readable`, `Parsed`).
- *Histories.* `log` lists what was decided or written, with the proposal as the
  request held it; `stale` counts replays that wrote over what they had not read.

In the other modules:

- *`IssueLedger`.* A file is known by its number and suffix and holds the call that
  wrote it. `issue.yaml` is absent, empty (just truncated), filled or mixed (two
  writers, one with more bytes): a mixed file does not parse and is left alone
  from then on, an empty one reads as `{}`. Calls by handlers exclude each other;
  proposals come from threads. Workers and the sweep move an issue without an
  entry (`MayBe`). `record_validation` has no caller outside the tests and is
  included. The first entry numbers itself 1 without counting. `record_validation`,
  `decide_issue` and `apply_change` ignore what `update_issue_status` answers
  (`lifecycle.py:200-264`), so they make their entry for an issue the queue does not
  know, too (`Unchecked`); `Begin` then leaves the status unknown.
- *`TodoBoard`.* A to-do is its status. `kind` says what the patrol does with it. The
  `"resolving"` patrols close it when they find nothing: rule decay
  (`fleet_scheduler.py:537`), IAM (584), posture (612), playbooks (639), timestamps
  (667) and the cloud's status (710). The `"sighting"` ones never close it: feeds
  (355-381), parsers (383-488, which close only the SOC issue) and noisy rules
  (491-514). Nor do the audits of shadowed rules (543-561) and of rule conflicts
  (`rule_conflict.py:577-580`), whose to-do has no `_active` in its id (`"plain"`).
  Patrol, request and consolidation run on
  the event loop, one at a time; the audit tools of `@timestamp-integrity-agent` and
  `@rule-conflict-agent` and the cascades of tools run in a thread. The scheduled timestamp patrol sights
  the to-do in the tool and again in the scheduler, which only counts twice.
  `DocId` has the patrol's id, an id of an earlier version with a time in it, the
  ids of requests and what a consolidation renames them to.
- *`PatrolSchedule`.* `revision` stands for all the settings, `next` for
  `next_run_at` (`"none"`, `"later"`, `"due"`). Nothing but the chat fallback
  awaits, so a walk keeps the loop up to its next chat. A failure is an action
  that raises, a save that raises, or a document that cannot be read at start.
- *`ApiAdapter`.* A token is the number of the token the service accepted when it
  was issued. An answer is one of six kinds, among them two errors that are
  retried and may come after the request was executed. `again` counts the 500s
  that `list_cases` retries by itself.
- *`AgentChat`.* The list of tool calls, the widget and the proposal are reduced to
  the turn that left them. A tool may fail, and then is not listed
  (`base_adk_agent.py:679-681`), though it may have left a widget by then; that a tool
  is listed and that it leaves a widget is one step. The slice for the provenance is
  taken before the follow-up that asks a silent model for a summary (`AskSummary`,
  line 824), during which tools may run. `CallOutside` is a method that a patrol
  (`fleet_scheduler.py:1022-1026`) or a REST handler (`server.py:1589`, 1620, 1653)
  calls on an agent: it may list a call and leave a widget or fail, and a patrol that
  gets to its end clears the widget there is (`fleet_scheduler.py:1091`). A scheduled
  chat is a `Worker`. What a worker or a patrol says is not modelled, only what it
  leaves. `RaiseTurn` stands for exceptions and for the errors of
  the agents whose branch of `_execute_agent` does not take the widget
  (`@secops-dispatcher`, `@rule-troubleshooter`, `@yaral-optimizer`). The clock
  advances where a turn starts, which is where it is read.
- In `SOCFleet`, `FirestoreQueue`, `ApiAdapter` and `AgentChat` the type invariant
  is the first conjunct of another invariant.

## Runs

| run | what it asks | instance | states |
|---|---|---|---|
| `queue` | Are leases fenced, never revived and never stolen, whatever the callers do? Does the queue implement `FencedLease`? | 1 issue, 2 agents, 4 leases, 2 failures | 12 thousand |
| `fleet` | With patrols, operators, reviewers, abandoned threads and a fault: one agent per issue, the retry budget, applied means merged, all through the queue | 1 issue, 2 agents, 1 proposal, 1 attempt, 2 interventions, 1 fault | 1.3 million |
| `fleet_settles` | Left alone, does every issue reach review or a human? | 2 attempts, no intervention, 1 fault | 117 thousand |
| `cloud` | What survives when renewals and releases take two requests? Does the shared queue implement `LateLease`? | 2 agents, 2 concurrent callers, 2 leases, 1 failure | 680 thousand |
| `proposals` | Can two changes to one rule overwrite each other, or a proposal disappear? | 2 submissions in 2 seconds, 2 edits by others, 1 fault | 1.5 million |
| `proposal_policy` | Is a proposal of any kind decided once, by who may, and reported as it was? Does the manager implement `ProposalLife`? | 1 submission, 2 agents and a human, 1 edit, 1 replay, 1 fault | 1.6 million |
| `ledger` | Is the history in order, are events kept, is `issue.yaml` up to date? | 4 calls, 1 crash | 3.3 million |
| `todos` | Does the board follow the world, do dismissals and open to-dos survive? | 1 request, 4 acts of others, each kind of patrol | 335 thousand |
| `patrols` | Are updates obeyed and persisted, is every patrol that is due run? | a default patrol and a custom one, 1 request, 2 updates, 1 failure, 1 restart | 93 thousand |
| `requests` | Tokens, reports and listings with shared state | 2 threads, 3 pages of 2 items, 2 attempts, 2 expiries, a log of 2 | 3.1 million |
| `chat` | Do conversations keep apart, is the job list right, is every mention answered? | 2 agents, 2 messages with 3 mentions, 1 worker, 1 request, 2 tool calls, 2 milliseconds | 561 thousand |
| `fleet_proposal` | What the documentation says and the code does not do, see below | as `fleet` | |

Bounds. `MaxGeneration` (leases per issue) and `MaxFailures` (attempts per retry
window) stop the queue's counters; in the fleet runs they are set so high that
they are never reached, which the deadlock check confirms for the handlers in
progress, since a call that could not be made would block its handler for good.
`MaxInterventions` counts operator requests, closings and reopenings, and
`MaxFaults` crashes and failed calls. One issue is enough: issues do not share
state except the idle agents and `max_concurrent`, and a second agent is what
competes for an issue. Two agents are enough for a lease to change hands, four
leases for a third holder and a return to the first. One proposal lets a run
submit, be reviewed, and leave its decision behind; an orphaned thread and a
second run compete for it. Two interventions are a requeue or a close followed by
another, or a close and a reopening. Symmetry is used in safety runs only.

Two submissions are a lost update, two seconds let them have one id or two, and
two edits are one that restores the old text under a new revision. One fault
leaves a request half done and lets it be repeated. The run with replays has one
submission and all kinds; in both runs the rule can be edited at any time up to
`MaxRevision`. The proposal runs may stop (every proposal decided, no replay
left), so they do not check for deadlock.

Four calls are two that use one number, one that overwrites and one that comes
after both; the crash may hit any of them. In `todos` the acts are changes of the
world, requests, tool calls, consolidations and restarts; the patrol and the
steps of a call are not counted. Two updates are one that switches a patrol off
and one that changes it again while a run holds the first dictionary. In
`requests` real numbers are larger (5 attempts, 2 retries of a 500, a log of 500,
200 pages): with 2, 1, 2 and 3 every limit is reached. Two tool calls are one that
leaves something and one that replaces it, in the same turn, another's, or a
request's. In
`ledger`, `requests` and `chat` everything may stop when the calls or messages are
used up, so they do not check for deadlock either; all the other runs do.

## Fairness

`Fairness` in `SOCFleet` assumes what the server does by itself: the event loop
makes the calls of the handler it has started (`Perform`); the scheduler polls, so
the sweep and the dispatch of a claimable issue eventually happen; a task that was
created begins; a run ends at the latest at its time-out (`run_timeout_seconds`);
a lease that no run renews lapses. Nothing is assumed of threads, reviewers,
patrols or operators, and a chat need not return. All are weak: `Dispatch` waits
for a free loop and an idle agent, and both stay available once the handlers in
progress have run.

`TodoBoard`: the loop makes the calls of the handler it runs, patrols come round,
and a tool call ends; all weak. Once an anomaly is gone the board follows only for
patrols of the resolving kind, and `BoardFollowsWorld` says so. `PatrolSchedule`: time passes, and the event loop
takes its callbacks in turn, so a round starts and a walker goes on although
requests come again and again: strong, since any request takes the loop for a
while. That a scheduled chat returns or raises is an assumption there: no time-out
bounds it, and while it hangs nothing else is polled. `AgentChat`: a model answers,
refuses or raises in the end, which nothing bounds either. `IssueLedger`,
`ApiAdapter`, `FirestoreQueue` and `ProposalManager` claim safety only.

## What is proved

`QueueProofs` proves in its first part, for any sets of agents, issues and proposals and any
bounds, the type invariant and every property of the run `queue`:

| theorem | property |
|---|---|
| `TypeCorrect` | `TypeOK` |
| `GenerationsFence` | `FencingTokens` |
| `PoolUnleased` | `PoolIsUnleased` |
| `ClaimAgrees` | `ClaimMatchesLease` |
| `LapsedIsFinal` | `LapsedStaysLapsed` |
| `LiveLeaseKept` | `LiveLeaseIsSafe` |
| `QueueImplementsFence` | `ImplementsFencedLease` |

The assumptions are `NullAssumption` (the null values are not agents or
proposals) and `BoundAssumption` (the bounds are numbers).

The argument. As far as the lease is concerned an operation does one of four
things to an issue: it keeps the lease, drops it, grants it to an agent that may
have it, or lets it lapse. The lemma `Effects` establishes this for each action
and also that the action preserves `TypeOK`; it is the only place that opens the
definitions of the actions. The inductive invariant `QueueInv` is the conjunction
of `TypeOK`, `FencingTokens`, `PoolIsUnleased` and `ClaimMatchesLease`: a grant
computes the next generation from the lease or from the mirrored number, so
`FencingTokens` needs `ClaimMatchesLease` (the mirror agrees with the lease at the
time the lease is dropped). Each of the four effects preserves it. The action
properties and the refinement follow from the effects and the invariant.

`ProposalManagerProofs` proves, for any agents, humans and submissions, any kinds,
risks and texts, and any bounds:

| theorem | property |
|---|---|
| `TypeCorrect` | `PMTypeOK` |
| `OneChangePerBase` | `OnePerBase` |
| `WritesAreAuthorized` | `AuthorizedWrites` |
| `NoneIsLost` | `NeverLost` |
| `IssuesAreToldTheTruth` | `TellsTheTruth`, which the runs check as part of `ImplementsProposalLife` |
| `DecidedOncePerMishap` | `DecidedOnce` |
| `ManagerImplementsLife` | `ImplementsProposalLife` |

It assumes `ProposalAssumption` (kinds, risks and bounds are what they are called;
agents are not humans; no submission is named like a text) and `NothingAssumption`
(the null values are neither baselines nor proposals). Each property needs one fact about the request in
progress besides the types. For `OnePerBase` (`BaseInv`): every text written on a
baseline has moved the rule past that baseline's revision, and a request that has
passed its check holds a baseline newer than all of those, since the check read
the present revision and no other request has run since. An edit that slips in
between only raises the revision. For `AuthorizedWrites` (`Cleared`): what goes on
to the check or the write was approved as the request holds it, not as the file
may have become. For `NeverLost` (`Moved`): a request that comes to unlink the open
file has written its verdict, and nothing else removes a file. For `TellsTheTruth`
(`Founded`): a merge that is executed is in the log before it comes to the write,
every other decision when it has been written, and entries are only added; so a
report has its reason whatever failed before it. For `DecidedOnce` (`OnceInv`):
whatever may yet be decided on a submission, by the request in progress or because
of a file somebody can still decide on, is paid for by the first decision that is
everybody's due or by a mishap (`RoomFor`). A request that is through leaves no
file to decide on; one that is cut short has cost a fault, and a replay that puts
an open file back is counted as stale.

The refinement (`ManagerImplementsLife`) maps the log to `decisions`, without the
documents, and faults and stale replays together to `mishaps`. Most steps map to a
stutter: files, requests and threads do not exist in `ProposalLife`. An entry in the
log maps to `Judge` or `Settle`: `OnceInv`, before the step, says that it is paid
for. `Report` maps to `Tell`, by `Founded`. That what is settled was approved needs
one more invariant (`WaitInv`): whatever waits to be applied by hand, as a file in
any directory, in a replay or in a request, has its approval in the log.

`IssueLedgerProofs` proves, for any number of calls and crashes:

| theorem | property |
|---|---|
| `LedgerTypeCorrect` | `LedgerTypeOK` |
| `HistoryIsOrdered` | `HistoryInOrder` |
| `EventsAreNotLost` | `EventsAreKept` |
| `StatusIsUpToDate` | `YamlIsUpToDate` |
| `SerialLedgersAreExact` | `SerialLedgerIsExact` |

It assumes `CallAssumption` (finitely many calls) and `CrashAssumption`. Numbers
are counts, so the argument is about counts: the directory only grows, and no
number in it exceeds the number of its files (`EventsInv`). A call that has counted
holds a number above that of every event recorded when it began (`OrderInv`), and
above the count it found. The latter keeps `EventsInv` when the file is written:
a new name with a number that is at most the count plus one. `OpenedOnce` says that
only one call is the first entry, which does not count.

Two more invariants rest on this one. For `YamlIsUpToDate` (`StatusInv`): the call
that filled `issue.yaml` last is done or dead, or about to write the first event,
and no call that is done follows it; a call that follows one has read the file
after it was filled and has still to fill it. For `SerialLedgerIsExact`
(`SerialInv`): as long as calls neither overlap nor die there are as many files as
recorded calls, so a call's number is that of the calls it followed plus one; only the
opening has number 1 whatever it followed, in a file of its own kind beside that of
the first event entered before it. There is no `issue.yaml` before the opening, so
those early calls update nothing; after it, what the call under way has read is
exact, and so is what it writes.

`SOCFleetProofs` proves, for any agents, issues and proposals, any number of
attempts, interventions and faults, and for the safety part of the fleet's
specification (`FleetSafety`, which fairness only restricts):

| theorem | property |
|---|---|
| `AgentsKeepApart` | `NoDoubleRun` |
| `RetriesAreBounded` | `RetryBudget` |
| `AppliedWasMerged` | `AppliedIsMerged` |
| `FleetUsesQueue` | `UsesQueue` |
| `FleetIsFenced` | `FencingTokens`, `PoolIsUnleased`, `LiveLeaseIsSafe` and `ImplementsFencedLease`, of the fleet |

It assumes the assumptions of `WorkQueue` and `WorkerAssumption`. The invariant
`FleetInv` is about the calls that the running handler has still to make
(`PendingInv`): each concerns an issue that is published, a claim is the only call
there is and its agent is idle and its issue not in flight, an application is of a
proposal that was merged. It survives the steps of threads, which run between a
handler's calls, since none of them publishes, claims or starts a run. Then every
step is one operation of the queue with an argument that `WorkQueue` allows
(`FleetUsesQueue`), and what `QueueProofs` shows of the queue holds of the fleet
without a new proof (`FleetIsFenced`).

For `RetryBudget` the invariant `BudgetInv` compares the runs an issue has had with
the failures on its record: no more than those if it is in the pool, else one more
(`Affordable`). It needs what the handlers guarantee: a call that puts an issue back
comes right after one that records the failure, so it finds the run paid for, also
when the handler fails between the two; and a claim is pending only for an issue
without a live lease and with an attempt left (`CallsPaid`). The one run more than
`max_attempts` is that of an agent who takes over a lapsed lease.

The second part of `QueueProofs` proves of `FirestoreQueue`, for any issues, agents,
callers and bounds:

| theorem | property |
|---|---|
| `ClaimsFollowLeases` | `LeasesAndClaimsAgree` |
| `LiveCandidateIsSpared` | `SweepSparesLiveLeases` |
| `CloudImplementsLateLease` | `ImplementsLateLease` |

It assumes `NullAssumption` and `BoundAssumption`. The invariant `CloudInv` says of
each issue alone (`Sound`) that its lease is a ghost, which a late renewal makes of
no lease, or belongs to the agent that was granted one last, who is also the one
that claims it. A late second request writes only the fields of its operation, and
each of these writes keeps an issue sound whatever was read before; that is why two
requests per renewal do no more harm than they do. How much they do is what
`LateLease` says: the shared queue does not implement `FencedLease` (a number may
repeat, a lapsed lease may come alive, a lease may have no owner), but each lease
that is alive by mistake goes back to one renewal, asked for by the owner of a lease
that was alive. The first request of a renewal maps to `Ask`, its second to
`Extend`, a lost one to `Forget`; a release maps to a stutter and a `Revoke`.

`TodoBoardProofs` proves, for any requests and any number of acts:

| theorem | property |
|---|---|
| `DismissalLasts` | `DismissedStays` |
| `NothingOpenIsMergedAway` | `ConsolidationKeepsOpen` |

It assumes `RequestAssumption` and `ActsAssumption`. The invariant `TodoInv` says
what a call knows as long as nobody has overtaken it (`Knows`): the status it has
read is still there; a consolidation has listed every to-do there is and found out
whether one is open; and while it deletes, what it keeps is open if anything is.

`ApiAdapterProofs` proves, for any threads, pages, limits and bounds:

| theorem | property |
|---|---|
| `DeniedIsNotRepeated` | `NewTokenAfterDenial` |
| `ReportsAreExact` | `ReportIsExact` |
| `ListingsAreExact` | `ListingIsExact` |

It assumes what `ApiAdapter` does of its constants. Besides the types the invariant
says that the cache is empty or holds a token no older than the one that was
accepted when any thread was denied last (`Sound`): the cache is filled only with a
token that is accepted then, and a thread that is denied empties it.

For `ReportIsExact` (`ReportInv`): the retries of a workflow that the log still
holds are at most those it has made, and all of them as long as there have been no
more retries of any thread since it began than the log has room for. The log has no
gaps, so its entries are counted by their numbers. A write has been executed at
most once for each retry, and once more by an attempt that was not denied.

For `ListingIsExact` (`ListInv`): there is a trail of pages (`Trail`), the first of
which is where the listing started and each of the others the one its predecessor
in `chain` names; the items collected are theirs, in order. The chain only grows, so
a trail stays one. The property speaks of `Visited`, a recursive function of the page
number; that it is the trail, and that it is defined at all, is an induction, which
is stated over sets of numbers (`SetInduction`: the numbers at which the claim fails
have a least one) because the library's induction theorems take an operator.

`AgentChatProofs` proves, for any agents, messages, workers and requests, any mentions
and any bounds:

| theorem | property |
|---|---|
| `JobsAreExact` | `JobListIsExact` |
| `MessagesAreTheirOwn` | `MessagesCarryTheirOwn` |
| `ProvenanceComplete` | `ProvenanceIsComplete` |

It assumes `ChatAssumption` (messages, workers and requests are distinct, each message
mentions somebody, the bounds are numbers). The invariant `ChatInv` rests on one fact:
two turns that are on with one agent overlap, and that of a dispatch has recorded the
other, which began during it or was on when it began (`TurnsMeet`); the thread of a
cancelled run counts as a turn that is on, and a request is recorded by every turn
under way when it calls. So the calls a turn finds behind its own start, and the
proposal, which it cleared then, were left by itself or by somebody it has recorded
(`CallsNear`, `OwnCallListed`, `ProposalNear`), and what goes for the calls goes for
the slice taken of them (`SliceNear`). A widget no turn clears when it begins: that
may also be a worker's, a request's, or of a turn that ended in an error
(`WidgetOwned`). The job list has a turn under way, unless another turn took its id,
which has the agent and the millisecond in it (`JobsAreTurns`, `TurnsAreListed`).

`PatrolScheduleProofs` proves, for any patrols, requests and bounds:

| theorem | property |
|---|---|
| `SchedulesWellFormed` | `ScheduleTypeOK` |
| `SwitchedOffPatrolsStop` | `SwitchedOffStops` |
| `RoundsAreWhole` | `RoundIsWhole`, stated with the proofs: a round takes up every patrol that has a schedule, once, with the dict in force |

It assumes `OrderAssumption` (the keys of a dictionary are distinct),
`HandleAssumption`, `RequestAssumption` (no request is called "loop"),
`NoDocAssumption` and `BoundAssumption`. The invariant `ScheduleInv` has two parts
that its properties do not mention. Every dict that is on has a next run, the
replaced ones too (`HasNext`), because a run under way persists the dict it has and a
restart loads that. And of a patrol that was switched off and that the loop has run
since, no dict that the loop has still to start is switched on (`LateInv`): an update
adds a dict and changes none, a run changes its dict's `next` only, so a reference
stays switched on or off (`DictsKept`); a round that begins later lists the dict in
force; and the round under way has each patrol once. That it has, and that it leaves
none out, is what the recursive function in `Listing` computes, which is shown with
`SetInduction` as for `ListingIsExact`.

Only model-checked: the liveness properties `IssuesSettle`, `BoardFollowsWorld`,
`DuePatrolRuns`, `EnabledIsPersisted` and `MentionsAreAnswered`. The prover has no
rules for fairness and `ENABLED`.

## Disagreements found

`fleet_proposal` is a run that ends in a counterexample; `PROJECT.json` quotes the
lines. A run that times out after its proposal was linked puts the issue, which is
under review, back in the pool.

### Other behaviour the models contain

Found while modelling, present in the models, and not called wrong by any run:

- Queue and fleet. The holder of a live lease may acquire the issue again
  (`MayAcquire`); a patrol may close an issue whose run goes on after its lease has
  lapsed; taking over a lapsed lease may start one run more than `max_attempts`
  (`RetryBudget` allows it and no more); a proposal rejected while its run goes on
  leaves the issue `BLOCKED` only until the run ends (`issue_worker.py:299`).
- Firestore. A renewal may extend a lease that is lapsed, gone or somebody else's
  (`FinishRenew`); a release decided on an old reading can set the generation back,
  so that a later lease repeats one already handed out (`work_queue.py:792`).
- Proposals. An edit between the check of a baseline and the write is overwritten
  (`OthersEdit` between `CheckPasses` and `Execute`); two submissions of a subsystem
  in one second share a file, and the first is gone (`proposal_manager.py:278`); a
  replay writes a proposal back as it was before it was decided on
  (`proposal_manager.py:307`); three dashes in a title cut author, action and
  payload off when it is read back, in a rule text they make the file unreadable
  (`proposal_manager.py:202`).
- Ledger. Two proposals submitted together take one number, and if they are of one
  kind one file; an `issue.yaml` that was empty when it was read comes back without
  the description of the issue, one that was mixed is never updated again. A decision
  on, or a change applied to, an issue that the queue does not know is entered all the
  same: a `001-decision` or `001-applied` without an `issue.yaml`, and a second event
  numbered 1 if the issue is opened later. `server.py:1493` looks for the issue first,
  `proposal_manager.py:506`, 561 and 706 do not.
- To-dos. A consolidation turns `DISMISSED` into `RESOLVED`, so that the next
  sighting reopens what a human had dismissed, and `REOPENED` into `PENDING`; it may
  move the patrol's to-do to an id under which no patrol looks for it
  (`CanonicalIds`), and the patrol creates another. The to-do of a patrol that only
  sights (feeds, parsers, noisy, shadowed and conflicting rules) stays open after the
  anomaly is gone, until a person closes or deletes it or a proposal for the resource
  is submitted or decided on.
- Schedules. A run, or a round, that holds a replaced dictionary persists the old
  settings over the operator's update (`fleet_scheduler.py:1156`), until a run with
  the new ones does: after a restart in between the update is undone, although
  `fleet_scheduler.py:259` says "Updates and persists the schedule configuration for
  an agent." Schedules of agents outside the default list are persisted and never
  loaded again. `PUT /api/configs/agents/{handle}` overwrites the whole document,
  and with it the schedule, in the local store. `next_run_at` moves on before
  anything is saved; a save that fails twice ends the round.
- API. A POST is sent again after a network error whether or not it was executed;
  the retries are on record (`ReportIsExact`). A 401 leads to a new token on the
  first attempt only. A walk that starts from a page token does not remember that
  token and may fetch its first page twice; `max_results` that cuts the last page
  says nothing of what it cut.
- Chat. A turn with `@secops-dispatcher`, `@rule-troubleshooter` or
  `@yaral-optimizer` that ends in an error leaves its widget to the next turn, and so
  does a worker's run that fails; overlapping conversations with one agent exchange
  tool calls, widgets and proposals. A widget that a REST handler's call leaves, or
  a patrol that fails, is given to the next conversation; a patrol that succeeds takes
  and clears whatever widget there is, a turn's included
  (`fleet_scheduler.py:1072`, 1091), and records the whole list of tool calls the
  object has seen as its own evidence (1153). A tool that failed, and one called for
  the summary, is not in the provenance. A job reaped after 180 s is no longer listed
  although its turn goes on, and nothing is broadcast.

## Limits

- A file is written in one step; torn files and a full disk are not modelled.
- Two servers on one local queue directory are not modelled: the lock is a thread
  lock. Several servers are the Firestore queue's case.
- Firestore's transactions and single updates are taken to be atomic, as its
  documentation promises; contention is retried by the library.
- The language model is any caller that may submit a proposal or not.
- Every version of a rule is taken to have a revision id, as the API returns one;
  without it `_matches` falls back on the text alone.
- Proposals on several rules do not meet and are not modelled; a deployment
  baseline is a bit, so `OnePerBase` is claimed for texts only.
- `get_token` gives a token in `ApiAdapter`; in the code it raises if the `gcloud`
  subprocess fails (`auth.py:203-215`), which ends the request. A 401 for a token that
  the service accepts is answered by a refusal at once. Every page of a listing has
  `PageSize` items: short and empty pages are left out.
- The messages of workers, scheduled chats and patrols are not modelled, so nothing is
  claimed of what they carry.
- Git commits of proposals change nothing but `merge_commit`; those of the ledger
  change nothing the models look at.
- The halves of a life-cycle call, queue and ledger, are not composed: `SOCFleet` has
  the queue calls with a failure between any two, `IssueLedger` the entries with the
  statuses the queue may have.
- Event files of the ledger are written in one step: their names are read before
  they are complete only by the count. Torn event files are skipped by the reader.
- The Firestore variant of the to-dos, in which `save_todo` merges fields, is not
  modelled; nor are sighting counts, priorities and the enriched listing.
- A message that cannot be stored after the widget was taken, the progress text of
  a job (each dispatch replaces the agent's `status_callback`, which names whatever
  job its dispatch is at), message ids, which repeat after a topic was cleared, and
  the torn last line of `messages.jsonl` are not modelled.

### Not modelled

Most of the repository's lines are not modelled, and no later work would change
that much. `engine/facade.py`, `engine/domain.py`, `engine/registry.py` and
the methods of `adapters/google_secops.py` other than those in `ApiAdapter` build a request, hand it on and reshape the
answer; the workflows and generated agents are straight-line sequences of such
calls, prompts and formatting; the command line, terminal and desktop clients print
them; `scripts/`, `runbooks/` and `benchmarks/` are run once by hand. They keep no
state between calls and share none, so there is nothing in them that interleaves,
is lost or comes late: a model of one would be its text again. Parsing, taxonomy and
catalogs are pure functions over texts and tables, covered by unit tests. The
knowledge store and the communication router store and deliver single documents.
`PROJECT.json` lists each with its reason.

## Plan

Done: `SOCIssue`, `WorkQueue`, `FencedLease`; `IssueWorker`, `SOCFleet`;
`FirestoreQueue`, `LateLease`; `ProposalManager`; `IssueLedger`; `TodoBoard`; `PatrolSchedule`;
`ApiAdapter`; `AgentChat`; `ProposalLife`; the proofs listed above.

Left, in this order:

1. One module for a life-cycle call with both its halves, so that a failure between
   the queue's and the ledger's can be followed by what the next handler reads.
2. The Firestore variant of the to-dos, in which a late save merges its fields with
   what others wrote.
