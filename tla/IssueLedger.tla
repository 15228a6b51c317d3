---------------------------- MODULE IssueLedger ----------------------------
(***************************************************************************)
(* The ledger of ONE issue (agents/core/materializer.py) and the life      *)
(* cycle that writes it (lifecycle.py): a directory of numbered event      *)
(* files and issue.yaml, which repeats the latest state.                   *)
(*                                                                         *)
(* A call of the life cycle first updates the work queue and then makes    *)
(* its entry in four steps: number the event by counting the files there,  *)
(* write the event file, read issue.yaml, write it back.  Nothing locks    *)
(* the directory.  The event loop makes one call at a time; proposals are  *)
(* submitted from tool threads, any number at once.                        *)
(*                                                                         *)
(* issue.yaml is truncated when it is opened and filled when it is closed  *)
(* (it fits the buffer); event files are written under names nobody reads  *)
(* before, in one step.  Evidence files, resolution.md and the git commit  *)
(* change nothing else and are left out.                                   *)
(*                                                                         *)
(* A validation, a decision and an applied change are entered whatever the *)
(* queue says of the issue, even one it does not know: the directory is    *)
(* made for the event and there is no issue.yaml until the issue is opened.*)
(***************************************************************************)
EXTENDS Naturals, FiniteSets, TLC

CONSTANTS CallId,     \* the calls that are made on the issue
          NoCall,     \* issue.yaml has no active_proposal_id / applied_change_id
          MaxCrashes  \* how often the server dies

ASSUME CallAssumption == IsFiniteSet(CallId) /\ NoCall \notin CallId
ASSUME CrashAssumption == MaxCrashes \in Nat

VARIABLES status,  \* the status in the work queue, but for what workers do to it
          calls,   \* what each call has come to
          events,  \* the files in events/: name -> the call whose event it holds
          yaml,    \* issue.yaml
          crashes

vars == <<status, calls, events, yaml, crashes>>

-----------------------------------------------------------------------------
(* Statuses of the work queue *)

Reclaimable    == {"LEASED", "CLAIMED", "EXECUTING"}
Attention      == {"NEEDS_HUMAN", "BLOCKED", "VALIDATION_FAILED", "ROLLED_BACK"}
SelfResolvable == {"OBSERVED", "QUALIFIED", "AVAILABLE"} \cup Attention
Status         == Reclaimable \cup SelfResolvable
                  \cup {"VALIDATING", "APPROVED", "APPLIED", "VERIFIED", "CLOSED"}

-----------------------------------------------------------------------------
(* Entries: what each materialize_* writes.  `pointer` is the field of     *)
(* issue.yaml it sets besides the status.                                  *)

Entry(suffix, written, pointer) ==
    [suffix |-> suffix, status |-> written, pointer |-> pointer]

Observed           == Entry("observed", "AVAILABLE", "none")
Claimed            == Entry("claimed", "LEASED", "none")
ProposalCreated    == Entry("proposal-created", "VALIDATING", "proposal")
Validation(passed) == Entry("validation", IF passed THEN "APPROVED" ELSE "VALIDATION_FAILED", "none")
Decided(approved)  == Entry("decision", IF approved THEN "APPROVED" ELSE "BLOCKED", "none")
Applied            == Entry("applied", "APPLIED", "change")
Verified           == Entry("verified", "CLOSED", "none")

OperatorAction(transition, new_status) == Entry(transition, new_status, "none")

Reopened           == OperatorAction("reopened", "AVAILABLE")
ResolvedAlone      == OperatorAction("resolved-without-change", "CLOSED")
OperatorRequeued   == OperatorAction("operator-requeued", "AVAILABLE")
ProposalAbandoned  == OperatorAction("proposal-abandoned", "NEEDS_HUMAN")
OperatorClosed     == OperatorAction("operator-closed", "CLOSED")

Entries ==
    {Observed, Claimed, ProposalCreated, Applied, Verified, Reopened,
     ResolvedAlone, OperatorRequeued, ProposalAbandoned, OperatorClosed}
    \cup {Validation(b) : b \in BOOLEAN} \cup {Decided(b) : b \in BOOLEAN}

-----------------------------------------------------------------------------
(* Files *)

\* Mutant: the file is named for its number only.
FileNameBare(seq, entry) == [seq |-> seq, suffix |-> Observed.suffix]

FileName(seq, entry) == [seq |-> seq, suffix |-> entry.suffix]

\* Mutant: the number is the number of files.
NextSequenceCount(files) == Cardinality(files)

\* Mutant: the number is that of the last file.
NextSequenceLast(files) == IF files = {} THEN 1 ELSE Cardinality(files)

NextSequence(files) == Cardinality(files) + 1

Yaml == [state    : {"absent", "empty", "filled", "mixed"},
         status   : Status \cup {"none"},
         whole    : BOOLEAN,                 \* the description of the issue is in it
         proposal : CallId \cup {NoCall},
         change   : CallId \cup {NoCall}]

NoYaml    == [state |-> "absent", status |-> "none", whole |-> FALSE,
              proposal |-> NoCall, change |-> NoCall]
EmptyYaml == [NoYaml EXCEPT !.state = "empty"]
MixedYaml == [NoYaml EXCEPT !.state = "mixed"]

\* issue.to_dict() of an issue that was just opened.
OpenedYaml == [NoYaml EXCEPT !.state = "filled", !.status = "AVAILABLE", !.whole = TRUE]

\* Mutant: an issue that is closed stays closed in issue.yaml.
UpdatedOpen(data, entry, c) ==
    [data EXCEPT !.state    = "filled",
                 !.status   = IF @ = "CLOSED" THEN @ ELSE entry.status,
                 !.proposal = IF entry.pointer = "proposal" THEN c ELSE @,
                 !.change   = IF entry.pointer = "change" THEN c ELSE @]

\* Mutant: every entry sets both pointers.
UpdatedBoth(data, entry, c) ==
    [data EXCEPT !.state    = "filled",
                 !.status   = entry.status,
                 !.proposal = IF entry.pointer = "proposal" THEN c ELSE NoCall,
                 !.change   = IF entry.pointer = "change" THEN c ELSE NoCall]

\* The fields an entry sets in the issue.yaml it has read; the others are kept
\* as they were read.  An empty file reads as {}.
Updated(data, entry, c) ==
    [data EXCEPT !.state    = "filled",
                 !.status   = entry.status,
                 !.proposal = IF entry.pointer = "proposal" THEN c ELSE @,
                 !.change   = IF entry.pointer = "change" THEN c ELSE @]

-----------------------------------------------------------------------------
(* Calls *)

Phase == {"idle", "count", "event", "read", "truncate", "fill", "done", "dead"}

Call == [phase    : Phase,
         entry    : Entries,
         seq      : Nat,
         data     : Yaml,             \* issue.yaml as the call has read it
         recorded : BOOLEAN,          \* its event file has been written
         after    : SUBSET CallId,    \* calls recorded when it began
         followed : SUBSET CallId]    \* calls done when it began

Idle == [phase |-> "idle", entry |-> Observed, seq |-> 0, data |-> NoYaml,
         recorded |-> FALSE, after |-> {}, followed |-> {}]

In(phase)     == {c \in CallId : calls[c].phase = phase}
InProgress    == CallId \ (In("idle") \cup In("done") \cup In("dead"))
RecordedCalls == {c \in CallId : calls[c].recorded}

Init ==
    /\ status = "unknown"
    /\ calls = [c \in CallId |-> Idle]
    /\ events = <<>>
    /\ yaml = NoYaml
    /\ crashes = 0

\* The event loop makes one call at a time; proposals come from tool threads.
OnLoop(entry) == entry # ProposalCreated

\* What the call held in its variables is gone when it ends.
Ended(call, phase) == [call EXCEPT !.phase = phase, !.data = NoYaml]

\* What an issue of a status may have become: workers and the sweep move it
\* without an entry.
MayBe(s) ==
    {s} \cup IF s \in Reclaimable \cup {"VALIDATING"}
             THEN {"EXECUTING", "AVAILABLE", "NEEDS_HUMAN"} ELSE {}

\* The queue's half of a call: the issue must be in one of the statuses `from`
\* and is moved to the status that the entry records.  The queue has nothing to
\* move if it does not know the issue; only open_issue makes one.
Begin(c, entry, from) ==
    /\ calls[c].phase = "idle"
    /\ OnLoop(entry) => \A d \in InProgress : ~OnLoop(calls[d].entry)
    /\ MayBe(status) \cap from # {}
    /\ status' = IF status = "unknown" /\ entry # Observed THEN status ELSE entry.status
    /\ calls' = [calls EXCEPT ![c] =
                    [Idle EXCEPT !.phase    = IF entry = Observed THEN "truncate" ELSE "count",
                                 !.entry    = entry,
                                 !.seq      = IF entry = Observed THEN 1 ELSE 0,
                                 !.data     = IF entry = Observed THEN OpenedYaml ELSE NoYaml,
                                 !.after    = RecordedCalls,
                                 !.followed = In("done")]]
    /\ UNCHANGED <<events, yaml, crashes>>

Known == Status

\* open_issue: a new issue, or a closed one that is back.  A refresh of one that
\* is open makes no entry.
OpenIssue(c) == \/ Begin(c, Observed, {"unknown"})
                \/ Begin(c, Reopened, {"CLOSED"})

ClaimIssue(c) == Begin(c, Claimed, Reclaimable \cup {"AVAILABLE"})

\* Called by a tool, in a thread, for any issue the agent names.
SubmitProposal(c) == Begin(c, ProposalCreated, Known)

\* The next three do not look at what the queue answered: a proposal may name an
\* issue that does not exist, or not yet.
Unchecked == Known \cup {"unknown"}

RecordValidation(c) == \E passed \in BOOLEAN : Begin(c, Validation(passed), Unchecked)

DecideIssue(c) == \E approved \in BOOLEAN : Begin(c, Decided(approved), Unchecked)

ApplyChange(c) == Begin(c, Applied, Unchecked)

\* Called by the patrol for an issue that was changed or is under review.
VerifyAndClose(c) == Begin(c, Verified, {"APPLIED", "VALIDATING"})

ResolveWithoutChange(c) == Begin(c, ResolvedAlone, SelfResolvable)

RequeueIssue(c) == Begin(c, OperatorRequeued, Attention)

AbandonApprovedChange(c) == Begin(c, ProposalAbandoned, {"APPROVED"})

CloseIssueManually(c) == Begin(c, OperatorClosed, Known \ {"CLOSED"})

-----------------------------------------------------------------------------
(* The ledger's half *)

CountEvents(c) ==
    /\ calls[c].phase = "count"
    /\ calls' = [calls EXCEPT ![c].phase = "event", ![c].seq = NextSequence(DOMAIN events)]
    /\ UNCHANGED <<status, events, yaml, crashes>>

\* The first entry has written issue.yaml by now, the others have yet to update it.
WriteEvent(c) ==
    /\ calls[c].phase = "event"
    /\ LET file == FileName(calls[c].seq, calls[c].entry)
       IN  events' = [f \in DOMAIN events \cup {file} |-> IF f = file THEN c ELSE events[f]]
    /\ calls' = [calls EXCEPT ![c].phase = IF calls[c].entry = Observed THEN "done" ELSE "read",
                              ![c].recorded = TRUE]
    /\ UNCHANGED <<status, yaml, crashes>>

\* No issue.yaml, or one that does not parse: the update is left out.
ReadYaml(c) ==
    /\ calls[c].phase = "read"
    /\ calls' = IF yaml.state \in {"absent", "mixed"}
                THEN [calls EXCEPT ![c] = Ended(@, "done")]
                ELSE [calls EXCEPT ![c].phase = "truncate", ![c].data = yaml]
    /\ UNCHANGED <<status, events, yaml, crashes>>

TruncateYaml(c) ==
    /\ calls[c].phase = "truncate"
    /\ yaml' = EmptyYaml
    /\ calls' = [calls EXCEPT ![c].phase = "fill"]
    /\ UNCHANGED <<status, events, crashes>>

\* If another call has filled the file since it was truncated, and with more
\* bytes, its last bytes stay behind this call's.
FillYaml(c) ==
    /\ calls[c].phase = "fill"
    /\ LET written == IF calls[c].entry = Observed THEN calls[c].data
                      ELSE Updated(calls[c].data, calls[c].entry, c)
       IN  \/ yaml' = written
           \/ yaml.state # "empty" /\ yaml' = MixedYaml
    /\ calls' = [calls EXCEPT ![c] = IF calls[c].entry = Observed THEN Ended(@, "event")
                                     ELSE Ended(@, "done")]
    /\ UNCHANGED <<status, events, crashes>>

\* The server dies with whatever it was doing; the files stay.
Crash ==
    /\ crashes < MaxCrashes
    /\ InProgress # {}
    /\ crashes' = crashes + 1
    /\ calls' = [c \in CallId |-> IF c \in InProgress THEN Ended(calls[c], "dead") ELSE calls[c]]
    /\ UNCHANGED <<status, events, yaml>>

LifeCycle(c) ==
    \/ OpenIssue(c) \/ ClaimIssue(c) \/ SubmitProposal(c) \/ RecordValidation(c)
    \/ DecideIssue(c) \/ ApplyChange(c) \/ VerifyAndClose(c) \/ ResolveWithoutChange(c)
    \/ RequeueIssue(c) \/ AbandonApprovedChange(c) \/ CloseIssueManually(c)

MakeEntry(c) ==
    CountEvents(c) \/ WriteEvent(c) \/ ReadYaml(c) \/ TruncateYaml(c) \/ FillYaml(c)

Next ==
    \/ \E c \in CallId : LifeCycle(c) \/ MakeEntry(c)
    \/ Crash

Spec == Init /\ [][Next]_vars

-----------------------------------------------------------------------------
(* Properties *)

\* The state is well formed, and a call whose event is recorded finds a file of
\* its name in the directory.
LedgerTypeOK ==
    /\ status \in Status \cup {"unknown"}
    /\ calls \in [CallId -> Call]
    /\ DOMAIN events \in SUBSET [seq : Nat \ {0}, suffix : {e.suffix : e \in Entries}]
    /\ \A f \in DOMAIN events : events[f] \in CallId
    /\ \A c \in RecordedCalls : FileName(calls[c].seq, calls[c].entry) \in DOMAIN events
    /\ yaml \in Yaml
    /\ crashes \in 0..MaxCrashes

\* list_issue_events sorts by number: an event that was on record before a call
\* began never comes after, or level with, the event of that call, whatever
\* other writers did in between and whether or not they survived.  Only the
\* first entry, which does not count, may be overtaken.
HistoryInOrder ==
    \A c, d \in RecordedCalls :
        c \in calls[d].after /\ calls[d].entry # Observed => calls[c].seq < calls[d].seq

\* An event file is overwritten only by an event of the same kind whose call
\* was under way at the same time.
EventsAreKept ==
    \A c \in RecordedCalls :
        LET d == events[FileName(calls[c].seq, calls[c].entry)]
        IN  d # c => /\ calls[d].entry.suffix = calls[c].entry.suffix
                     /\ c \notin calls[d].after
                     /\ d \notin calls[c].after

\* When nothing is being written, the status in issue.yaml is that of a call
\* that no completed call has followed.
YamlIsUpToDate ==
    InProgress = {} /\ yaml.state = "filled" =>
        \E w \in In("done") \cup In("dead") :
            /\ yaml.status = calls[w].entry.status
            /\ \A d \in In("done") : w \notin calls[d].followed

\* The opening of the issue, once it is done.
Openings == {o \in In("done") : calls[o].entry = Observed}

\* The entries that were made for an issue that was not open yet.
Early == UNION {calls[o].followed : o \in Openings}

\* The calls since the opening that no other followed which sets the same pointer.
LastToSet(pointer) ==
    {c \in In("done") \ Early :
        /\ calls[c].entry.pointer = pointer
        /\ \A d \in In("done") : calls[d].entry.pointer = pointer => c \notin calls[d].followed}

\* What a call's number is if no other call is under way: the opening does not
\* count, the others come after every call they followed.
SerialNumber(c) ==
    IF calls[c].entry = Observed THEN 1 ELSE Cardinality(calls[c].followed) + 1

\* Calls that neither overlap nor die leave one event each, numbered in turn, and
\* an issue.yaml that says what a replay of the events since the opening says.
\* What was entered for an issue that was not open yet keeps its event (the
\* opening is numbered 1 beside the first of them) but never reaches issue.yaml,
\* and without an opening there is none.
SerialLedgerIsExact ==
    /\ InProgress = {} /\ In("dead") = {}
    /\ \A c, d \in In("done") : c = d \/ c \in calls[d].followed \/ d \in calls[c].followed
    => /\ Cardinality(DOMAIN events) = Cardinality(In("done"))
       /\ \A c \in In("done") : calls[c].seq = SerialNumber(c)
       /\ Openings = {} => yaml = NoYaml
       /\ Openings # {} =>
             /\ yaml.state = "filled" /\ yaml.whole
             /\ \E w \in In("done") : /\ yaml.status = calls[w].entry.status
                                      /\ In("done") \ {w} \subseteq calls[w].followed
             /\ IF LastToSet("proposal") = {} THEN yaml.proposal = NoCall
                ELSE yaml.proposal \in LastToSet("proposal")
             /\ IF LastToSet("change") = {} THEN yaml.change = NoCall
                ELSE yaml.change \in LastToSet("change")
=============================================================================
