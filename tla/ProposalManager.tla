-------------------------- MODULE ProposalManager --------------------------
(***************************************************************************)
(* The life of a change proposal: agents/core/proposal_manager.py with its *)
(* two gates, approval_policy.py and target_baseline.py.                   *)
(*                                                                         *)
(* A proposal is one file, in open/, merged/ or rejected/.  The endpoints  *)
(* that decide on it run one at a time on the event loop, but each of      *)
(* their file operations and SecOps calls is a step: the server may die or *)
(* the call may raise between any two (`handler` is the endpoint that      *)
(* runs).  Beside them run the threads in which agents submit proposals    *)
(* and in which the replay agent stamps its proofs on a file, and whoever  *)
(* edits the rule in SecOps.  All proposals here aim at one rule.          *)
(***************************************************************************)
EXTENDS Integers, Sequences, FiniteSets

CONSTANTS Agent, Human,   \* the actors; agents' handles begin with "@"
          Submission,     \* the calls of submit_proposal
          Kind,           \* the classes of action_type proposed, see AllKinds
          Risk,           \* the risk levels proposed: TRUE is HIGH or CRITICAL
          Dashes,         \* where the texts of a proposal have "---": see Parsed
          NoBase,         \* base_revision is None
          Absent,         \* no such file
          MaxSecond,      \* bound: seconds in which a proposal is submitted
          MaxRevision,    \* bound: revision up to which others edit the rule
          MaxFaults,      \* bound: crashes, errors and unanswered calls
          MaxReplays      \* bound: replays of the replay agent

\* PATCH_RULE / the four rule deployment actions / GENERIC_CAPABILITY /
\* CREATE_FINDINGS_REFINEMENT / PATCH_PARSER_CBN (approved, applied by hand).
AllKinds == {"text", "deploy", "generic", "refinement", "manual"}

ASSUME ProposalAssumption ==
    /\ Kind \subseteq AllKinds
    /\ Risk \subseteq BOOLEAN
    /\ Dashes \subseteq {"none", "title", "payload"}
    /\ Agent \cap Human = {}
    /\ {"original", "edited"} \cap Submission = {}
    /\ MaxSecond \in Nat \ {0}
    /\ {MaxRevision, MaxFaults, MaxReplays} \subseteq Nat

VARIABLES rule,      \* the rule in SecOps
          open, merged, rejected,   \* the directories of .proposals/, by id
          handler,   \* the approve, reject, mark-applied or abandon in progress
          drafts,    \* drafts[s]: how far the thread of submission s has got
          replay,    \* the verify_proposal_with_replay in progress
          second,    \* the clock, as ids are made from it
          told,      \* what the linked issues were told, about which submission
          log,       \* history: the decisions carried out, in order
          faults,    \* history: crashes, errors and unanswered calls
          replays,   \* history: replays begun
          stale      \* history: replays that wrote over what they had not read

files   == <<open, merged, rejected>>
history == <<log, faults, replays, stale>>
vars    == <<rule, files, handler, drafts, replay, second, told, history>>

Id    == 1..MaxSecond      \* "prop-<second>-<subsystem>"
Actor == Agent \cup Human
Texts == {"original", "edited"} \cup Submission
Idle  == [pc |-> "idle"]

-----------------------------------------------------------------------------
(* approval_policy.py *)

HumanOnly  == {"deploy", "generic"}
CodeChange == {"text", "refinement", "manual"}

RequiredTier(d) == IF d.kind \in HumanOnly \/ d.high THEN 3 ELSE 2

\* Mutant: the tier kept with the issue is taken at its word.
EffectiveTierStored(d, stored) == stored

\* The stricter of the tier stored with the issue and the computed one.
EffectiveTier(d, stored) ==
    IF stored > RequiredTier(d) THEN stored ELSE RequiredTier(d)

\* check_approval returns: override stands for override_preflight with a
\* reason long enough.
MayApprove(d, by, stored, override) ==
    /\ by # d.author
    /\ EffectiveTier(d, stored) = 3 => by \notin Agent
    /\ d.kind \in CodeChange /\ ~d.verified => override /\ by \notin Agent

-----------------------------------------------------------------------------
(* target_baseline.py *)

SupportsBaseline(d) == d.kind \in {"text", "deploy"}

\* _read_state: what of the rule a proposal of this kind depends on.
ReadState(d) == IF d.kind = "text"
                THEN [revision |-> rule.revision, text |-> rule.text]
                ELSE [enabled |-> rule.enabled]

\* Mutant: only the hash of the text is compared.
MatchesText(d) == IF d.kind = "text" THEN d.base.text = rule.text
                                     ELSE d.base = ReadState(d)

\* _matches, on what _read_state returns now.
Matches(d) == d.base = ReadState(d)

-----------------------------------------------------------------------------
(* _parse_markdown: the frontmatter ends at the next "---", wherever it is *)

\* In a rule text it leaves a quoted string open: the parser raises.
Readable(d) == d.dashes # "payload"

\* In the title it cuts off every field that comes after.
Parsed(d) ==
    IF d.dashes = "title"
    THEN [d EXCEPT !.kind = "unknown", !.author = "", !.high = FALSE, !.verified = FALSE,
                   !.dashes = "none", !.base = NoBase]
    ELSE d

\* What a request makes of a file: it must be there and parse.
MayRead(f) == f # Absent /\ Readable(f)

HasExecutor(d) == d.kind \notin {"manual", "unknown"}

-----------------------------------------------------------------------------
(* Submission: create_proposal, in the thread of an agent *)

\* create_proposal up to the baseline: the id is made from the clock, and the
\* state of the target is read if it can be.
DraftCaptures(s, kind, author, high, verified, dashes) ==
    LET d == [sub |-> s, kind |-> kind, author |-> author, high |-> high,
              verified |-> verified, dashes |-> dashes, base |-> NoBase,
              status |-> "OPEN", apply |-> "NONE"]
    IN
    /\ drafts[s] = Idle
    /\ dashes = "payload" => kind = "text"
    /\ \E base \in {NoBase} \cup (IF SupportsBaseline(d) THEN {ReadState(d)} ELSE {}) :
          drafts' = [drafts EXCEPT ![s] = [pc |-> "writing", id |-> second,
                                           doc |-> [d EXCEPT !.base = base]]]
    /\ UNCHANGED <<rule, files, handler, replay, second, told, history>>

\* The rest of create_proposal: whatever has this id in open/ is overwritten.
DraftWrites(s) ==
    /\ drafts[s].pc = "writing"
    /\ open' = [open EXCEPT ![drafts[s].id] = drafts[s].doc]
    /\ drafts' = [drafts EXCEPT ![s] = [pc |-> "done"]]
    /\ UNCHANGED <<rule, merged, rejected, handler, replay, second, told, history>>

-----------------------------------------------------------------------------
(* The replay agent: get_proposal, a long replay, update_proposal *)

\* get_proposal looks in open/, then merged/, then rejected/.
Found(p) == IF open[p] # Absent THEN open[p]
            ELSE IF merged[p] # Absent THEN merged[p] ELSE rejected[p]

\* Reads the proposal; a rule text may turn out to compile.
ReplayReads(p, compiles) ==
    /\ replay = Idle /\ replays < MaxReplays
    /\ MayRead(Found(p))
    /\ replay' = [pc |-> "replaying", id |-> p, was |-> Found(p),
                  doc |-> [Parsed(Found(p)) EXCEPT !.verified =
                              @ \/ (compiles /\ Parsed(Found(p)).kind = "text")]]
    /\ replays' = replays + 1
    /\ UNCHANGED <<rule, files, handler, drafts, second, told, log, faults, stale>>

\* update_proposal: where is the file now?
ReplayLocates ==
    /\ replay.pc = "replaying"
    /\ replay' = [pc  |-> CASE open[replay.id] # Absent     -> "open"
                            [] open[replay.id] = Absent /\ merged[replay.id] # Absent
                                                            -> "merged"
                            [] open[replay.id] = Absent /\ merged[replay.id] = Absent
                                 /\ rejected[replay.id] # Absent -> "rejected"
                            [] OTHER                        -> "open",
                  id  |-> replay.id, was |-> replay.was, doc |-> replay.doc]
    /\ UNCHANGED <<rule, files, handler, drafts, second, told, history>>

\* Writes back what was read, with the proof; counts it when stale.
WriteOver(dir) == [dir EXCEPT ![replay.id] = replay.doc]

ReplayWrites ==
    /\ \/ /\ replay.pc = "open"
          /\ open' = WriteOver(open)
          /\ stale' = IF open[replay.id] = replay.was THEN stale ELSE stale + 1
          /\ UNCHANGED <<merged, rejected>>
       \/ /\ replay.pc = "merged"
          /\ merged' = WriteOver(merged)
          /\ stale' = IF merged[replay.id] = replay.was THEN stale ELSE stale + 1
          /\ UNCHANGED <<open, rejected>>
       \/ /\ replay.pc = "rejected"
          /\ rejected' = WriteOver(rejected)
          /\ stale' = IF rejected[replay.id] = replay.was THEN stale ELSE stale + 1
          /\ UNCHANGED <<open, merged>>
    /\ replay' = Idle
    /\ UNCHANGED <<rule, handler, drafts, second, told, log, faults, replays>>

-----------------------------------------------------------------------------
(* Decisions: an endpoint begins when no other runs *)

Begin(op, p, by, doc, pc) ==
    /\ handler = Idle
    /\ handler' = [op |-> op, id |-> p, by |-> by, doc |-> doc, pc |-> pc]
    /\ UNCHANGED <<rule, files, drafts, replay, second, told, history>>

\* Mutant: the baseline is looked for, though there may be none.
FirstStepUnchecked(d) == IF SupportsBaseline(d) THEN "check"
                         ELSE IF HasExecutor(d) THEN "execute" ELSE "write"

\* verify_unchanged has nothing to check without a baseline.
FirstStep(d) == IF d.base # NoBase THEN "check"
                ELSE IF HasExecutor(d) THEN "execute" ELSE "write"

\* What merging makes of a proposal.
MergedDoc(d) == [d EXCEPT !.status = "MERGED",
                          !.apply  = IF HasExecutor(d) THEN "APPLIED"
                                                       ELSE "MANUAL_APPLY_REQUIRED"]

\* approve_and_merge up to the policy gate; stored is the tier of the issue.
Approve(p, by, stored, override) ==
    /\ MayRead(open[p])
    /\ MayApprove(Parsed(open[p]), by, stored, override)
    /\ Begin("merge", p, by, MergedDoc(Parsed(open[p])), FirstStep(Parsed(open[p])))

Reject(p, by) ==
    /\ MayRead(open[p])
    /\ Begin("reject", p, by, [Parsed(open[p]) EXCEPT !.status = "REJECTED"], "write")

\* Mutant: whatever was merged may be confirmed or given up.
AwaitsAnything(p) == merged[p] # Absent

\* (A file that was written once without its dashes has none any more.)
AwaitsManualApply(p) ==
    /\ merged[p] # Absent
    /\ merged[p].apply = "MANUAL_APPLY_REQUIRED"

\* mark_manually_applied and abandon_manual_apply, up to the write.
MarkApplied(p, by) ==
    /\ AwaitsManualApply(p)
    /\ by \notin Agent
    /\ Begin("mark", p, by, [merged[p] EXCEPT !.apply = "MANUALLY_APPLIED"], "write")

AbandonApply(p, by) ==
    /\ AwaitsManualApply(p)
    /\ by \notin Agent
    /\ Begin("abandon", p, by, [merged[p] EXCEPT !.apply = "ABANDONED"], "write")

-----------------------------------------------------------------------------
(* ... and goes on step by step *)

Proceed(pc) == handler' = IF pc = "idle" THEN Idle ELSE [handler EXCEPT !.pc = pc]

Logged(how) == log' = Append(log, [how |-> how, doc |-> handler.doc, by |-> handler.by])

\* verify_unchanged: the rule is as it was when the proposal was submitted ...
CheckPasses ==
    /\ handler.pc = "check"
    /\ Matches(handler.doc)
    /\ Proceed("execute")
    /\ UNCHANGED <<rule, files, drafts, replay, second, told, history>>

\* ... or it is not, or it cannot be read: StaleTargetError, nothing changed.
CheckRefuses ==
    /\ handler.pc = "check"
    /\ Proceed("idle")
    /\ UNCHANGED <<rule, files, drafts, replay, second, told, history>>

\* A new version of the rule, which SecOps gives a new revision.
Saved(text) == [text |-> text, revision |-> rule.revision + 1, enabled |-> rule.enabled]

\* What the engine does; a generic capability or a refinement leaves the rule
\* alone.
Applied(d) ==
    CASE d.kind = "text"   -> Saved(d.sub)
      [] d.kind = "deploy" -> [rule EXCEPT !.enabled = TRUE]
      [] OTHER             -> rule

\* Mutant: the open file goes before the merged one is written.
ExecuteUnlinking ==
    /\ handler.pc = "execute"
    /\ rule' = Applied(handler.doc)
    /\ Logged("executed")
    /\ open' = [open EXCEPT ![handler.id] = Absent]
    /\ Proceed("write")
    /\ UNCHANGED <<merged, rejected, drafts, replay, second, told, faults, replays, stale>>

\* patch_rule, update_rule_deployment, execute, create_findings_refinement.
Execute ==
    /\ handler.pc = "execute"
    /\ rule' = Applied(handler.doc)
    /\ Logged("executed")
    /\ Proceed("write")
    /\ UNCHANGED <<files, drafts, replay, second, told, faults, replays, stale>>

\* The write takes effect and the call raises: the proposal stays open.
ExecuteUnanswered ==
    /\ handler.pc = "execute"
    /\ faults < MaxFaults
    /\ rule' = Applied(handler.doc)
    /\ Logged("executed")
    /\ faults' = faults + 1
    /\ Proceed("idle")
    /\ UNCHANGED <<files, drafts, replay, second, told, replays, stale>>

\* The decision is written: a merge or a rejection to its directory, a manual
\* apply over the merged file.  (What a merge executed is in the log already.)
WriteVerdict ==
    LET d == handler.doc IN
    /\ handler.pc = "write"
    /\ IF handler.op = "reject"
       THEN /\ rejected' = [rejected EXCEPT ![handler.id] = d]
            /\ UNCHANGED merged
       ELSE /\ merged' = [merged EXCEPT ![handler.id] = d]
            /\ UNCHANGED rejected
    /\ CASE handler.op = "merge" /\ ~HasExecutor(d) -> Logged("approved")
         [] handler.op = "reject"                    -> Logged("rejected")
         [] handler.op = "mark"                      -> Logged("confirmed")
         [] handler.op = "abandon"                   -> Logged("abandoned")
         [] OTHER                                    -> UNCHANGED log
    /\ Proceed(IF handler.op \in {"merge", "reject"} THEN "unlink" ELSE "commit")
    /\ UNCHANGED <<rule, open, drafts, replay, second, told, faults, replays, stale>>

\* Mutant: the open file is left behind.
UnlinkOpenNot ==
    /\ handler.pc = "unlink"
    /\ Proceed(IF handler.op = "reject" THEN "report" ELSE "commit")
    /\ UNCHANGED <<rule, files, drafts, replay, second, told, history>>

UnlinkOpen ==
    /\ handler.pc = "unlink"
    /\ open' = [open EXCEPT ![handler.id] = Absent]
    /\ Proceed(IF handler.op = "reject" THEN "report" ELSE "commit")
    /\ UNCHANGED <<rule, merged, rejected, drafts, replay, second, told, history>>

\* _commit_merged_proposal: with a commit hash the merged file is written again.
Commit ==
    /\ handler.pc = "commit"
    /\ \/ merged' = [merged EXCEPT ![handler.id] = handler.doc]
       \/ UNCHANGED merged
    /\ Proceed("report")
    /\ UNCHANGED <<rule, open, rejected, drafts, replay, second, told, history>>

\* What the lifecycle manager is told: decide_issue, apply_change or
\* abandon_approved_change.
Decision == CASE handler.op = "reject"  -> "REJECTED"
              [] handler.op = "abandon" -> "ABANDONED"
              [] handler.op = "merge" /\ ~HasExecutor(handler.doc) -> "APPROVED"
              [] OTHER                  -> "APPLIED"

\* The linked issue is told, or telling it fails and that is only logged, or
\* the link was cut off.
Report ==
    /\ handler.pc = "report"
    /\ \/ handler.doc.kind # "unknown" /\ told' = told \cup {[sub |-> handler.doc.sub, what |-> Decision]}
       \/ UNCHANGED told
    /\ Proceed("idle")
    /\ UNCHANGED <<rule, files, drafts, replay, second, history>>

\* A step of the endpoint raises: the request fails, what is done stays done.
StepRaises ==
    /\ handler # Idle
    /\ faults < MaxFaults
    /\ faults' = faults + 1
    /\ Proceed("idle")
    /\ UNCHANGED <<rule, files, drafts, replay, second, told, log, replays, stale>>

-----------------------------------------------------------------------------
(* The rest of the world *)

\* The server dies: the endpoint, the replay and unfinished submissions with it.
Crash ==
    /\ faults < MaxFaults
    /\ faults' = faults + 1
    /\ handler' = Idle
    /\ replay' = Idle
    /\ drafts' = [s \in Submission |-> IF drafts[s].pc = "writing"
                                       THEN [pc |-> "done"] ELSE drafts[s]]
    /\ UNCHANGED <<rule, files, second, told, log, replays, stale>>

\* Somebody saves a new version of the rule, maybe with the old text ...
OthersEdit(text) ==
    /\ rule.revision < MaxRevision
    /\ rule' = Saved(text)
    /\ UNCHANGED <<files, handler, drafts, replay, second, told, history>>

\* ... or enables or disables it.
OthersToggle ==
    /\ "deploy" \in Kind
    /\ rule' = [rule EXCEPT !.enabled = ~@]
    /\ UNCHANGED <<files, handler, drafts, replay, second, told, history>>

Tick ==
    /\ second < MaxSecond
    /\ second' = second + 1
    /\ UNCHANGED <<rule, files, handler, drafts, replay, told, history>>

NoFiles == [p \in Id |-> Absent]

PMInit ==
    /\ rule = [text |-> "original", revision |-> 0, enabled |-> FALSE]
    /\ open = NoFiles /\ merged = NoFiles /\ rejected = NoFiles
    /\ handler = Idle /\ replay = Idle
    /\ drafts = [s \in Submission |-> Idle]
    /\ second = 1
    /\ told = {} /\ log = <<>>
    /\ faults = 0 /\ replays = 0 /\ stale = 0

Submitting ==
    \E s \in Submission :
       \/ \E kind \in Kind, author \in Agent, high \in Risk, verified \in BOOLEAN,
             dashes \in Dashes : DraftCaptures(s, kind, author, high, verified, dashes)
       \/ DraftWrites(s)

Deciding ==
    \E p \in Id, by \in Actor :
       \/ \E stored \in 1..3, override \in BOOLEAN : Approve(p, by, stored, override)
       \/ Reject(p, by)
       \/ MarkApplied(p, by)
       \/ AbandonApply(p, by)

CarryingOut ==
    \/ CheckPasses  \/ CheckRefuses
    \/ Execute      \/ ExecuteUnanswered
    \/ WriteVerdict \/ UnlinkOpen \/ Commit \/ Report
    \/ StepRaises

Replaying ==
    \/ \E p \in Id, compiles \in BOOLEAN : ReplayReads(p, compiles)
    \/ ReplayLocates
    \/ ReplayWrites

World ==
    \/ Crash
    \/ \E text \in {"original", "edited"} : OthersEdit(text)
    \/ OthersToggle
    \/ Tick

PMNext == Submitting \/ Deciding \/ CarryingOut \/ Replaying \/ World

PMSpec == PMInit /\ [][PMNext]_vars

-----------------------------------------------------------------------------
(* Types *)

TextBase   == [revision : Nat, text : Texts]
DeployBase == [enabled : BOOLEAN]

BaseFits(d) == \/ d.base = NoBase
               \/ d.kind = "text" /\ d.base \in TextBase
               \/ d.kind = "deploy" /\ d.base \in DeployBase

Doc == {d \in [sub : Submission, kind : Kind \cup {"unknown"}, author : Agent \cup {""},
               high : BOOLEAN, verified : BOOLEAN, dashes : {"none", "title", "payload"},
               base : TextBase \cup DeployBase \cup {NoBase},
               status : {"OPEN", "MERGED", "REJECTED"},
               apply : {"NONE", "APPLIED", "MANUAL_APPLY_REQUIRED", "MANUALLY_APPLIED",
                        "ABANDONED"}] : BaseFits(d)}

ASSUME NothingAssumption == NoBase \notin TextBase \cup DeployBase /\ Absent \notin Doc

Files == [Id -> Doc \cup {Absent}]

Handlers == [op : {"merge", "reject", "mark", "abandon"}, id : Id, by : Actor, doc : Doc,
             pc : {"check", "execute", "write", "unlink", "commit", "report"}]

Drafts == {Idle, [pc |-> "done"]}
          \cup [pc : {"writing"}, id : Id, doc : Doc]

Replays == {Idle} \cup [pc : {"replaying", "open", "merged", "rejected"}, id : Id,
                        was : Doc, doc : Doc]

Entries == [how : {"executed", "approved", "rejected", "confirmed", "abandoned"},
            doc : Doc, by : Actor]

\* Type invariant of the proposals, of the three directories and of the
\* requests and threads at work on them; a request checks a baseline only
\* where there is one, and executes only what has an executor.
PMTypeOK ==
    /\ rule \in [text : Texts, revision : Nat, enabled : BOOLEAN]
    /\ open \in Files /\ merged \in Files /\ rejected \in Files
    /\ handler \in {Idle} \cup Handlers
    /\ handler.pc = "check" => handler.doc.base # NoBase
    /\ handler.pc = "execute" => HasExecutor(handler.doc)
    /\ drafts \in [Submission -> Drafts]
    /\ replay \in Replays
    /\ second \in Id
    /\ told \subseteq [sub : Submission,
                       what : {"APPROVED", "APPLIED", "REJECTED", "ABANDONED"}]
    /\ log \in Seq(Entries)
    /\ faults \in Nat /\ replays \in Nat /\ stale \in Nat

-----------------------------------------------------------------------------
(* Safety *)

\* The text of a rule was written on the strength of this baseline.
OnBase(e) == e.how = "executed" /\ e.doc.kind = "text" /\ e.doc.base # NoBase

\* No lost update between proposals: of all the text changes submitted on one
\* revision of the rule at most one is ever written, whichever of them are
\* approved, refused, approved again after a crash or an unanswered call, or
\* brought back by a replay.
OnePerBase ==
    \A i, j \in DOMAIN log :
       i # j /\ OnBase(log[i]) /\ OnBase(log[j])
          => log[i].doc.base.revision # log[j].doc.base.revision

\* The decisions taken on a submission, in either round: approval or
\* rejection, then what becomes of a manual apply.
Decisions(s, round) == {i \in DOMAIN log : log[i].doc.sub = s /\ log[i].how \in round}

\* A proposal is decided on once, and carried out once, unless something went
\* wrong: every further decision is paid for by a crash, an error, an
\* unanswered call, or a replay that wrote over a file it had not read.
DecidedOnce ==
    \A s \in Submission, round \in {{"executed", "approved", "rejected"},
                                    {"confirmed", "abandoned"}} :
       Cardinality(Decisions(s, round)) <= 1 + faults + stale

\* Nothing is written to SecOps on the word of the author, of an agent where
\* the action or its risk asks for a human, or of an agent on a change whose
\* syntax was not verified, whatever tier the linked issue carries.
AuthorizedWrites ==
    \A i \in DOMAIN log :
       log[i].how = "executed" =>
          /\ log[i].by # log[i].doc.author
          /\ log[i].by \in Agent => /\ log[i].doc.kind \notin HumanOnly
                                    /\ ~log[i].doc.high
                                    /\ log[i].doc.kind \in CodeChange => log[i].doc.verified

Grounds(what) == CASE what = "APPLIED"   -> {"executed", "confirmed"}
                   [] what = "APPROVED"  -> {"approved"}
                   [] what = "REJECTED"  -> {"rejected"}
                   [] what = "ABANDONED" -> {"abandoned"}

\* What the linked issue is told did happen: it is APPLIED only after SecOps
\* was changed or a human said so, never because a manual apply was approved.
\* No run checks it by itself: it follows from ImplementsProposalLife below.
TellsTheTruth ==
    \A t \in told : Decisions(t.sub, Grounds(t.what)) # {}

\* A proposal that has a file keeps one in some directory, whatever fails in
\* the middle of moving it.
NeverLost == [][\A p \in Id : Found(p) # Absent => Found(p)' # Absent]_vars

-----------------------------------------------------------------------------
(* The manager implements the life of a proposal *)

Life == INSTANCE ProposalLife WITH
    Proposal  <- Submission,
    decisions <- [i \in DOMAIN log |-> [sub |-> log[i].doc.sub, how |-> log[i].how]],
    mishaps   <- faults + stale

\* Every behaviour of the manager is one of the abstract proposals: whatever is
\* interrupted, repeated or written back late, no decision is taken that is not
\* due or paid for by a mishap; only an approved manual apply is confirmed or
\* given up; and an issue is told after the decision.
ImplementsProposalLife == Life!Spec

=============================================================================
