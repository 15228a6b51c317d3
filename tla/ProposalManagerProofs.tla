----------------------- MODULE ProposalManagerProofs -----------------------
(***************************************************************************)
(* What ProposalManager guarantees for any number of agents, humans and    *)
(* submissions, any kinds and risks of changes, and whatever the bounds.   *)
(*                                                                         *)
(* Everything rests on the types (TypeCorrect) and on one fact about the   *)
(* request in progress for each property: what the check it has passed     *)
(* established (Checked), what the approval did (Cleared), what it has     *)
(* written when it comes to unlink the open file (Moved), what it has a    *)
(* reason to tell (Founded), and whether it has still to enter its         *)
(* decision in the log (OnceInv, the one that also looks at the files).    *)
(*                                                                         *)
(* With one fact more, that nothing waits to be applied by hand unless it  *)
(* was approved (WaitInv), the manager implements ProposalLife.            *)
(***************************************************************************)
EXTENDS ProposalManager, FiniteSetTheorems, SequenceTheorems, TLAPS

-----------------------------------------------------------------------------
(* Types *)

\* The file found for an id, if there is one, is a proposal.
LEMMA FoundIsDoc ==
    ASSUME PMTypeOK, NEW p \in Id, Found(p) # Absent
    PROVE  Found(p) \in Doc
BY DEF PMTypeOK, Files, Found

\* A stamp or a verdict leaves a proposal a proposal, on the same baseline.
LEMMA DocUpdates ==
    ASSUME NEW d \in Doc
    PROVE  /\ \A v \in BOOLEAN : [d EXCEPT !.verified = v] \in Doc
           /\ \A st \in {"OPEN", "MERGED", "REJECTED"} : [d EXCEPT !.status = st] \in Doc
           /\ \A ap \in {"NONE", "APPLIED", "MANUAL_APPLY_REQUIRED", "MANUALLY_APPLIED",
                         "ABANDONED"} :
                 [d EXCEPT !.apply = ap] \in Doc
           /\ MergedDoc(d) \in Doc
BY DEF Doc, BaseFits, MergedDoc

\* What is parsed is a proposal, even of what has been cut off.
LEMMA ParsedIsDoc == ASSUME NEW d \in Doc PROVE Parsed(d) \in Doc
BY DEF Doc, BaseFits, Parsed

\* Merging a proposal changes none of what it proposes.
LEMMA MergedDocKeeps ==
    ASSUME NEW d \in Doc
    PROVE  /\ MergedDoc(d).base = d.base
           /\ MergedDoc(d).kind = d.kind
           /\ MergedDoc(d).sub = d.sub
           /\ MergedDoc(d).author = d.author
           /\ MergedDoc(d).high = d.high
           /\ MergedDoc(d).verified = d.verified
BY DEF Doc, MergedDoc

\* The initial state is well typed.
LEMMA InitTypes == PMInit => PMTypeOK
BY ProposalAssumption DEF PMInit, PMTypeOK, Files, Texts, Idle, Drafts, Replays, NoFiles, Id

\* Submitting writes an open file at most.
LEMMA SubmittingFrame ==
    ASSUME Submitting
    PROVE  /\ UNCHANGED <<rule, handler, merged, rejected, replay, log, told, faults, stale>>
           /\ UNCHANGED open \/ \E s \in Submission : DraftWrites(s)
<1>2. CASE \E s \in Submission, kind \in Kind, author \in Agent, high \in Risk,
              verified \in BOOLEAN, dashes \in Dashes :
              DraftCaptures(s, kind, author, high, verified, dashes)
  <2>1. UNCHANGED <<rule, files, handler, replay, second, told, history>>
    BY <1>2 DEF DraftCaptures
  <2> QED BY <2>1 DEF files, history
<1>3. CASE \E s \in Submission : DraftWrites(s)
  BY <1>3 DEF DraftWrites, history
<1> QED BY <1>2, <1>3 DEF Submitting

\* A replay writes files only, and only at its end.
LEMMA ReplayingFrame ==
    ASSUME Replaying
    PROVE  /\ UNCHANGED <<rule, handler, log, told>>
           /\ UNCHANGED files \/ ReplayWrites
BY DEF Replaying, ReplayReads, ReplayLocates, ReplayWrites, files, history

\* The world touches no file and no log; a request goes on or is gone.
LEMMA WorldFrame ==
    ASSUME World
    PROVE  UNCHANGED <<files, log, told>> /\ (UNCHANGED handler \/ handler' = Idle)
BY DEF World, Crash, OthersEdit, OthersToggle, Tick, history

\* Submitting keeps the types.
LEMMA SubmittingTypes == ASSUME PMTypeOK, Submitting PROVE PMTypeOK'
<1>2. ASSUME NEW s \in Submission, NEW kind \in Kind, NEW author \in Agent,
             NEW high \in Risk, NEW verified \in BOOLEAN, NEW dashes \in Dashes,
             DraftCaptures(s, kind, author, high, verified, dashes)
      PROVE  PMTypeOK'
  <2> DEFINE d == [sub |-> s, kind |-> kind, author |-> author, high |-> high,
                   verified |-> verified, dashes |-> dashes, base |-> NoBase,
                   status |-> "OPEN", apply |-> "NONE"]
  <2>1. PICK base \in {NoBase} \cup (IF SupportsBaseline(d) THEN {ReadState(d)} ELSE {}) :
           drafts' = [drafts EXCEPT ![s] = [pc |-> "writing", id |-> second,
                                            doc |-> [d EXCEPT !.base = base]]]
    BY <1>2 DEF DraftCaptures
  <2>2. [d EXCEPT !.base = base] \in Doc
    <3>1. /\ rule.text \in Texts /\ rule.revision \in Nat /\ rule.enabled \in BOOLEAN
          /\ high \in BOOLEAN /\ dashes \in {"none", "title", "payload"}
      BY ProposalAssumption DEF PMTypeOK
    <3>2. \/ base = NoBase
          \/ kind = "text" /\ base = [revision |-> rule.revision, text |-> rule.text]
          \/ kind = "deploy" /\ base = [enabled |-> rule.enabled]
      BY <2>1 DEF SupportsBaseline, ReadState
    <3>3. /\ base \in TextBase \cup DeployBase \cup {NoBase}
          /\ \/ base = NoBase
             \/ kind = "text" /\ base \in TextBase
             \/ kind = "deploy" /\ base \in DeployBase
      BY <3>1, <3>2 DEF TextBase, DeployBase
    <3> QED BY <3>1, <3>3 DEF Doc, BaseFits
  <2>3. drafts' \in [Submission -> Drafts]
    BY <2>1, <2>2 DEF Drafts, PMTypeOK
  <2> QED BY <1>2, <2>3 DEF DraftCaptures, PMTypeOK, files, history
<1>3. ASSUME NEW s \in Submission, DraftWrites(s) PROVE PMTypeOK'
  <2>1. drafts[s] \in Drafts /\ drafts[s].pc = "writing"
    BY <1>3 DEF DraftWrites, PMTypeOK
  <2>2. drafts[s].id \in Id /\ drafts[s].doc \in Doc
    BY <2>1 DEF Drafts, Idle
  <2> QED BY <1>3, <2>2 DEF DraftWrites, PMTypeOK, Files, Drafts, history
<1> QED BY <1>2, <1>3 DEF Submitting

\* The replay agent keeps the types.
LEMMA ReplayingTypes == ASSUME PMTypeOK, Replaying PROVE PMTypeOK'
<1>1. ASSUME NEW p \in Id, NEW compiles \in BOOLEAN, ReplayReads(p, compiles)
      PROVE  PMTypeOK'
  <2> DEFINE f == Parsed(Found(p))
             v == f.verified \/ (compiles /\ f.kind = "text")
  <2>1. Found(p) \in Doc /\ f \in Doc
    BY <1>1, FoundIsDoc, ParsedIsDoc DEF ReplayReads, MayRead
  <2>2. [f EXCEPT !.verified = v] \in Doc
    <3>1. v \in BOOLEAN
      OBVIOUS
    <3> QED BY <2>1, <3>1, DocUpdates
  <2>3. [f EXCEPT !.verified = @ \/ (compiles /\ f.kind = "text")]
          = [f EXCEPT !.verified = v]
    OBVIOUS
  <2>4. replay' \in Replays
    BY <1>1, <2>1, <2>2, <2>3 DEF ReplayReads, Replays
  <2> QED BY <1>1, <2>4 DEF ReplayReads, PMTypeOK, files
<1>2. CASE ReplayLocates
  <2>1. replay \in Replays /\ replay.pc = "replaying"
    BY <1>2 DEF ReplayLocates, PMTypeOK
  <2>2. replay.id \in Id /\ replay.was \in Doc /\ replay.doc \in Doc
    BY <2>1 DEF Replays, Idle
  <2>3. replay' \in Replays
    BY <1>2, <2>2 DEF ReplayLocates, Replays
  <2> QED BY <1>2, <2>3 DEF ReplayLocates, PMTypeOK, files, history
<1>3. CASE ReplayWrites
  <2>1. replay \in Replays /\ replay.pc \in {"open", "merged", "rejected"}
    BY <1>3 DEF ReplayWrites, PMTypeOK
  <2>2. replay.id \in Id /\ replay.doc \in Doc
    BY <2>1 DEF Replays, Idle
  <2>3. open' \in Files /\ merged' \in Files /\ rejected' \in Files
    BY <1>3, <2>2 DEF ReplayWrites, WriteOver, PMTypeOK, Files
  <2>4. stale' \in Nat /\ replay' \in Replays
    BY <1>3 DEF ReplayWrites, PMTypeOK, Replays
  <2> QED BY <1>3, <2>3, <2>4 DEF ReplayWrites, PMTypeOK
<1> QED BY <1>1, <1>2, <1>3 DEF Replaying

\* A decision keeps the types.
LEMMA DecidingTypes == ASSUME PMTypeOK, Deciding PROVE PMTypeOK'
<1>0. PICK p \in Id, by \in Actor :
         \/ \E stored \in 1..3, override \in BOOLEAN : Approve(p, by, stored, override)
         \/ Reject(p, by)
         \/ MarkApplied(p, by)
         \/ AbandonApply(p, by)
  BY DEF Deciding
<1>1. ASSUME NEW op \in {"merge", "reject", "mark", "abandon"}, NEW doc \in Doc,
             NEW pc \in {"check", "execute", "write"},
             pc = "check" => doc.base # NoBase, pc = "execute" => HasExecutor(doc),
             Begin(op, p, by, doc, pc)
      PROVE  PMTypeOK'
  BY <1>0, <1>1 DEF Begin, PMTypeOK, Handlers, files, history
<1>2. CASE \E stored \in 1..3, override \in BOOLEAN : Approve(p, by, stored, override)
  <2> DEFINE d   == Parsed(open[p])
             doc == MergedDoc(d)
  <2>1. d \in Doc /\ Begin("merge", p, by, doc, FirstStep(d))
    BY <1>2, ParsedIsDoc DEF Approve, MayRead, PMTypeOK, Files
  <2>2. doc \in Doc
    BY <2>1, DocUpdates
  <2>3. doc.base = d.base /\ doc.kind = d.kind
    BY <2>1, MergedDocKeeps
  <2>4. /\ FirstStep(d) \in {"check", "execute", "write"}
        /\ FirstStep(d) = "check" => doc.base # NoBase
        /\ FirstStep(d) = "execute" => HasExecutor(doc)
    BY <2>3 DEF FirstStep, HasExecutor
  <2> QED BY <1>1, <2>1, <2>2, <2>4
<1>3. CASE Reject(p, by)
  <2>1. Parsed(open[p]) \in Doc
    BY <1>3, ParsedIsDoc DEF Reject, MayRead, PMTypeOK, Files
  <2> QED BY <1>1, <1>3, <2>1, DocUpdates DEF Reject
<1>4. CASE MarkApplied(p, by)
  <2>1. merged[p] \in Doc
    BY <1>4 DEF MarkApplied, AwaitsManualApply, PMTypeOK, Files
  <2> QED BY <1>1, <1>4, <2>1, DocUpdates DEF MarkApplied
<1>5. CASE AbandonApply(p, by)
  <2>1. merged[p] \in Doc
    BY <1>5 DEF AbandonApply, AwaitsManualApply, PMTypeOK, Files
  <2> QED BY <1>1, <1>5, <2>1, DocUpdates DEF AbandonApply
<1> QED BY <1>0, <1>2, <1>3, <1>4, <1>5

\* A request that is past its beginning.
LEMMA HandlerIsRequest ==
    ASSUME PMTypeOK, handler # Idle
    PROVE  /\ handler \in Handlers
           /\ handler.doc \in Doc /\ handler.id \in Id /\ handler.by \in Actor
BY DEF PMTypeOK, Handlers

\* Going on to a step that neither checks nor executes, or giving up.
LEMMA ProceedTypes ==
    ASSUME PMTypeOK, handler # Idle,
           NEW pc \in {"execute", "write", "unlink", "commit", "report", "idle"}, Proceed(pc),
           pc = "execute" => HasExecutor(handler.doc)
    PROVE  /\ handler' \in {Idle} \cup Handlers
           /\ handler'.pc = "check" => handler'.doc.base # NoBase
           /\ handler'.pc = "execute" => HasExecutor(handler'.doc)
BY HandlerIsRequest DEF Proceed, Handlers, Idle

\* What is entered in the log is an entry.
LEMMA LoggedTypes ==
    ASSUME PMTypeOK, handler # Idle,
           NEW how \in {"executed", "approved", "rejected", "confirmed", "abandoned"},
           Logged(how)
    PROVE  log' \in Seq(Entries)
BY HandlerIsRequest DEF Logged, Entries, PMTypeOK

\* The engine keeps the rule a rule.
LEMMA AppliedTypes ==
    ASSUME PMTypeOK, NEW d \in Doc
    PROVE  Applied(d) \in [text : Texts, revision : Nat, enabled : BOOLEAN]
<1>1. d.sub \in Texts
  BY DEF Doc, Texts
<1>2. rule \in [text : Texts, revision : Nat, enabled : BOOLEAN]
  BY DEF PMTypeOK
<1>3. Saved(d.sub) \in [text : Texts, revision : Nat, enabled : BOOLEAN]
  BY <1>1, <1>2 DEF Saved
<1>4. [rule EXCEPT !.enabled = TRUE] \in [text : Texts, revision : Nat, enabled : BOOLEAN]
  BY <1>2
<1>5. Applied(d) \in {Saved(d.sub), [rule EXCEPT !.enabled = TRUE], rule}
  BY DEF Applied
<1> QED BY <1>2, <1>3, <1>4, <1>5

\* Carrying out a decision keeps the types.
LEMMA CarryingOutTypes == ASSUME PMTypeOK, CarryingOut PROVE PMTypeOK'
<1> DEFINE d == handler.doc
<1>1. CASE CheckPasses
  <2>1. handler # Idle /\ d.base # NoBase
    BY <1>1 DEF CheckPasses, Idle, PMTypeOK
  <2>2. HasExecutor(d)
    BY <2>1, HandlerIsRequest DEF Doc, BaseFits, HasExecutor
  <2> QED BY <1>1, <2>1, <2>2, ProceedTypes DEF CheckPasses, PMTypeOK, files, history
<1>2. CASE CheckRefuses
  <2>1. handler # Idle
    BY <1>2 DEF CheckRefuses, Idle
  <2> QED BY <1>2, <2>1, ProceedTypes DEF CheckRefuses, PMTypeOK, files, history
<1>3. CASE Execute
  <2>1. handler # Idle
    BY <1>3 DEF Execute, Idle
  <2>2. rule' \in [text : Texts, revision : Nat, enabled : BOOLEAN]
    BY <1>3, <2>1, HandlerIsRequest, AppliedTypes DEF Execute
  <2>3. log' \in Seq(Entries)
    BY <1>3, <2>1, LoggedTypes DEF Execute
  <2> QED BY <1>3, <2>1, <2>2, <2>3, ProceedTypes DEF Execute, PMTypeOK, files
<1>4. CASE ExecuteUnanswered
  <2>1. handler # Idle
    BY <1>4 DEF ExecuteUnanswered, Idle
  <2>2. rule' \in [text : Texts, revision : Nat, enabled : BOOLEAN]
    BY <1>4, <2>1, HandlerIsRequest, AppliedTypes DEF ExecuteUnanswered
  <2>3. log' \in Seq(Entries)
    BY <1>4, <2>1, LoggedTypes DEF ExecuteUnanswered
  <2> QED BY <1>4, <2>1, <2>2, <2>3, ProceedTypes DEF ExecuteUnanswered, PMTypeOK, files
<1>5. CASE WriteVerdict
  <2>1. handler # Idle
    BY <1>5 DEF WriteVerdict, Idle
  <2>2. handler.id \in Id /\ d \in Doc
    BY <2>1, HandlerIsRequest
  <2>3. merged' \in Files /\ rejected' \in Files
    BY <1>5, <2>2 DEF WriteVerdict, PMTypeOK, Files
  <2>4. log' \in Seq(Entries)
    <3>1. \/ \E how \in {"approved", "rejected", "confirmed", "abandoned"} : Logged(how)
          \/ UNCHANGED log
      BY <1>5 DEF WriteVerdict
    <3> QED BY <2>1, <3>1, LoggedTypes DEF PMTypeOK
  <2>5. /\ handler' \in {Idle} \cup Handlers
        /\ handler'.pc = "check" => handler'.doc.base # NoBase
        /\ handler'.pc = "execute" => HasExecutor(handler'.doc)
    <3>1. CASE handler.op \in {"merge", "reject"}
      BY <1>5, <2>1, <3>1, ProceedTypes DEF WriteVerdict
    <3>2. CASE handler.op \notin {"merge", "reject"}
      BY <1>5, <2>1, <3>2, ProceedTypes DEF WriteVerdict
    <3> QED BY <3>1, <3>2
  <2> QED BY <1>5, <2>3, <2>4, <2>5 DEF WriteVerdict, PMTypeOK
<1>6. CASE UnlinkOpen
  <2>1. handler # Idle
    BY <1>6 DEF UnlinkOpen, Idle
  <2>2. open' \in Files
    BY <1>6 DEF UnlinkOpen, PMTypeOK, Files
  <2>3. /\ handler' \in {Idle} \cup Handlers
        /\ handler'.pc = "check" => handler'.doc.base # NoBase
        /\ handler'.pc = "execute" => HasExecutor(handler'.doc)
    <3>1. CASE handler.op = "reject"
      BY <1>6, <2>1, <3>1, ProceedTypes DEF UnlinkOpen
    <3>2. CASE handler.op # "reject"
      BY <1>6, <2>1, <3>2, ProceedTypes DEF UnlinkOpen
    <3> QED BY <3>1, <3>2
  <2> QED BY <1>6, <2>2, <2>3 DEF UnlinkOpen, PMTypeOK, history
<1>7. CASE Commit
  <2>1. handler # Idle
    BY <1>7 DEF Commit, Idle
  <2>2. merged' \in Files
    BY <1>7, <2>1, HandlerIsRequest DEF Commit, PMTypeOK, Files
  <2> QED BY <1>7, <2>1, <2>2, ProceedTypes DEF Commit, PMTypeOK, history
<1>8. CASE Report
  <2>1. handler # Idle
    BY <1>8 DEF Report, Idle
  <2>2. d.sub \in Submission
    BY <2>1, HandlerIsRequest DEF Doc
  <2>3. Decision \in {"APPROVED", "APPLIED", "REJECTED", "ABANDONED"}
    BY DEF Decision
  <2>4. told' \subseteq [sub : Submission,
                         what : {"APPROVED", "APPLIED", "REJECTED", "ABANDONED"}]
    BY <1>8, <2>2, <2>3 DEF Report, PMTypeOK
  <2> QED BY <1>8, <2>1, <2>4, ProceedTypes DEF Report, PMTypeOK, files, history
<1>9. CASE StepRaises
  BY <1>9, ProceedTypes DEF StepRaises, PMTypeOK, files
<1> QED BY <1>1, <1>2, <1>3, <1>4, <1>5, <1>6, <1>7, <1>8, <1>9 DEF CarryingOut

\* The rest of the world keeps the types.
LEMMA WorldTypes == ASSUME PMTypeOK, World PROVE PMTypeOK'
<1>1. CASE Crash
  <2>1. drafts' \in [Submission -> Drafts]
    BY <1>1 DEF Crash, PMTypeOK, Drafts
  <2> QED BY <1>1, <2>1 DEF Crash, PMTypeOK, Replays, files, Idle
<1>2. CASE \E text \in {"original", "edited"} : OthersEdit(text)
  BY <1>2 DEF OthersEdit, Saved, PMTypeOK, Texts, files, history
<1>3. CASE OthersToggle
  BY <1>3 DEF OthersToggle, PMTypeOK, files, history
<1>4. CASE Tick
  BY <1>4, ProposalAssumption DEF Tick, PMTypeOK, Id, files, history
<1> QED BY <1>1, <1>2, <1>3, <1>4 DEF World

\* Type correctness, for every value of the constants: what the endpoints,
\* threads and replays keep on file is always a proposal, and no request
\* checks a missing baseline or executes an action without an executor.
THEOREM TypeCorrect == PMSpec => []PMTypeOK
<1>1. PMTypeOK /\ [PMNext]_vars => PMTypeOK'
  <2>1. ASSUME PMTypeOK, UNCHANGED vars PROVE PMTypeOK'
    BY <2>1 DEF vars, files, history, PMTypeOK
  <2> QED BY <2>1, SubmittingTypes, DecidingTypes, CarryingOutTypes, ReplayingTypes,
             WorldTypes DEF PMNext
<1> QED BY <1>1, InitTypes, PTL DEF PMSpec

-----------------------------------------------------------------------------
(* One text change per baseline *)

\* What the check has established when the handler comes to execute: the
\* baseline is newer than that of every change made so far.
Checked ==
    handler.pc = "execute" /\ handler.doc.kind = "text" /\ handler.doc.base # NoBase
       => /\ handler.doc.base.revision =< rule.revision
          /\ \A i \in DOMAIN log :
                OnBase(log[i]) => log[i].doc.base.revision < handler.doc.base.revision

\* Every change written on a baseline has moved the rule past it.
BasesArePast ==
    \A i \in DOMAIN log : OnBase(log[i]) => log[i].doc.base.revision < rule.revision

BaseInv == BasesArePast /\ Checked /\ OnePerBase

\* A text change submitted with a baseline has a revision in it.
LEMMA TextHasRevision ==
    ASSUME NEW d \in Doc, d.kind = "text", d.base # NoBase
    PROVE  d.base \in TextBase /\ d.base.revision \in Nat
BY DEF Doc, BaseFits, TextBase

\* ... and so has every text change on record that had a baseline.
LEMMA EntryHasRevision ==
    ASSUME PMTypeOK, NEW i \in DOMAIN log, OnBase(log[i])
    PROVE  log[i].doc.base.revision \in Nat
<1>1. log[i] \in Entries
  BY DEF PMTypeOK
<1> QED BY <1>1, TextHasRevision DEF OnBase, Entries

\* An entry is appended after those there are.
LEMMA AppendedLog ==
    ASSUME PMTypeOK, NEW e, log' = Append(log, e)
    PROVE  /\ DOMAIN log' = DOMAIN log \cup {Len(log) + 1}
           /\ Len(log) + 1 \notin DOMAIN log
           /\ \A i \in DOMAIN log : log'[i] = log[i]
           /\ log'[Len(log) + 1] = e
BY DEF PMTypeOK

\* A step that writes no text keeps the invariant, if it does not set out to
\* execute a change with a baseline and never turns the revision back.
LEMMA BaseKept ==
    ASSUME PMTypeOK, PMTypeOK', BaseInv,
           rule'.revision >= rule.revision,
           \/ UNCHANGED handler
           \/ handler'.pc # "execute"
           \/ handler'.doc.base = NoBase,
           \/ UNCHANGED log
           \/ \E e : ~OnBase(e) /\ handler'.pc # "execute" /\ log' = Append(log, e)
    PROVE  BaseInv'
<1>1. \A i \in DOMAIN log : OnBase(log[i]) => log[i].doc.base.revision \in Nat
  BY EntryHasRevision
<1>2. rule.revision \in Nat /\ rule'.revision \in Nat
  BY DEF PMTypeOK
<1>3. CASE UNCHANGED log
  <2>1. BasesArePast' /\ OnePerBase'
    BY <1>1, <1>2, <1>3 DEF BaseInv, BasesArePast, OnePerBase, OnBase
  <2>2. CASE UNCHANGED handler
    <3>1. handler.pc = "execute" /\ handler.doc.kind = "text" /\ handler.doc.base # NoBase
             => handler.doc.base.revision \in Nat
      BY HandlerIsRequest, TextHasRevision DEF Idle
    <3>2. Checked'
      BY <1>1, <1>2, <1>3, <2>2, <3>1 DEF BaseInv, Checked, OnBase
    <3> QED BY <2>1, <3>2 DEF BaseInv
  <2>3. CASE handler'.pc # "execute" \/ handler'.doc.base = NoBase
    BY <2>1, <2>3 DEF BaseInv, Checked
  <2> QED BY <2>2, <2>3
<1>4. ASSUME NEW e, ~OnBase(e), handler'.pc # "execute", log' = Append(log, e)
      PROVE  BaseInv'
  <2>1. \A i \in DOMAIN log' : OnBase(log'[i]) => i \in DOMAIN log /\ log'[i] = log[i]
    BY <1>4, AppendedLog
  <2>2. BasesArePast'
    BY <1>1, <1>2, <2>1 DEF BaseInv, BasesArePast, OnBase
  <2>3. OnePerBase'
    BY <2>1 DEF BaseInv, OnePerBase, OnBase
  <2> QED BY <1>4, <2>2, <2>3 DEF BaseInv, Checked
<1> QED BY <1>3, <1>4

\* The check reads the revision the baseline names: all that was written on a
\* baseline was written on an older one.
LEMMA CheckKeepsBase == ASSUME PMTypeOK, BaseInv, CheckPasses PROVE BaseInv'
<1>1. handler'.doc = handler.doc /\ UNCHANGED <<rule, log>>
  BY HandlerIsRequest DEF CheckPasses, Proceed, Handlers, Idle, history
<1>2. handler.doc.kind = "text" => handler.doc.base.revision = rule.revision
  BY DEF CheckPasses, Matches, ReadState
<1>3. rule.revision \in Nat
  BY DEF PMTypeOK
<1>4. Checked'
  BY <1>1, <1>2, <1>3 DEF Checked, BaseInv, BasesArePast, OnBase
<1>5. BasesArePast' /\ OnePerBase'
  BY <1>1 DEF BaseInv, BasesArePast, OnePerBase, OnBase
<1> QED BY <1>4, <1>5 DEF BaseInv

\* Executing a change uses its baseline up.
LEMMA ExecuteKeepsBase ==
    ASSUME PMTypeOK, PMTypeOK', BaseInv, handler.pc = "execute", handler'.pc # "execute",
           rule' = Applied(handler.doc), Logged("executed")
    PROVE  BaseInv'
<1> DEFINE d == handler.doc
           e == [how |-> "executed", doc |-> d, by |-> handler.by]
<1>1. d \in Doc /\ log' = Append(log, e)
  BY HandlerIsRequest DEF Idle, Logged
<1>2. rule \in [text : Texts, revision : Nat, enabled : BOOLEAN]
  BY DEF PMTypeOK
<1>3. CASE ~OnBase(e)
  <2>1. rule'.revision >= rule.revision
    BY <1>2 DEF Applied, Saved
  <2> QED BY <1>1, <1>3, <2>1, BaseKept
<1>4. CASE OnBase(e)
  <2>1. d.kind = "text" /\ d.base # NoBase
    BY <1>4 DEF OnBase
  <2>2. rule'.revision = rule.revision + 1
    BY <2>1 DEF Applied, Saved
  <2>3. d.base.revision \in Nat /\ d.base.revision =< rule.revision
    BY <1>1, <2>1, TextHasRevision DEF BaseInv, Checked
  <2>4. \A i \in DOMAIN log : OnBase(log[i]) => log[i].doc.base.revision < d.base.revision
    BY <2>1 DEF BaseInv, Checked
  <2>5. \A i \in DOMAIN log : OnBase(log[i]) => log[i].doc.base.revision \in Nat
    BY EntryHasRevision
  <2>6. BasesArePast'
    <3>1. \A i \in DOMAIN log' :
             \/ i \in DOMAIN log /\ log'[i] = log[i]
             \/ log'[i] = e
      BY <1>1, AppendedLog
    <3> QED BY <1>2, <2>2, <2>3, <2>4, <2>5, <3>1 DEF BasesArePast, OnBase
  <2>7. OnePerBase'
    <3>1. \A i \in DOMAIN log' :
             \/ i \in DOMAIN log /\ log'[i] = log[i]
             \/ i = Len(log) + 1 /\ log'[i] = e
      BY <1>1, AppendedLog
    <3> SUFFICES ASSUME NEW i \in DOMAIN log', NEW j \in DOMAIN log', i # j,
                        OnBase(log'[i]), OnBase(log'[j])
                 PROVE  log'[i].doc.base.revision # log'[j].doc.base.revision
      BY DEF OnePerBase, OnBase
    <3>2. CASE i \in DOMAIN log /\ j \in DOMAIN log
      BY <3>1, <3>2, <1>1, AppendedLog DEF BaseInv, OnePerBase
    <3>3. CASE i \in DOMAIN log /\ log'[j] = e
      BY <1>1, <2>3, <2>4, <2>5, <3>3, AppendedLog
    <3>4. CASE j \in DOMAIN log /\ log'[i] = e
      BY <1>1, <2>3, <2>4, <2>5, <3>4, AppendedLog
    <3> QED BY <3>1, <3>2, <3>3, <3>4
  <2> QED BY <2>6, <2>7 DEF BaseInv, Checked
<1> QED BY <1>3, <1>4

\* No other step writes a text or lets a baseline go unchecked.
LEMMA StepKeepsBase ==
    ASSUME PMTypeOK, PMTypeOK', BaseInv, [PMNext]_vars
    PROVE  BaseInv'
<1>0. rule.revision \in Nat /\ rule \in [text : Texts, revision : Nat, enabled : BOOLEAN]
  BY DEF PMTypeOK
<1>1. CASE UNCHANGED vars
  BY <1>0, <1>1, BaseKept DEF vars, history
<1>2. CASE Submitting
  <2>1. UNCHANGED <<rule, handler, log>>
    BY <1>2, SubmittingFrame
  <2> QED BY <1>0, <2>1, BaseKept
<1>3. CASE Replaying
  <2>1. UNCHANGED <<rule, handler, log>>
    BY <1>3, ReplayingFrame
  <2> QED BY <1>0, <2>1, BaseKept
<1>4. CASE Deciding
  <2>1. PICK p \in Id, by \in Actor :
           \/ \E stored \in 1..3, override \in BOOLEAN : Approve(p, by, stored, override)
           \/ Reject(p, by)
           \/ MarkApplied(p, by)
           \/ AbandonApply(p, by)
    BY <1>4 DEF Deciding
  <2>2. UNCHANGED <<rule, log>>
    BY <2>1 DEF Approve, Reject, MarkApplied, AbandonApply, Begin, history
  <2>3. handler'.pc # "execute" \/ handler'.doc.base = NoBase
    <3>1. CASE \E stored \in 1..3, override \in BOOLEAN : Approve(p, by, stored, override)
      <4>1. Parsed(open[p]) \in Doc
        BY <3>1, ParsedIsDoc DEF Approve, MayRead, PMTypeOK, Files
      <4>2. handler'.doc.base = Parsed(open[p]).base /\ handler'.pc = FirstStep(Parsed(open[p]))
        BY <3>1, <4>1, MergedDocKeeps DEF Approve, Begin
      <4> QED BY <4>2 DEF FirstStep
    <3>2. CASE Reject(p, by) \/ MarkApplied(p, by) \/ AbandonApply(p, by)
      BY <3>2 DEF Reject, MarkApplied, AbandonApply, Begin
    <3> QED BY <2>1, <3>1, <3>2
  <2> QED BY <1>0, <2>2, <2>3, BaseKept
<1>5. CASE CarryingOut
  <2>1. CASE CheckPasses
    BY <2>1, CheckKeepsBase
  <2>2. CASE Execute
    <3>1. handler'.pc # "execute"
      BY <2>2, HandlerIsRequest DEF Execute, Proceed, Handlers, Idle
    <3> QED BY <2>2, <3>1, ExecuteKeepsBase DEF Execute
  <2>3. CASE ExecuteUnanswered
    <3>1. handler'.pc # "execute"
      BY <2>3 DEF ExecuteUnanswered, Proceed, Idle
    <3> QED BY <2>3, <3>1, ExecuteKeepsBase DEF ExecuteUnanswered
  <2>4. CASE WriteVerdict
    <3>1. handler # Idle
      BY <2>4 DEF WriteVerdict, Idle
    <3>2. handler'.pc # "execute"
      BY <2>4, <3>1, HandlerIsRequest DEF WriteVerdict, Proceed, Handlers
    <3>3. \/ UNCHANGED log
          \/ \E how \in {"approved", "rejected", "confirmed", "abandoned"} : Logged(how)
      BY <2>4 DEF WriteVerdict
    <3>4. UNCHANGED log \/ \E e : ~OnBase(e) /\ handler'.pc # "execute" /\ log' = Append(log, e)
      BY <3>2, <3>3 DEF Logged, OnBase
    <3>5. UNCHANGED rule
      BY <2>4 DEF WriteVerdict
    <3> QED BY <1>0, <3>2, <3>4, <3>5, BaseKept
  <2>5. CASE CheckRefuses \/ UnlinkOpen \/ Commit \/ Report \/ StepRaises
    <3>1. handler # Idle /\ UNCHANGED <<rule, log>>
      BY <2>5 DEF CheckRefuses, UnlinkOpen, Commit, Report, StepRaises, Idle, history
    <3>2. \E pc \in {"idle", "report", "commit"} : Proceed(pc)
      BY <2>5 DEF CheckRefuses, UnlinkOpen, Commit, Report, StepRaises
    <3>3. handler'.pc # "execute"
      BY <3>1, <3>2, HandlerIsRequest DEF Proceed, Handlers, Idle
    <3> QED BY <1>0, <3>1, <3>3, BaseKept
  <2> QED BY <1>5, <2>1, <2>2, <2>3, <2>4, <2>5 DEF CarryingOut
<1>6. CASE World
  <2>1. UNCHANGED log /\ (UNCHANGED handler \/ handler'.pc # "execute")
    BY <1>6, WorldFrame DEF Idle
  <2>2. rule'.revision >= rule.revision
    BY <1>0, <1>6 DEF World, Crash, OthersEdit, OthersToggle, Tick, Saved
  <2> QED BY <2>1, <2>2, BaseKept
<1> QED BY <1>1, <1>2, <1>3, <1>4, <1>5, <1>6 DEF PMNext

\* No lost update between proposals: of all the text changes submitted on one
\* revision of a rule at most one is ever written to SecOps, whoever approves
\* whichever of them how often, and whatever crashes, goes unanswered or is
\* brought back by a replay in between.
THEOREM OneChangePerBase == PMSpec => []OnePerBase
<1>1. PMInit => BaseInv
  BY DEF PMInit, BaseInv, BasesArePast, Checked, OnePerBase, Idle
<1>2. BaseInv => OnePerBase
  BY DEF BaseInv
<1> QED BY <1>1, <1>2, StepKeepsBase, TypeCorrect, PTL DEF PMSpec

-----------------------------------------------------------------------------
(* Who may have a change written *)

\* A change that by may have written: neither the author, nor an agent where a
\* human is needed.
Clears(by, d) ==
    /\ by # d.author
    /\ by \in Agent => /\ d.kind \notin HumanOnly
                       /\ ~d.high
                       /\ d.kind \in CodeChange => d.verified

\* What goes on to be executed has been approved by one who may.
Cleared == handler.pc \in {"check", "execute"} => Clears(handler.by, handler.doc)

\* The policy clears, whatever the tier the issue carries.
LEMMA PolicyClears ==
    ASSUME NEW d \in Doc, NEW by \in Actor, NEW stored \in 1..3, NEW override \in BOOLEAN,
           MayApprove(d, by, stored, override)
    PROVE  Clears(by, d)
<1>1. ASSUME by \in Agent PROVE RequiredTier(d) # 3
  BY <1>1 DEF MayApprove, EffectiveTier
<1>2. ASSUME by \in Agent PROVE d.kind \notin HumanOnly /\ ~d.high
  BY <1>1, <1>2 DEF RequiredTier
<1> QED BY <1>2 DEF MayApprove, Clears

\* A step keeps what is cleared and executes only that.
LEMMA StepKeepsCleared ==
    ASSUME PMTypeOK, Cleared, AuthorizedWrites, [PMNext]_vars
    PROVE  Cleared' /\ AuthorizedWrites'
<1>1. CASE UNCHANGED <<handler, log>>
  BY <1>1 DEF Cleared, Clears, AuthorizedWrites
<1>2. ASSUME UNCHANGED log, handler'.pc \notin {"check", "execute"}
      PROVE  Cleared' /\ AuthorizedWrites'
  BY <1>2 DEF Cleared, AuthorizedWrites
<1>3. ASSUME NEW how \in {"executed", "approved", "rejected", "confirmed", "abandoned"},
             Logged(how), how = "executed" => Cleared /\ handler.pc = "execute",
             handler'.pc \notin {"check", "execute"}
      PROVE  Cleared' /\ AuthorizedWrites'
  <2> DEFINE e == [how |-> how, doc |-> handler.doc, by |-> handler.by]
  <2>1. e.how = "executed" => Clears(e.by, e.doc)
    BY <1>3 DEF Cleared
  <2>2. \A i \in DOMAIN log' : (i \in DOMAIN log /\ log'[i] = log[i]) \/ log'[i] = e
    BY <1>3, AppendedLog DEF Logged
  <2>3. AuthorizedWrites'
    BY <2>1, <2>2 DEF AuthorizedWrites, Clears
  <2> QED BY <1>3, <2>3 DEF Cleared
<1>4. CASE Submitting \/ Replaying \/ World \/ UNCHANGED vars
  <2>1. UNCHANGED log /\ (UNCHANGED handler \/ handler' = Idle)
    BY <1>4, SubmittingFrame, ReplayingFrame, WorldFrame DEF vars, history
  <2> QED BY <1>1, <1>2, <2>1 DEF Idle
<1>5. CASE Deciding
  <2>1. PICK p \in Id, by \in Actor :
           \/ \E stored \in 1..3, override \in BOOLEAN : Approve(p, by, stored, override)
           \/ Reject(p, by)
           \/ MarkApplied(p, by)
           \/ AbandonApply(p, by)
    BY <1>5 DEF Deciding
  <2>2. CASE \E stored \in 1..3, override \in BOOLEAN : Approve(p, by, stored, override)
    <3>1. Parsed(open[p]) \in Doc
      BY <2>2, ParsedIsDoc DEF Approve, MayRead, PMTypeOK, Files
    <3>2. Clears(by, Parsed(open[p]))
      BY <2>2, <3>1, PolicyClears DEF Approve
    <3>3. /\ handler'.by = by
          /\ handler'.doc = MergedDoc(Parsed(open[p]))
      BY <2>2 DEF Approve, Begin
    <3>4. Cleared'
      BY <3>1, <3>2, <3>3, MergedDocKeeps DEF Cleared, Clears
    <3>5. UNCHANGED log
      BY <2>2 DEF Approve, Begin, history
    <3> QED BY <3>4, <3>5 DEF AuthorizedWrites
  <2>3. CASE Reject(p, by) \/ MarkApplied(p, by) \/ AbandonApply(p, by)
    <3>1. UNCHANGED log /\ handler'.pc = "write"
      BY <2>3 DEF Reject, MarkApplied, AbandonApply, Begin, history
    <3> QED BY <1>2, <3>1
  <2> QED BY <2>1, <2>2, <2>3
<1>6. CASE CarryingOut
  <2>1. handler # Idle /\ handler \in Handlers
    BY <1>6, HandlerIsRequest
       DEF CarryingOut, CheckPasses, CheckRefuses, Execute, ExecuteUnanswered, WriteVerdict,
           UnlinkOpen, Commit, Report, StepRaises, Idle
  <2>2. ASSUME NEW pc \in {"write", "unlink", "commit", "report", "idle"}, Proceed(pc)
        PROVE  handler'.pc \notin {"check", "execute"}
    BY <2>1, <2>2 DEF Proceed, Handlers, Idle
  <2>3. CASE CheckPasses
    <3>1. UNCHANGED log /\ handler'.by = handler.by /\ handler'.doc = handler.doc
      BY <2>1, <2>3 DEF CheckPasses, Proceed, Handlers, history
    <3>2. Cleared'
      BY <2>3, <3>1 DEF Cleared, CheckPasses, Clears
    <3> QED BY <3>1, <3>2 DEF AuthorizedWrites
  <2>4. CASE Execute \/ ExecuteUnanswered
    BY <1>3, <2>2, <2>4 DEF Execute, ExecuteUnanswered
  <2>5. CASE WriteVerdict
    <3>1. handler'.pc \notin {"check", "execute"}
      BY <2>2, <2>5 DEF WriteVerdict
    <3>2. \/ UNCHANGED log
          \/ \E how \in {"approved", "rejected", "confirmed", "abandoned"} : Logged(how)
      BY <2>5 DEF WriteVerdict
    <3> QED BY <1>2, <1>3, <3>1, <3>2
  <2>6. CASE CheckRefuses \/ UnlinkOpen \/ Commit \/ Report \/ StepRaises
    <3>1. UNCHANGED log /\ \E pc \in {"idle", "report", "commit"} : Proceed(pc)
      BY <2>6 DEF CheckRefuses, UnlinkOpen, Commit, Report, StepRaises, history
    <3> QED BY <1>2, <2>2, <3>1
  <2> QED BY <1>6, <2>3, <2>4, <2>5, <2>6 DEF CarryingOut
<1> QED BY <1>4, <1>5, <1>6 DEF PMNext

\* Whatever the tier an issue carries and however the files are rewritten
\* meanwhile, nothing is written to SecOps that its author approved, or that an
\* agent approved where a human was needed.
THEOREM WritesAreAuthorized == PMSpec => []AuthorizedWrites
<1>1. PMInit => Cleared /\ AuthorizedWrites
  BY DEF PMInit, Cleared, AuthorizedWrites, Idle
<1> QED BY <1>1, StepKeepsCleared, TypeCorrect, PTL DEF PMSpec

-----------------------------------------------------------------------------
(* No proposal is lost *)

\* When a request comes to unlink the open file, its verdict is on file.
Moved == handler.pc = "unlink" =>
            merged[handler.id] # Absent \/ rejected[handler.id] # Absent

\* Files are overwritten but only one step takes one away.
LEMMA FilesStay ==
    ASSUME PMTypeOK, [PMNext]_vars, NEW p \in Id
    PROVE  /\ merged[p] # Absent => merged'[p] # Absent
           /\ rejected[p] # Absent => rejected'[p] # Absent
           /\ open[p] # Absent /\ open'[p] = Absent => UnlinkOpen /\ p = handler.id
<1>0. open \in Files /\ merged \in Files /\ rejected \in Files
  BY DEF PMTypeOK
<1>1. CASE UNCHANGED files
  BY <1>1 DEF files
<1>2. CASE Submitting
  <2>1. CASE \E s \in Submission : DraftWrites(s)
    <3>1. PICK s \in Submission : DraftWrites(s)
      BY <2>1
    <3>2. drafts[s] \in Drafts /\ drafts[s].pc = "writing"
      BY <3>1 DEF DraftWrites, PMTypeOK
    <3>3. drafts[s].doc # Absent
      BY <3>2, NothingAssumption DEF Drafts, Idle
    <3> QED BY <1>0, <3>1, <3>3 DEF DraftWrites, Files
  <2>2. CASE UNCHANGED files
    BY <2>2, <1>1
  <2> QED BY <1>2, <2>1, <2>2, SubmittingFrame DEF files
<1>3. CASE Replaying
  <2>1. CASE ReplayWrites
    <3>1. replay \in Replays /\ replay # Idle
      BY <2>1 DEF ReplayWrites, PMTypeOK, Idle
    <3>2. replay.doc # Absent
      BY <3>1, NothingAssumption DEF Replays
    <3> QED BY <1>0, <2>1, <3>2 DEF ReplayWrites, WriteOver, Files
  <2>2. CASE UNCHANGED files
    BY <2>2, <1>1
  <2> QED BY <1>3, <2>1, <2>2, ReplayingFrame
<1>4. CASE CarryingOut
  <2>1. handler # Idle
    BY <1>4 DEF CarryingOut, CheckPasses, CheckRefuses, Execute, ExecuteUnanswered,
                WriteVerdict, UnlinkOpen, Commit, Report, StepRaises, Idle
  <2>2. handler.doc # Absent
    BY <2>1, HandlerIsRequest, NothingAssumption
  <2>3. CASE WriteVerdict
    BY <1>0, <2>2, <2>3 DEF WriteVerdict, Files
  <2>4. CASE Commit
    BY <1>0, <2>2, <2>4 DEF Commit, Files
  <2>5. CASE UnlinkOpen
    BY <1>0, <2>5 DEF UnlinkOpen, Files
  <2>6. CASE UNCHANGED files
    BY <2>6, <1>1
  <2> QED BY <1>4, <2>3, <2>4, <2>5, <2>6
          DEF CarryingOut, CheckPasses, CheckRefuses, Execute, ExecuteUnanswered, Report,
              StepRaises
<1>5. CASE Deciding \/ World \/ UNCHANGED vars
  <2>1. UNCHANGED files
    BY <1>5, WorldFrame DEF Deciding, Approve, Reject, MarkApplied, AbandonApply, Begin, vars
  <2> QED BY <2>1, <1>1
<1> QED BY <1>2, <1>3, <1>4, <1>5 DEF PMNext

\* The verdict is written before the request goes on to unlink.
LEMMA StepKeepsMoved ==
    ASSUME PMTypeOK, Moved, [PMNext]_vars
    PROVE  Moved'
<1>1. CASE handler'.pc # "unlink"
  BY <1>1 DEF Moved
<1>2. CASE UNCHANGED handler
  <2>1. CASE handler.pc = "unlink"
    <3>1. handler.id \in Id
      BY <2>1, HandlerIsRequest DEF Idle
    <3> QED BY <1>2, <3>1, FilesStay DEF Moved
  <2> QED BY <1>2, <2>1 DEF Moved
<1>3. CASE WriteVerdict
  <2>1. handler # Idle
    BY <1>3 DEF WriteVerdict, Idle
  <2>2. handler \in Handlers /\ handler.id \in Id /\ handler.doc # Absent
    BY <2>1, HandlerIsRequest, NothingAssumption
  <2>3. merged \in Files /\ rejected \in Files
    BY DEF PMTypeOK
  <2>4. handler'.id = handler.id \/ handler' = Idle
    BY <1>3, <2>2 DEF WriteVerdict, Proceed, Handlers
  <2>5. merged'[handler.id] = handler.doc \/ rejected'[handler.id] = handler.doc
    BY <1>3, <2>2, <2>3 DEF WriteVerdict, Files
  <2> QED BY <2>2, <2>4, <2>5 DEF Moved, Idle
<1>4. CASE CarryingOut /\ ~WriteVerdict
  <2>1. handler # Idle
    BY <1>4 DEF CarryingOut, CheckPasses, CheckRefuses, Execute, ExecuteUnanswered,
                UnlinkOpen, Commit, Report, StepRaises, Idle
  <2>2. \E pc \in {"execute", "write", "commit", "report", "idle"} : Proceed(pc)
    BY <1>4 DEF CarryingOut, CheckPasses, CheckRefuses, Execute, ExecuteUnanswered,
                UnlinkOpen, Commit, Report, StepRaises
  <2>3. handler'.pc # "unlink"
    BY <2>1, <2>2, HandlerIsRequest DEF Proceed, Handlers, Idle
  <2> QED BY <2>3, <1>1
<1>5. CASE Deciding
  <2>1. PICK p \in Id, by \in Actor :
           \/ \E stored \in 1..3, override \in BOOLEAN : Approve(p, by, stored, override)
           \/ Reject(p, by)
           \/ MarkApplied(p, by)
           \/ AbandonApply(p, by)
    BY <1>5 DEF Deciding
  <2>2. handler'.pc \in {"check", "execute", "write"}
    BY <2>1 DEF Approve, Reject, MarkApplied, AbandonApply, Begin, FirstStep
  <2> QED BY <2>2, <1>1
<1>6. CASE Submitting \/ Replaying \/ World \/ UNCHANGED vars
  <2>1. UNCHANGED handler \/ handler' = Idle
    BY <1>6, SubmittingFrame, ReplayingFrame, WorldFrame DEF vars
  <2> QED BY <2>1, <1>1, <1>2 DEF Idle
<1> QED BY <1>3, <1>4, <1>5, <1>6 DEF PMNext

\* A proposal that has a file keeps one, wherever a crash, an error or a late
\* submission or replay strikes while it is moved.
THEOREM NoneIsLost == PMSpec => NeverLost
<1>1. PMInit => Moved
  BY DEF PMInit, Moved, Idle
<1>2. ASSUME PMTypeOK, Moved, [PMNext]_vars
      PROVE  [\A p \in Id : Found(p) # Absent => Found(p)' # Absent]_vars
  <2> SUFFICES ASSUME NEW p \in Id, Found(p) # Absent
               PROVE  Found(p)' # Absent
    OBVIOUS
  <2>1. CASE open[p] # Absent /\ open'[p] = Absent
    <3>1. UnlinkOpen /\ p = handler.id
      BY <1>2, <2>1, FilesStay
    <3>2. merged[p] # Absent \/ rejected[p] # Absent
      BY <1>2, <3>1 DEF UnlinkOpen, Moved
    <3> QED BY <1>2, <3>2, FilesStay DEF Found
  <2>2. CASE open[p] = Absent \/ open'[p] # Absent
    BY <1>2, <2>2, FilesStay DEF Found
  <2> QED BY <2>1, <2>2
<1> QED BY <1>1, <1>2, StepKeepsMoved, TypeCorrect, PTL DEF PMSpec, NeverLost

-----------------------------------------------------------------------------
(* What the issues are told *)

\* The entries have a reason to tell an issue this about the submission s.
Grounded(entries, s, what) ==
    \E i \in DOMAIN entries : entries[i].doc.sub = s /\ entries[i].how \in Grounds(what)

\* A merge that is executed has its reason when it comes to write the verdict,
\* any other decision when it has written it.
Founded ==
    /\ handler.pc = "write" /\ handler.op = "merge" /\ HasExecutor(handler.doc)
          => Grounded(log, handler.doc.sub, "APPLIED")
    /\ handler.pc \in {"unlink", "commit", "report"} => Grounded(log, handler.doc.sub, Decision)

ToldInv == Founded /\ \A t \in told : Grounded(log, t.sub, t.what)

\* What there was a reason for keeps it: entries are only added.
LEMMA GroundsStay ==
    ASSUME PMTypeOK, NEW s, NEW what, Grounded(log, s, what),
           UNCHANGED log \/ \E how : Logged(how)
    PROVE  Grounded(log', s, what)
BY AppendedLog DEF Grounded, Logged

\* An entry is a reason at once.
LEMMA EntryGrounds ==
    ASSUME PMTypeOK, NEW how, NEW what, how \in Grounds(what), Logged(how)
    PROVE  Grounded(log', handler.doc.sub, what)
<1>1. log'[Len(log) + 1] = [how |-> how, doc |-> handler.doc, by |-> handler.by]
  BY AppendedLog DEF Logged
<1>2. Len(log) + 1 \in DOMAIN log'
  BY AppendedLog DEF Logged
<1> QED BY <1>1, <1>2 DEF Grounded

\* A request that goes on keeps what it is about, and so what it will tell.
LEMMA ProceedKeeps ==
    ASSUME PMTypeOK, handler # Idle,
           NEW pc \in {"execute", "write", "unlink", "commit", "report"}, Proceed(pc)
    PROVE  /\ handler'.pc = pc /\ handler'.doc = handler.doc /\ handler'.op = handler.op
           /\ handler'.id = handler.id
           /\ Decision' = Decision
<1>1. /\ handler'.pc = pc /\ handler'.doc = handler.doc /\ handler'.op = handler.op
      /\ handler'.id = handler.id
  BY HandlerIsRequest DEF Proceed, Handlers
<1> QED BY <1>1 DEF Decision

\* A step tells an issue only what it has a reason for.
LEMMA StepKeepsTold ==
    ASSUME PMTypeOK, ToldInv, [PMNext]_vars
    PROVE  ToldInv'
<1>1. ASSUME UNCHANGED log \/ (\E how : Logged(how)), UNCHANGED told
      PROVE  \A t \in told' : Grounded(log', t.sub, t.what)
  <2> SUFFICES ASSUME NEW t \in told PROVE Grounded(log', t.sub, t.what)
    BY <1>1
  <2>1. Grounded(log, t.sub, t.what)
    BY DEF ToldInv
  <2> QED BY <1>1, <2>1, GroundsStay
<1>2. ASSUME UNCHANGED <<log, told>>, UNCHANGED handler \/ handler'.pc \in {"idle", "check", "execute"}
      PROVE  ToldInv'
  <2>1. CASE UNCHANGED handler
    BY <1>2, <2>1 DEF ToldInv, Founded, Grounded, Decision
  <2>2. CASE handler'.pc \in {"idle", "check", "execute"}
    BY <1>1, <1>2, <2>2 DEF ToldInv, Founded
  <2> QED BY <1>2, <2>1, <2>2
<1>3. CASE Submitting \/ Replaying \/ World \/ UNCHANGED vars
  <2>1. UNCHANGED <<log, told>> /\ (UNCHANGED handler \/ handler' = Idle)
    BY <1>3, SubmittingFrame, ReplayingFrame, WorldFrame DEF vars, history
  <2> QED BY <1>2, <2>1 DEF Idle
<1>4. CASE Deciding
  <2>1. PICK p \in Id, by \in Actor :
           \/ \E stored \in 1..3, override \in BOOLEAN : Approve(p, by, stored, override)
           \/ Reject(p, by)
           \/ MarkApplied(p, by)
           \/ AbandonApply(p, by)
    BY <1>4 DEF Deciding
  <2>2. UNCHANGED <<log, told>>
    BY <2>1 DEF Approve, Reject, MarkApplied, AbandonApply, Begin, history
  <2>3. handler'.pc \in {"check", "execute"} \/ handler'.pc = "write"
    BY <2>1 DEF Approve, Reject, MarkApplied, AbandonApply, Begin, FirstStep
  <2>4. ASSUME handler'.pc = "write", handler'.op = "merge" PROVE ~HasExecutor(handler'.doc)
    <3>1. PICK stored \in 1..3, override \in BOOLEAN : Approve(p, by, stored, override)
      BY <2>1, <2>4 DEF Reject, MarkApplied, AbandonApply, Begin
    <3>2. Parsed(open[p]) \in Doc
      BY <3>1, ParsedIsDoc DEF Approve, MayRead, PMTypeOK, Files
    <3>3. PICK d \in Doc : d = Parsed(open[p])
      BY <3>2
    <3>4. FirstStep(d) = "write" /\ handler'.doc = MergedDoc(d)
      BY <2>4, <3>1, <3>3 DEF Approve, Begin
    <3>5. ~HasExecutor(d)
      BY <3>4 DEF FirstStep
    <3>6. MergedDoc(d).kind = d.kind
      BY MergedDocKeeps
    <3> QED BY <3>4, <3>5, <3>6 DEF HasExecutor
  <2> QED BY <1>1, <2>2, <2>3, <2>4 DEF ToldInv, Founded
<1>5. CASE CarryingOut
  <2>1. handler # Idle /\ handler \in Handlers
    BY <1>5, HandlerIsRequest
       DEF CarryingOut, CheckPasses, CheckRefuses, Execute, ExecuteUnanswered, WriteVerdict,
           UnlinkOpen, Commit, Report, StepRaises, Idle
  <2>2. ASSUME NEW pc \in {"execute", "write", "idle"}, Proceed(pc)
        PROVE  handler'.pc = pc
    BY <2>1, <2>2, ProceedKeeps DEF Proceed, Idle
  <2>3. CASE CheckPasses \/ CheckRefuses \/ StepRaises
    <3>1. UNCHANGED <<log, told>> /\ handler'.pc \in {"execute", "idle"}
      BY <2>2, <2>3 DEF CheckPasses, CheckRefuses, StepRaises, history
    <3> QED BY <1>2, <3>1
  <2>4. CASE ExecuteUnanswered
    <3>1. Logged("executed") /\ UNCHANGED told /\ handler'.pc = "idle"
      BY <2>2, <2>4 DEF ExecuteUnanswered
    <3> QED BY <1>1, <3>1 DEF ToldInv, Founded
  <2>5. CASE Execute
    <3>1. Logged("executed") /\ UNCHANGED told /\ Proceed("write")
      BY <2>5 DEF Execute
    <3>2. "executed" \in Grounds("APPLIED")
      BY DEF Grounds
    <3>3. Grounded(log', handler.doc.sub, "APPLIED") /\ handler'.doc = handler.doc /\ handler'.pc = "write"
      BY <2>1, <3>1, <3>2, EntryGrounds, ProceedKeeps
    <3>4. Grounded(log', handler'.doc.sub, "APPLIED")
      BY <3>3 DEF Grounded
    <3> QED BY <1>1, <3>1, <3>3, <3>4 DEF ToldInv, Founded
  <2>6. CASE WriteVerdict
    <3>1. UNCHANGED told
      BY <2>6 DEF WriteVerdict
    <3>2. PICK pc \in {"unlink", "commit"} : Proceed(pc)
      BY <2>6 DEF WriteVerdict
    <3>3. /\ handler'.pc = pc /\ handler'.doc = handler.doc /\ Decision' = Decision
      BY <2>1, <3>2, ProceedKeeps
    <3>4. /\ UNCHANGED log \/ (\E how : Logged(how))
          /\ Grounded(log', handler.doc.sub, Decision)
      <4>1. CASE handler.op = "merge" /\ HasExecutor(handler.doc)
        <5>1. UNCHANGED log
          BY <2>6, <4>1 DEF WriteVerdict
        <5>2. Decision = "APPLIED" /\ Grounded(log, handler.doc.sub, "APPLIED")
          BY <2>6, <4>1 DEF ToldInv, Founded, WriteVerdict, Decision
        <5> QED BY <5>1, <5>2, GroundsStay
      <4>2. CASE ~(handler.op = "merge" /\ HasExecutor(handler.doc))
        <5>1. PICK how \in {"approved", "rejected", "confirmed", "abandoned"} :
                 Logged(how) /\ how \in Grounds(Decision)
          <6>1. CASE handler.op = "merge"
            BY <2>6, <4>2, <6>1 DEF WriteVerdict, Decision, Grounds
          <6>2. CASE handler.op = "reject"
            BY <2>6, <6>2 DEF WriteVerdict, Decision, Grounds
          <6>3. CASE handler.op = "mark"
            BY <2>6, <6>3 DEF WriteVerdict, Decision, Grounds
          <6>4. CASE handler.op = "abandon"
            BY <2>6, <6>4 DEF WriteVerdict, Decision, Grounds
          <6> QED BY <2>1, <6>1, <6>2, <6>3, <6>4 DEF Handlers
        <5> QED BY <5>1, EntryGrounds
      <4> QED BY <4>1, <4>2
    <3>5. Grounded(log', handler'.doc.sub, Decision')
      BY <3>3, <3>4 DEF Grounded
    <3> QED BY <1>1, <3>1, <3>3, <3>4, <3>5 DEF ToldInv, Founded
  <2>7. CASE UnlinkOpen \/ Commit
    <3>1. UNCHANGED <<log, told>> /\ \E pc \in {"report", "commit"} : Proceed(pc)
      BY <2>7 DEF UnlinkOpen, Commit, history
    <3>2. /\ handler'.doc = handler.doc /\ Decision' = Decision
          /\ handler'.pc \in {"report", "commit"}
      BY <2>1, <3>1, ProceedKeeps
    <3>3. Grounded(log, handler.doc.sub, Decision)
      BY <2>7 DEF ToldInv, Founded, UnlinkOpen, Commit
    <3> QED BY <1>1, <3>1, <3>2, <3>3 DEF ToldInv, Founded, Grounded
  <2>8. CASE Report
    <3>1. UNCHANGED log /\ handler'.pc = "idle"
      BY <2>2, <2>8 DEF Report, history
    <3>2. Grounded(log, handler.doc.sub, Decision)
      BY <2>8 DEF ToldInv, Founded, Report
    <3>3. \A t \in told' : t \in told \/ t = [sub |-> handler.doc.sub, what |-> Decision]
      BY <2>8 DEF Report
    <3>4. \A t \in told' : Grounded(log, t.sub, t.what)
      BY <3>2, <3>3 DEF ToldInv
    <3> QED BY <3>1, <3>4 DEF ToldInv, Founded, Grounded
  <2> QED BY <1>5, <2>3, <2>4, <2>5, <2>6, <2>7, <2>8 DEF CarryingOut
<1> QED BY <1>3, <1>4, <1>5 DEF PMNext

\* An issue is told that its change was applied, approved, rejected or abandoned
\* only if it was, whatever fails before the report and whoever asks again.
THEOREM IssuesAreToldTheTruth == PMSpec => []TellsTheTruth
<1>1. PMInit => ToldInv
  BY DEF PMInit, ToldInv, Founded, Idle
<1>2. ToldInv => TellsTheTruth
  BY DEF ToldInv, TellsTheTruth, Decisions, Grounded
<1> QED BY <1>1, <1>2, StepKeepsTold, TypeCorrect, PTL DEF PMSpec

-----------------------------------------------------------------------------
(* A proposal is decided on once, but for mishaps *)

FirstRound  == {"executed", "approved", "rejected"}
SecondRound == {"confirmed", "abandoned"}

\* A proposal of submission s has a file in this directory under this id.
FiledIn(dir, p, s) == dir[p] # Absent /\ dir[p].sub = s

\* Who has submission s under the id p: a directory, the request in progress or
\* the replay.
HeldAt(p, s) ==
    \/ FiledIn(open, p, s) \/ FiledIn(merged, p, s) \/ FiledIn(rejected, p, s)
    \/ handler # Idle /\ handler.id = p /\ handler.doc.sub = s
    \/ replay # Idle /\ replay.id = p /\ replay.was.sub = s

\* A submission is written once, under one id, and never under another.
OneId ==
    /\ \A s \in Submission : drafts[s].pc = "writing" => drafts[s].doc.sub = s
    /\ \A s \in Submission, p \in Id : HeldAt(p, s) => drafts[s].pc = "done"
    /\ \A s \in Submission, p, q \in Id : HeldAt(p, s) /\ HeldAt(q, s) => p = q

\* A proof is all that a replay adds.
ReplayAddsProof ==
    replay # Idle => replay.doc.sub = replay.was.sub /\ replay.doc.apply = replay.was.apply

Awaiting == "MANUAL_APPLY_REQUIRED"

\* What comes to each step, and that only a merge without an executor leaves a
\* proposal to be applied by hand.
StepsInOrder ==
    handler # Idle =>
       /\ handler.pc \in {"check", "execute"} => handler.op = "merge"
       /\ handler.pc = "commit" => handler.op # "reject"
       /\ handler.op \in {"mark", "abandon"} => handler.doc.apply # Awaiting
       /\ handler.op = "merge" /\ HasExecutor(handler.doc) => handler.doc.apply # Awaiting

\* The request has still to enter its decision on s in the log.
WillDecide(s) ==
    /\ handler # Idle /\ handler.doc.sub = s
    /\ \/ handler.pc \in {"check", "execute"}
       \/ handler.pc = "write" /\ handler.op = "reject"
       \/ handler.pc = "write" /\ handler.op = "merge" /\ ~HasExecutor(handler.doc)

\* The request has entered it, and will unlink the open file p.
WillUnlink(p) ==
    /\ handler # Idle /\ handler.id = p
    /\ \/ handler.pc = "unlink"
       \/ handler.pc = "write" /\ handler.op = "merge" /\ HasExecutor(handler.doc)

\* Submission s may yet be decided on in the first round.
MayDecide(s) ==
    \/ drafts[s].pc # "done"
    \/ WillDecide(s)
    \/ \E p \in Id : FiledIn(open, p, s) /\ ~WillUnlink(p)

\* ... and in the second.
MayConfirm(s) ==
    \/ \E p \in Id : FiledIn(merged, p, s) /\ merged[p].apply = Awaiting
    \/ /\ handler # Idle /\ handler.doc.sub = s
       /\ \/ handler.op \in {"mark", "abandon"} /\ handler.pc = "write"
          \/ /\ handler.op = "merge" /\ ~HasExecutor(handler.doc)
             /\ handler.pc \in {"unlink", "commit"}

\* One decision and one more for each mishap.
Paid == 1 + faults + stale

Count(s, round) == Cardinality(Decisions(s, round))

\* Whatever may yet be decided is paid for.
RoomFor(s) ==
    /\ Count(s, FirstRound) <= Paid /\ Count(s, SecondRound) <= Paid
    /\ MayDecide(s) => Count(s, FirstRound) + 1 <= Paid
    /\ MayDecide(s) \/ MayConfirm(s) => Count(s, SecondRound) + 1 <= Paid
    /\ MayDecide(s) /\ MayConfirm(s) => Count(s, SecondRound) + 2 <= Paid

OnceInv == OneId /\ ReplayAddsProof /\ StepsInOrder /\ \A s \in Submission : RoomFor(s)

\* There are finitely many decisions to count.
LEMMA CountIsNat ==
    ASSUME PMTypeOK, NEW s, NEW round
    PROVE  IsFiniteSet(Decisions(s, round)) /\ Count(s, round) \in Nat
<1>1. Decisions(s, round) \in SUBSET (1..Len(log)) /\ Len(log) \in Nat
  BY DEF PMTypeOK, Decisions
<1>2. IsFiniteSet(1..Len(log))
  BY <1>1, FS_Interval
<1>3. IsFiniteSet(Decisions(s, round))
  BY <1>1, <1>2, FS_Subset
<1> QED BY <1>3, FS_CardinalityType DEF Count

\* An entry in the log counts once, in its round, for the submission it is about.
LEMMA EntryCounts ==
    ASSUME PMTypeOK, NEW how, Logged(how), NEW s, NEW round
    PROVE  Count(s, round)' = IF handler.doc.sub = s /\ how \in round
                              THEN Count(s, round) + 1 ELSE Count(s, round)
<1> DEFINE e == [how |-> how, doc |-> handler.doc, by |-> handler.by]
           n == Len(log) + 1
<1>1. /\ DOMAIN log' = DOMAIN log \cup {n}
      /\ n \notin DOMAIN log
      /\ \A i \in DOMAIN log : log'[i] = log[i]
      /\ log'[n] = e
  BY AppendedLog DEF Logged
<1>2. CASE handler.doc.sub = s /\ how \in round
  <2>1. Decisions(s, round)' = Decisions(s, round) \cup {n}
    BY <1>1, <1>2 DEF Decisions
  <2>2. n \notin Decisions(s, round)
    BY <1>1 DEF Decisions
  <2>3. Cardinality(Decisions(s, round) \cup {n}) = Cardinality(Decisions(s, round)) + 1
    BY <2>2, CountIsNat, FS_AddElement
  <2> QED BY <1>2, <2>1, <2>3 DEF Count
<1>3. CASE ~(handler.doc.sub = s /\ how \in round)
  <2>1. Decisions(s, round)' = Decisions(s, round)
    BY <1>1, <1>3 DEF Decisions
  <2> QED BY <1>3, <2>1 DEF Count
<1> QED BY <1>2, <1>3

\* The mishaps are counted.
LEMMA PaidIsNat == ASSUME PMTypeOK, PMTypeOK' PROVE Paid \in Nat /\ Paid' \in Nat
<1>1. faults \in Nat /\ stale \in Nat /\ faults' \in Nat /\ stale' \in Nat
  BY DEF PMTypeOK
<1>2. \A m, n \in Nat : 1 + m + n \in Nat
  OBVIOUS
<1> QED BY <1>1, <1>2 DEF Paid

\* What a step may do to the decisions on s and still leave room for them: let
\* nothing new be decided; pay for one more; or decide what may be decided, so
\* that it no longer may.
LEMMA RoomKept ==
    ASSUME PMTypeOK, PMTypeOK', NEW s, RoomFor(s), Paid' >= Paid,
           NEW first \in {0, 1}, Count(s, FirstRound)' = Count(s, FirstRound) + first,
           NEW other \in {0, 1}, Count(s, SecondRound)' = Count(s, SecondRound) + other,
           \/ /\ first = 0 /\ other = 0
              /\ MayDecide(s)' => MayDecide(s)
              /\ MayConfirm(s)' => MayConfirm(s)
           \/ /\ first = 0 /\ other = 0 /\ Paid' > Paid
              /\ (MayDecide(s)' => MayDecide(s)) \/ (MayConfirm(s)' => MayConfirm(s))
           \/ first = 1 /\ other = 0 /\ MayDecide(s) /\ ~MayDecide(s)'
           \/ /\ first = 1 /\ other = 0 /\ MayDecide(s) /\ Paid' > Paid
              /\ MayConfirm(s)' => MayConfirm(s)
           \/ /\ first = 0 /\ other = 1 /\ MayConfirm(s) /\ ~MayConfirm(s)'
              /\ MayDecide(s)' => MayDecide(s)
    PROVE  RoomFor(s)'
<1>1. Paid \in Nat /\ Paid' \in Nat
  BY PaidIsNat
<1>2. Count(s, FirstRound) \in Nat /\ Count(s, SecondRound) \in Nat
  BY CountIsNat
<1> QED BY <1>1, <1>2 DEF RoomFor

\* A submission stays under its id if nobody new holds it.
LEMMA OneIdKept ==
    ASSUME OneId,
           \A s \in Submission : drafts'[s].pc = "writing" => drafts'[s].doc.sub = s,
           \A s \in Submission : drafts[s].pc = "done" => drafts'[s].pc = "done",
           \A s \in Submission, p \in Id : HeldAt(p, s)' => HeldAt(p, s)
    PROVE  OneId'
BY DEF OneId

\* A step that enters nothing in the log, and lets nothing more be decided or
\* is a mishap.
LEMMA QuietStep ==
    ASSUME PMTypeOK, PMTypeOK', OnceInv, UNCHANGED log, Paid' >= Paid,
           OneId', ReplayAddsProof', StepsInOrder',
           \A s \in Submission :
              \/ /\ MayDecide(s)' => MayDecide(s)
                 /\ MayConfirm(s)' => MayConfirm(s)
              \/ /\ Paid' > Paid
                 /\ (MayDecide(s)' => MayDecide(s)) \/ (MayConfirm(s)' => MayConfirm(s))
    PROVE  OnceInv'
<1>1. ASSUME NEW s \in Submission PROVE RoomFor(s)'
  <2>1. RoomFor(s)
    BY DEF OnceInv
  <2>2. /\ Count(s, FirstRound)' = Count(s, FirstRound)
        /\ Count(s, SecondRound)' = Count(s, SecondRound)
    BY DEF Count, Decisions
  <2>3. /\ Count(s, FirstRound)' = Count(s, FirstRound) + 0
        /\ Count(s, SecondRound)' = Count(s, SecondRound) + 0
    BY <2>2, CountIsNat
  <2> QED BY <2>1, <2>3, RoomKept
<1> QED BY <1>1 DEF OnceInv

\* Nothing is charged where no mishap happens.
LEMMA SamePaid == ASSUME PMTypeOK, PMTypeOK', UNCHANGED <<faults, stale>> PROVE Paid' >= Paid
BY PaidIsNat DEF Paid

\* A mishap is charged.
LEMMA FaultPays ==
    ASSUME PMTypeOK, PMTypeOK', UNCHANGED stale, faults' = faults + 1
    PROVE  Paid' > Paid
<1>1. faults \in Nat /\ stale \in Nat
  BY DEF PMTypeOK
<1> QED BY <1>1 DEF Paid

\* Submitting: a submission is written once, by its own thread.
LEMMA SubmittingKeepsOnce ==
    ASSUME PMTypeOK, PMTypeOK', OnceInv, Submitting
    PROVE  OnceInv'
<1>0. drafts \in [Submission -> Drafts] /\ open \in Files
  BY DEF PMTypeOK
<1>1. ASSUME NEW s0 \in Submission, NEW kind \in Kind, NEW author \in Agent,
             NEW high \in Risk, NEW verified \in BOOLEAN, NEW dashes \in Dashes,
             DraftCaptures(s0, kind, author, high, verified, dashes)
      PROVE  OnceInv'
  <2>1. UNCHANGED <<open, merged, rejected, handler, replay, log, faults, stale>>
    BY <1>1 DEF DraftCaptures, files, history
  <2>2. PICK base : drafts' = [drafts EXCEPT ![s0] =
           [pc |-> "writing", id |-> second,
            doc |-> [[sub |-> s0, kind |-> kind, author |-> author, high |-> high,
                      verified |-> verified, dashes |-> dashes, base |-> NoBase,
                      status |-> "OPEN", apply |-> "NONE"] EXCEPT !.base = base]]]
    BY <1>1 DEF DraftCaptures
  <2>3. drafts'[s0].pc = "writing" /\ drafts'[s0].doc.sub = s0 /\ drafts[s0] = Idle
    BY <1>0, <1>1, <2>2 DEF DraftCaptures
  <2>4. \A s \in Submission : s # s0 => drafts'[s] = drafts[s]
    BY <1>0, <2>2
  <2>5. \A s : \A p : HeldAt(p, s)' => HeldAt(p, s)
    BY <2>1 DEF HeldAt, FiledIn
  <2>6. \A s \in Submission : /\ drafts'[s].pc = "writing" => drafts'[s].doc.sub = s
                              /\ drafts[s].pc = "done" => drafts'[s].pc = "done"
                              /\ drafts'[s].pc = "done" => drafts[s].pc = "done"
    BY <2>3, <2>4 DEF OnceInv, OneId, Idle
  <2>7. OneId'
    BY <2>5, <2>6, OneIdKept DEF OnceInv
  <2>8. ReplayAddsProof' /\ StepsInOrder'
    BY <2>1 DEF OnceInv, ReplayAddsProof, StepsInOrder
  <2>9. \A s \in Submission : /\ MayDecide(s)' => MayDecide(s)
                              /\ MayConfirm(s)' => MayConfirm(s)
    BY <2>1, <2>6 DEF MayDecide, MayConfirm, WillDecide, WillUnlink, FiledIn
  <2> QED BY <2>1, <2>7, <2>8, <2>9, SamePaid, QuietStep
<1>2. ASSUME NEW s0 \in Submission, DraftWrites(s0) PROVE OnceInv'
  <2>1. drafts[s0] \in Drafts /\ drafts[s0].pc = "writing"
    BY <1>0, <1>2 DEF DraftWrites
  <2>2. drafts[s0].id \in Id /\ drafts[s0].doc \in Doc /\ drafts[s0].doc.sub = s0
    BY <2>1 DEF Drafts, Idle, OnceInv, OneId
  <2>3. PICK i \in Id : i = drafts[s0].id
    BY <2>2
  <2>4. PICK d \in Doc : d = drafts[s0].doc
    BY <2>2
  <2>5. /\ UNCHANGED <<merged, rejected, handler, replay, log, faults, stale>>
        /\ \A p \in Id : open'[p] = IF p = i THEN d ELSE open[p]
    BY <1>0, <1>2, <2>3, <2>4 DEF DraftWrites, history, Files
  <2>6. /\ drafts'[s0].pc = "done"
        /\ \A s \in Submission : s # s0 => drafts'[s] = drafts[s]
    BY <1>0, <1>2 DEF DraftWrites
  <2>7. \A s \in Submission, p \in Id :
           HeldAt(p, s)' => HeldAt(p, s) \/ (s = s0 /\ p = i)
    BY <2>2, <2>4, <2>5 DEF HeldAt, FiledIn
  <2>8. \A p \in Id : ~HeldAt(p, s0)
    BY <2>1 DEF OnceInv, OneId
  <2>9. OneId'
    BY <2>6, <2>7, <2>8 DEF OnceInv, OneId
  <2>10. ReplayAddsProof' /\ StepsInOrder'
    BY <2>5 DEF OnceInv, ReplayAddsProof, StepsInOrder
  <2>11. \A s \in Submission : MayConfirm(s)' => MayConfirm(s)
    BY <2>5 DEF MayConfirm, FiledIn
  <2>12. MayDecide(s0)
    BY <2>1 DEF MayDecide
  <2>13. \A s \in Submission \ {s0} : \A p \in Id : FiledIn(open, p, s)' => FiledIn(open, p, s)
    BY <2>2, <2>4, <2>5 DEF FiledIn
  <2>14. \A s \in Submission \ {s0} : MayDecide(s)' => MayDecide(s)
    BY <2>5, <2>6, <2>13 DEF MayDecide, WillDecide, WillUnlink
  <2> QED BY <2>5, <2>9, <2>10, <2>11, <2>12, <2>14, SamePaid, QuietStep
<1> QED BY <1>1, <1>2 DEF Submitting

\* Parsing keeps whose proposal it is, and what is left to apply.
LEMMA ParsedKeeps ==
    ASSUME NEW d \in Doc
    PROVE  Parsed(d).sub = d.sub /\ Parsed(d).apply = d.apply
BY DEF Doc, Parsed

\* A replay brings back what it has read, which is a mishap if it is no longer
\* what is there.
LEMMA ReplayingKeepsOnce ==
    ASSUME PMTypeOK, PMTypeOK', OnceInv, Replaying
    PROVE  OnceInv'
<1>0. UNCHANGED <<handler, log, faults>> /\ UNCHANGED drafts
  BY DEF Replaying, ReplayReads, ReplayLocates, ReplayWrites, history
<1>1. StepsInOrder'
  BY <1>0 DEF OnceInv, StepsInOrder
<1>2. /\ \A s \in Submission : drafts'[s].pc = "writing" => drafts'[s].doc.sub = s
      /\ \A s \in Submission : drafts[s].pc = "done" => drafts'[s].pc = "done"
  BY <1>0 DEF OnceInv, OneId
<1>3. ASSUME UNCHANGED <<files, stale>>, ReplayAddsProof',
             \A s \in Submission, p \in Id : HeldAt(p, s)' => HeldAt(p, s)
      PROVE  OnceInv'
  <2>1. OneId'
    BY <1>2, <1>3, OneIdKept DEF OnceInv
  <2>2. UNCHANGED <<open, merged, rejected>>
    BY <1>3 DEF files
  <2>3. \A s \in Submission : /\ MayDecide(s)' => MayDecide(s)
                              /\ MayConfirm(s)' => MayConfirm(s)
    BY <1>0, <2>2 DEF MayDecide, MayConfirm, WillDecide, WillUnlink, FiledIn
  <2> QED BY <1>0, <1>1, <1>3, <2>1, <2>3, SamePaid, QuietStep
<1>4. ASSUME NEW i \in Id, NEW compiles \in BOOLEAN, ReplayReads(i, compiles)
      PROVE  OnceInv'
  <2>1. Found(i) \in Doc
    BY <1>4, FoundIsDoc DEF ReplayReads, MayRead
  <2>2. PICK w \in Doc : w = Found(i)
    BY <2>1
  <2>3. PICK v : replay' = [pc |-> "replaying", id |-> i, was |-> w,
                            doc |-> [Parsed(w) EXCEPT !.verified = v]]
    BY <1>4, <2>2 DEF ReplayReads
  <2>4. Parsed(w) \in Doc /\ Parsed(w).sub = w.sub /\ Parsed(w).apply = w.apply
    BY ParsedIsDoc, ParsedKeeps
  <2>5. PICK f \in Doc : f = Parsed(w)
    BY <2>4
  <2>6. [f EXCEPT !.verified = v].sub = f.sub /\ [f EXCEPT !.verified = v].apply = f.apply
    BY DEF Doc
  <2>7. replay'.id = i /\ replay'.was = w /\ replay'.doc.sub = w.sub /\ replay'.doc.apply = w.apply
    BY <2>3, <2>4, <2>5, <2>6
  <2>8. ReplayAddsProof'
    BY <2>7 DEF ReplayAddsProof
  <2>9. FiledIn(open, i, w.sub) \/ FiledIn(merged, i, w.sub) \/ FiledIn(rejected, i, w.sub)
    BY <1>4, <2>2 DEF ReplayReads, MayRead, Found, FiledIn
  <2>10. UNCHANGED <<files, stale>>
    BY <1>4 DEF ReplayReads
  <2>11. \A s \in Submission, p \in Id : HeldAt(p, s)' => HeldAt(p, s)
    BY <1>0, <2>7, <2>9, <2>10 DEF HeldAt, FiledIn, files
  <2> QED BY <1>3, <2>8, <2>10, <2>11
<1>5. CASE ReplayLocates
  <2>1. replay \in Replays /\ replay # Idle
    BY <1>5 DEF ReplayLocates, PMTypeOK, Idle
  <2>2. /\ replay'.id = replay.id /\ replay'.was = replay.was /\ replay'.doc = replay.doc
        /\ UNCHANGED <<files, stale>>
    BY <1>5 DEF ReplayLocates, history
  <2>3. ReplayAddsProof'
    BY <2>1, <2>2 DEF OnceInv, ReplayAddsProof
  <2>4. \A s \in Submission, p \in Id : HeldAt(p, s)' => HeldAt(p, s)
    BY <1>0, <2>1, <2>2 DEF HeldAt, FiledIn, files
  <2> QED BY <1>3, <2>2, <2>3, <2>4
<1>6. CASE ReplayWrites
  <2>1. replay \in Replays /\ replay # Idle /\ replay' = Idle
    BY <1>6 DEF ReplayWrites, PMTypeOK, Idle
  <2>2. PICK i \in Id : i = replay.id
    BY <2>1 DEF Replays
  <2>3. PICK w \in Doc : w = replay.was
    BY <2>1 DEF Replays
  <2>4. PICK d \in Doc : d = replay.doc
    BY <2>1 DEF Replays
  <2>5. d.sub = w.sub /\ d.apply = w.apply /\ d # Absent /\ w # Absent
    BY <2>1, <2>3, <2>4, NothingAssumption DEF OnceInv, ReplayAddsProof
  <2>6. open \in Files /\ merged \in Files /\ rejected \in Files
    BY DEF PMTypeOK
  <2>7. /\ open' = open \/ \A p \in Id : open'[p] = IF p = i THEN d ELSE open[p]
        /\ merged' = merged \/ \A p \in Id : merged'[p] = IF p = i THEN d ELSE merged[p]
        /\ rejected' = rejected \/ \A p \in Id : rejected'[p] = IF p = i THEN d ELSE rejected[p]
    BY <1>6, <2>2, <2>4, <2>6 DEF ReplayWrites, WriteOver, Files
  <2>8. HeldAt(i, w.sub)
    BY <2>1, <2>2, <2>3 DEF HeldAt
  <2>9. \A s \in Submission, p \in Id : HeldAt(p, s)' => HeldAt(p, s)
    BY <1>0, <2>1, <2>5, <2>7, <2>8 DEF HeldAt, FiledIn
  <2>10. OneId' /\ ReplayAddsProof'
    BY <1>2, <2>1, <2>9, OneIdKept DEF OnceInv, ReplayAddsProof
  <2>11. ASSUME UNCHANGED open
         PROVE  \A s \in Submission : MayDecide(s)' => MayDecide(s)
    BY <1>0, <2>11 DEF MayDecide, WillDecide, WillUnlink, FiledIn
  <2>12. ASSUME UNCHANGED merged
         PROVE  \A s \in Submission : MayConfirm(s)' => MayConfirm(s)
    BY <1>0, <2>12 DEF MayConfirm, FiledIn
  <2>13. UNCHANGED open \/ UNCHANGED merged
    BY <1>6 DEF ReplayWrites
  <2>14. CASE stale' = stale + 1
    <3>1. Paid' > Paid
      <4>1. faults \in Nat /\ stale \in Nat
        BY DEF PMTypeOK
      <4> QED BY <1>0, <2>14, <4>1 DEF Paid
    <3>2. Paid' >= Paid
      BY <3>1, PaidIsNat
    <3> QED BY <1>0, <1>1, <2>10, <2>11, <2>12, <2>13, <3>1, <3>2, QuietStep
  <2>15. CASE UNCHANGED stale
    <3>1. /\ UNCHANGED open \/ open[i] = w
          /\ UNCHANGED merged \/ merged[i] = w
      BY <1>6, <2>2, <2>3, <2>15 DEF ReplayWrites, PMTypeOK
    <3>2. /\ \A s \in Submission, p \in Id : FiledIn(open, p, s)' => FiledIn(open, p, s)
          /\ \A s \in Submission, p \in Id :
                FiledIn(merged, p, s)' => FiledIn(merged, p, s) /\ merged'[p].apply = merged[p].apply
      BY <2>5, <2>7, <3>1 DEF FiledIn
    <3>3. \A s \in Submission : /\ MayDecide(s)' => MayDecide(s)
                                /\ MayConfirm(s)' => MayConfirm(s)
      BY <1>0, <3>2 DEF MayDecide, MayConfirm, WillDecide, WillUnlink
    <3> QED BY <1>0, <1>1, <2>10, <2>15, <3>3, SamePaid, QuietStep
  <2> QED BY <1>6, <2>14, <2>15 DEF ReplayWrites
<1> QED BY <1>4, <1>5, <1>6 DEF Replaying

\* A request that begins takes up a decision that may still be taken.
LEMMA BeginKeepsOnce ==
    ASSUME PMTypeOK, PMTypeOK', OnceInv, NEW p \in Id, NEW by, NEW doc \in Doc,
           NEW op \in {"merge", "reject", "mark", "abandon"},
           NEW pc \in {"check", "execute", "write"}, Begin(op, p, by, doc, pc),
           \/ /\ op \in {"merge", "reject"}
              /\ FiledIn(open, p, doc.sub)
              /\ pc \in {"check", "execute"} => op = "merge"
              /\ op = "merge" /\ HasExecutor(doc) => doc.apply # Awaiting /\ pc # "write"
           \/ /\ op \in {"mark", "abandon"}
              /\ FiledIn(merged, p, doc.sub) /\ merged[p].apply = Awaiting
              /\ doc.apply # Awaiting /\ pc = "write"
    PROVE  OnceInv'
<1>1. /\ handler = Idle
      /\ handler'.op = op /\ handler'.id = p /\ handler'.doc = doc /\ handler'.pc = pc
      /\ UNCHANGED <<open, merged, rejected, drafts, replay, log, faults, stale>>
  BY DEF Begin, files, history
<1>2. handler' # Idle
  BY <1>1 DEF Idle
<1>3. \A s \in Submission, q \in Id : HeldAt(q, s)' => HeldAt(q, s)
  BY <1>1, <1>2 DEF HeldAt, FiledIn
<1>4. OneId'
  BY <1>1, <1>3, OneIdKept DEF OnceInv, OneId
<1>5. ReplayAddsProof' /\ StepsInOrder'
  BY <1>1 DEF OnceInv, ReplayAddsProof, StepsInOrder
<1>6. ASSUME NEW s \in Submission, MayDecide(s)' PROVE MayDecide(s)
  <2>1. ~\E q \in Id : WillUnlink(q)
    BY <1>1 DEF WillUnlink
  <2>2. CASE WillDecide(s)'
    <3>1. FiledIn(open, p, s)
      BY <1>1, <2>2 DEF WillDecide
    <3> QED BY <2>1, <3>1 DEF MayDecide
  <2>3. CASE ~WillDecide(s)'
    BY <1>1, <1>6, <2>1, <2>3 DEF MayDecide, FiledIn
  <2> QED BY <2>2, <2>3
<1>7. \A s \in Submission : MayConfirm(s)' => MayConfirm(s)
  BY <1>1 DEF MayConfirm, FiledIn
<1> QED BY <1>1, <1>4, <1>5, <1>6, <1>7, SamePaid, QuietStep

\* A decision that begins is one that may be taken.
LEMMA DecidingKeepsOnce ==
    ASSUME PMTypeOK, PMTypeOK', OnceInv, Deciding
    PROVE  OnceInv'
<1>0. PICK p \in Id, by \in Actor :
         \/ \E stored \in 1..3, override \in BOOLEAN : Approve(p, by, stored, override)
         \/ Reject(p, by)
         \/ MarkApplied(p, by)
         \/ AbandonApply(p, by)
  BY DEF Deciding
<1>1. open \in Files /\ merged \in Files
  BY DEF PMTypeOK
<1>2. CASE \E stored \in 1..3, override \in BOOLEAN : Approve(p, by, stored, override)
  <2>1. open[p] \in Doc
    BY <1>1, <1>2 DEF Approve, MayRead, Files
  <2>2. PICK f \in Doc : f = open[p]
    BY <2>1
  <2>3. PICK d \in Doc : d = Parsed(f) /\ d.sub = f.sub
    BY ParsedIsDoc, ParsedKeeps
  <2>4. PICK doc \in Doc : doc = MergedDoc(d)
    BY DocUpdates
  <2>5. doc.sub = f.sub /\ doc.kind = d.kind
    BY <2>3, <2>4, MergedDocKeeps
  <2>6. HasExecutor(doc) => doc.apply # Awaiting
    <3>1. SUFFICES ASSUME HasExecutor(doc) PROVE doc.apply # Awaiting
      OBVIOUS
    <3>2. HasExecutor(d)
      BY <2>5, <3>1 DEF HasExecutor
    <3>3. doc = [d EXCEPT !.status = "MERGED", !.apply = "APPLIED"]
      BY <2>4, <3>2 DEF MergedDoc
    <3>4. doc.apply = "APPLIED"
      BY <3>3 DEF Doc
    <3> QED BY <3>4 DEF Awaiting
  <2>7. Begin("merge", p, by, doc, FirstStep(d))
    BY <1>2, <2>2, <2>3, <2>4 DEF Approve
  <2>8. /\ FirstStep(d) \in {"check", "execute", "write"}
        /\ HasExecutor(doc) => FirstStep(d) # "write"
    BY <2>5 DEF FirstStep, HasExecutor
  <2>9. FiledIn(open, p, doc.sub)
    BY <1>2, <2>2, <2>5 DEF FiledIn, Approve, MayRead
  <2> QED BY <2>6, <2>7, <2>8, <2>9, BeginKeepsOnce
<1>3. CASE Reject(p, by)
  <2>1. open[p] \in Doc
    BY <1>1, <1>3 DEF Reject, MayRead, Files
  <2>2. PICK f \in Doc : f = open[p]
    BY <2>1
  <2>3. PICK d \in Doc : d = Parsed(f) /\ d.sub = f.sub
    BY ParsedIsDoc, ParsedKeeps
  <2>4. PICK doc \in Doc : doc = [d EXCEPT !.status = "REJECTED"]
    BY DocUpdates
  <2>5. doc.sub = f.sub
    BY <2>3, <2>4 DEF Doc
  <2>6. Begin("reject", p, by, doc, "write")
    BY <1>3, <2>2, <2>3, <2>4 DEF Reject
  <2>7. FiledIn(open, p, doc.sub)
    BY <1>3, <2>2, <2>5 DEF FiledIn, Reject, MayRead
  <2> QED BY <2>6, <2>7, BeginKeepsOnce
<1>4. ASSUME NEW op \in {"mark", "abandon"}, NEW ap \in {"MANUALLY_APPLIED", "ABANDONED"},
             AwaitsManualApply(p),
             Begin(op, p, by, [merged[p] EXCEPT !.apply = ap], "write")
      PROVE  OnceInv'
  <2>1. merged[p] \in Doc
    BY <1>1, <1>4 DEF AwaitsManualApply, Files
  <2>2. PICK f \in Doc : f = merged[p]
    BY <2>1
  <2>3. PICK doc \in Doc : doc = [f EXCEPT !.apply = ap]
    BY DocUpdates
  <2>4. doc.sub = f.sub /\ doc.apply # Awaiting
    BY <2>3 DEF Doc, Awaiting
  <2>5. FiledIn(merged, p, doc.sub) /\ merged[p].apply = Awaiting
    BY <1>4, <2>2, <2>4 DEF FiledIn, AwaitsManualApply, Awaiting
  <2> QED BY <1>4, <2>2, <2>3, <2>4, <2>5, BeginKeepsOnce
<1> QED BY <1>0, <1>2, <1>3, <1>4 DEF MarkApplied, AbandonApply

\* What the proposals do not notice leaves everything as it was.
LEMMA UntouchedKeepsOnce ==
    ASSUME PMTypeOK, PMTypeOK', OnceInv,
           UNCHANGED <<files, handler, drafts, replay, log, faults, stale>>
    PROVE  OnceInv'
<1>1. UNCHANGED <<open, merged, rejected, handler, drafts, replay, log, faults, stale>>
  BY DEF files
<1>2. \A s \in Submission, p \in Id : HeldAt(p, s)' => HeldAt(p, s)
  BY <1>1 DEF HeldAt, FiledIn
<1>3. \A s \in Submission : /\ drafts'[s].pc = "writing" => drafts'[s].doc.sub = s
                            /\ drafts[s].pc = "done" => drafts'[s].pc = "done"
  BY <1>1 DEF OnceInv, OneId
<1>4. OneId'
  BY <1>2, <1>3, OneIdKept DEF OnceInv
<1>5. ReplayAddsProof' /\ StepsInOrder'
  BY <1>1 DEF OnceInv, ReplayAddsProof, StepsInOrder
<1>6. \A s \in Submission : /\ MayDecide(s)' => MayDecide(s)
                            /\ MayConfirm(s)' => MayConfirm(s)
  BY <1>1 DEF MayDecide, MayConfirm, WillDecide, WillUnlink, FiledIn
<1> QED BY <1>1, <1>4, <1>5, <1>6, SamePaid, QuietStep

\* A crash is a mishap; the rest of the world does not touch the proposals.
LEMMA WorldKeepsOnce ==
    ASSUME PMTypeOK, PMTypeOK', OnceInv, World
    PROVE  OnceInv'
<1>1. CASE Crash
  <2>1. /\ handler' = Idle /\ replay' = Idle /\ faults' = faults + 1
        /\ UNCHANGED <<open, merged, rejected, log, stale>>
    BY <1>1 DEF Crash, files
  <2>2. \A s \in Submission : drafts'[s] = IF drafts[s].pc = "writing"
                                           THEN [pc |-> "done"] ELSE drafts[s]
    BY <1>1 DEF Crash
  <2>3. \A s \in Submission, p \in Id : HeldAt(p, s)' => HeldAt(p, s)
    BY <2>1 DEF HeldAt, FiledIn
  <2>4. OneId'
    BY <2>2, <2>3, OneIdKept DEF OnceInv, OneId
  <2>5. ReplayAddsProof' /\ StepsInOrder'
    BY <2>1 DEF ReplayAddsProof, StepsInOrder
  <2>6. \A s \in Submission : MayConfirm(s)' => MayConfirm(s)
    BY <2>1 DEF MayConfirm, FiledIn
  <2>7. Paid' > Paid
    BY <2>1, FaultPays
  <2>8. Paid' >= Paid
    BY <2>7, PaidIsNat
  <2> QED BY <2>1, <2>4, <2>5, <2>6, <2>7, <2>8, QuietStep
<1>2. CASE UNCHANGED <<files, handler, drafts, replay, log, faults, stale>>
  BY <1>2, UntouchedKeepsOnce
<1> QED BY <1>1, <1>2 DEF World, OthersEdit, OthersToggle, Tick, history

\* A request goes on with what it began with, or is over.
LEMMA RequestGoesOn ==
    ASSUME PMTypeOK, CarryingOut
    PROVE  /\ handler # Idle
           /\ UNCHANGED <<drafts, replay>>
           /\ \/ handler' = Idle
              \/ /\ handler' # Idle /\ handler'.id = handler.id
                 /\ handler'.op = handler.op /\ handler'.doc = handler.doc
                 /\ \/ handler.pc = "check" /\ handler'.pc = "execute"
                    \/ handler.pc = "execute" /\ handler'.pc = "write"
                    \/ handler.pc = "write" /\ handler'.pc = IF handler.op \in {"merge", "reject"}
                                                             THEN "unlink" ELSE "commit"
                    \/ handler.pc = "unlink" /\ handler'.pc = IF handler.op = "reject"
                                                              THEN "report" ELSE "commit"
                    \/ handler.pc = "commit" /\ handler'.pc = "report"
<1>1. handler # Idle
  BY DEF CarryingOut, CheckPasses, CheckRefuses, Execute, ExecuteUnanswered, WriteVerdict,
         UnlinkOpen, Commit, Report, StepRaises, Idle
<1>2. UNCHANGED <<drafts, replay>>
  BY DEF CarryingOut, CheckPasses, CheckRefuses, Execute, ExecuteUnanswered, WriteVerdict,
         UnlinkOpen, Commit, Report, StepRaises
<1>3. \/ Proceed("idle")
      \/ handler.pc = "check" /\ Proceed("execute")
      \/ handler.pc = "execute" /\ Proceed("write")
      \/ /\ handler.pc = "write"
         /\ \/ handler.op \in {"merge", "reject"} /\ Proceed("unlink")
            \/ handler.op \notin {"merge", "reject"} /\ Proceed("commit")
      \/ /\ handler.pc = "unlink"
         /\ \/ handler.op = "reject" /\ Proceed("report")
            \/ handler.op # "reject" /\ Proceed("commit")
      \/ handler.pc = "commit" /\ Proceed("report")
  BY DEF CarryingOut, CheckPasses, CheckRefuses, Execute, ExecuteUnanswered, WriteVerdict,
         UnlinkOpen, Commit, Report, StepRaises
<1>4. Proceed("idle") => handler' = Idle
  BY DEF Proceed
<1>5. ASSUME NEW pc \in {"execute", "write", "unlink", "commit", "report"}, Proceed(pc)
      PROVE  /\ handler' # Idle /\ handler'.id = handler.id /\ handler'.pc = pc
             /\ handler'.op = handler.op /\ handler'.doc = handler.doc
  BY <1>1, <1>5, ProceedKeeps DEF Idle
<1> QED BY <1>1, <1>2, <1>3, <1>4, <1>5

\* A request writes and removes the file it is about, and no other.
LEMMA RequestWritesItsFile ==
    ASSUME PMTypeOK, CarryingOut, NEW p \in Id
    PROVE  /\ open'[p] = open[p] \/ open'[p] = Absent
           /\ merged'[p] = merged[p] \/ (p = handler.id /\ merged'[p] = handler.doc)
           /\ rejected'[p] = rejected[p] \/ (p = handler.id /\ rejected'[p] = handler.doc)
<1>1. open \in Files /\ merged \in Files /\ rejected \in Files
  BY DEF PMTypeOK
<1>2. UNCHANGED files \/ UnlinkOpen \/ WriteVerdict \/ Commit
  BY DEF CarryingOut, CheckPasses, CheckRefuses, Execute, ExecuteUnanswered, Report, StepRaises
<1>3. CASE UNCHANGED files
  BY <1>3 DEF files
<1>4. CASE UnlinkOpen
  <2>1. /\ open' = [open EXCEPT ![handler.id] = Absent]
        /\ UNCHANGED <<merged, rejected>>
    BY <1>4 DEF UnlinkOpen
  <2> QED BY <1>1, <2>1 DEF Files
<1>5. CASE WriteVerdict \/ Commit
  <2>1. /\ merged' = [merged EXCEPT ![handler.id] = handler.doc] \/ UNCHANGED merged
        /\ rejected' = [rejected EXCEPT ![handler.id] = handler.doc] \/ UNCHANGED rejected
        /\ UNCHANGED open
    BY <1>5 DEF WriteVerdict, Commit
  <2> QED BY <1>1, <2>1 DEF Files
<1> QED BY <1>2, <1>3, <1>4, <1>5

\* Carrying out a decision moves no submission to another id.
LEMMA CarryingOutHolds ==
    ASSUME PMTypeOK, OnceInv, CarryingOut
    PROVE  OneId' /\ ReplayAddsProof' /\ StepsInOrder'
<1>1. /\ handler # Idle /\ UNCHANGED <<drafts, replay>>
      /\ handler' = Idle \/ (handler'.id = handler.id /\ handler'.doc = handler.doc)
  BY RequestGoesOn
<1>2. \A s \in Submission, p \in Id : HeldAt(p, s)' => HeldAt(p, s)
  <2> SUFFICES ASSUME NEW s \in Submission, NEW p \in Id, HeldAt(p, s)' PROVE HeldAt(p, s)
    OBVIOUS
  <2>1. CASE p = handler.id /\ handler.doc.sub = s
    BY <1>1, <2>1 DEF HeldAt
  <2>2. CASE ~(p = handler.id /\ handler.doc.sub = s)
    BY <1>1, <2>2, RequestWritesItsFile DEF HeldAt, FiledIn
  <2> QED BY <2>1, <2>2
<1>3. \A s \in Submission : /\ drafts'[s].pc = "writing" => drafts'[s].doc.sub = s
                            /\ drafts[s].pc = "done" => drafts'[s].pc = "done"
  BY <1>1 DEF OnceInv, OneId
<1>4. OneId' /\ ReplayAddsProof'
  BY <1>1, <1>2, <1>3, OneIdKept DEF OnceInv, ReplayAddsProof
<1>5. StepsInOrder'
  <2>1. StepsInOrder
    BY DEF OnceInv
  <2>2. handler \in Handlers
    BY <1>1, HandlerIsRequest
  <2>3. handler.op \in {"merge", "reject", "mark", "abandon"}
    BY <2>2 DEF Handlers
  <2>4. CASE handler' = Idle
    BY <2>4 DEF StepsInOrder
  <2>5. CASE handler' # Idle
    BY <1>1, <2>1, <2>3, <2>5, RequestGoesOn DEF StepsInOrder, HasExecutor
  <2> QED BY <2>4, <2>5
<1> QED BY <1>4, <1>5

\* A request that enters its decision in the log had still to take it, and
\* does not come back to it unless that is paid for.
LEMMA DecisionStep ==
    ASSUME PMTypeOK, PMTypeOK', OnceInv, CarryingOut, NEW how, Logged(how), Paid' >= Paid,
           \A s \in Submission \ {handler.doc.sub} : /\ MayDecide(s)' => MayDecide(s)
                                                     /\ MayConfirm(s)' => MayConfirm(s),
           NEW s0 \in Submission, s0 = handler.doc.sub,
           \/ how \in FirstRound /\ MayDecide(s0) /\ ~MayDecide(s0)'
           \/ /\ how \in FirstRound /\ MayDecide(s0) /\ Paid' > Paid
              /\ MayConfirm(s0)' => MayConfirm(s0)
           \/ /\ how \in SecondRound /\ MayConfirm(s0) /\ ~MayConfirm(s0)'
              /\ MayDecide(s0)' => MayDecide(s0)
    PROVE  OnceInv'
<1>0. how \in FirstRound => how \notin SecondRound
  BY DEF FirstRound, SecondRound
<1>1. ASSUME NEW s \in Submission PROVE RoomFor(s)'
  <2>1. RoomFor(s)
    BY DEF OnceInv
  <2>2. Count(s, FirstRound) \in Nat /\ Count(s, SecondRound) \in Nat
    BY CountIsNat
  <2>3. /\ Count(s, FirstRound)' = IF s0 = s /\ how \in FirstRound
                                   THEN Count(s, FirstRound) + 1 ELSE Count(s, FirstRound)
        /\ Count(s, SecondRound)' = IF s0 = s /\ how \in SecondRound
                                    THEN Count(s, SecondRound) + 1 ELSE Count(s, SecondRound)
    <3>1. Count(s, FirstRound)' = IF s0 = s /\ how \in FirstRound
                                  THEN Count(s, FirstRound) + 1 ELSE Count(s, FirstRound)
      BY EntryCounts
    <3>2. Count(s, SecondRound)' = IF s0 = s /\ how \in SecondRound
                                   THEN Count(s, SecondRound) + 1 ELSE Count(s, SecondRound)
      BY EntryCounts
    <3> QED BY <3>1, <3>2
  <2>4. CASE s # s0
    <3>1. /\ Count(s, FirstRound)' = Count(s, FirstRound) + 0
          /\ Count(s, SecondRound)' = Count(s, SecondRound) + 0
      BY <2>2, <2>3, <2>4
    <3>2. /\ MayDecide(s)' => MayDecide(s)
          /\ MayConfirm(s)' => MayConfirm(s)
      BY <2>4
    <3> QED BY <2>1, <3>1, <3>2, RoomKept
  <2>5. CASE s = s0 /\ how \in FirstRound
    <3>1. /\ Count(s, FirstRound)' = Count(s, FirstRound) + 1
          /\ Count(s, SecondRound)' = Count(s, SecondRound) + 0
      BY <1>0, <2>2, <2>3, <2>5
    <3> QED BY <1>0, <2>1, <2>5, <3>1, RoomKept
  <2>6. CASE s = s0 /\ how \in SecondRound
    <3>1. /\ Count(s, FirstRound)' = Count(s, FirstRound) + 0
          /\ Count(s, SecondRound)' = Count(s, SecondRound) + 1
      BY <1>0, <2>2, <2>3, <2>6
    <3> QED BY <1>0, <2>1, <2>6, <3>1, RoomKept
  <2> QED BY <2>4, <2>5, <2>6
<1> QED BY <1>1, CarryingOutHolds DEF OnceInv

\* Carrying out a decision takes it once, unless the call goes unanswered.
LEMMA CarryingOutKeepsOnce ==
    ASSUME PMTypeOK, PMTypeOK', OnceInv, CarryingOut
    PROVE  OnceInv'
<1>1. /\ handler # Idle /\ handler \in Handlers
      /\ UNCHANGED <<drafts, replay>>
      /\ OneId' /\ ReplayAddsProof' /\ StepsInOrder'
  BY RequestGoesOn, HandlerIsRequest, CarryingOutHolds
<1>2. PICK i \in Id : i = handler.id
  BY <1>1, HandlerIsRequest
<1>3. PICK d \in Doc : d = handler.doc
  BY <1>1, HandlerIsRequest
<1>4. PICK s0 \in Submission : s0 = d.sub
  BY DEF Doc
<1>5. handler.op \in {"merge", "reject", "mark", "abandon"}
  BY <1>1 DEF Handlers
<1>6. HeldAt(i, s0) /\ drafts[s0].pc = "done"
  BY <1>1, <1>2, <1>3, <1>4 DEF HeldAt, OnceInv, OneId
<1>7. \A p \in Id : /\ FiledIn(open, p, s0) => p = i
                    /\ FiledIn(merged, p, s0) => p = i
  BY <1>6 DEF HeldAt, OnceInv, OneId
<1>8. /\ handler.pc \in {"check", "execute"} => handler.op = "merge"
      /\ handler.pc = "commit" => handler.op # "reject"
      /\ handler.op \in {"mark", "abandon"} => d.apply # Awaiting
      /\ handler.op = "merge" /\ HasExecutor(d) => d.apply # Awaiting
  BY <1>1, <1>3 DEF OnceInv, StepsInOrder
<1>9. \/ handler' = Idle
      \/ /\ handler' # Idle /\ handler'.id = i
         /\ handler'.op = handler.op /\ handler'.doc = d
  BY <1>2, <1>3, RequestGoesOn
<1>10. \A p \in Id : /\ open'[p] = open[p] \/ open'[p] = Absent
                     /\ merged'[p] = merged[p] \/ (p = i /\ merged'[p] = d)
  BY <1>2, <1>3, RequestWritesItsFile
<1>11. \A s, p : FiledIn(open, p, s)' => (p \in Id => FiledIn(open, p, s))
  BY <1>10 DEF FiledIn
<1>12. ASSUME UNCHANGED <<log, faults, stale>>,
              \A s \in Submission : /\ MayDecide(s)' => MayDecide(s)
                                    /\ MayConfirm(s)' => MayConfirm(s)
       PROVE  OnceInv'
  BY <1>1, <1>12, SamePaid, QuietStep
<1>13. CASE CheckPasses
  <2>1. /\ UNCHANGED <<open, merged, log, faults, stale>>
        /\ handler.pc = "check" /\ handler'.pc = "execute"
    BY <1>1, <1>13, ProceedKeeps DEF CheckPasses, files, history
  <2>2. \A s \in Submission : /\ MayDecide(s)' => MayDecide(s)
                              /\ MayConfirm(s)' => MayConfirm(s)
    BY <1>1, <1>3, <1>9, <2>1 DEF MayDecide, MayConfirm, WillDecide, WillUnlink, FiledIn, Idle
  <2> QED BY <1>12, <2>1, <2>2
<1>14. CASE CheckRefuses \/ Report
  <2>1. /\ UNCHANGED <<open, merged, log, faults, stale>>
        /\ handler.pc \in {"check", "report"} /\ handler' = Idle
    BY <1>14 DEF CheckRefuses, Report, Proceed, files, history
  <2>2. \A s \in Submission : /\ MayDecide(s)' => MayDecide(s)
                              /\ MayConfirm(s)' => MayConfirm(s)
    BY <1>1, <2>1 DEF MayDecide, MayConfirm, WillDecide, WillUnlink, FiledIn
  <2> QED BY <1>12, <2>1, <2>2
<1>15. CASE StepRaises
  <2>1. UNCHANGED <<open, merged, log, stale>> /\ faults' = faults + 1 /\ handler' = Idle
    BY <1>15 DEF StepRaises, Proceed, files
  <2>2. \A s \in Submission : MayConfirm(s)' => MayConfirm(s)
    BY <2>1 DEF MayConfirm, FiledIn
  <2>3. Paid' > Paid
    BY <2>1, FaultPays
  <2>4. Paid' >= Paid
    BY <2>3, PaidIsNat
  <2> QED BY <1>1, <2>1, <2>2, <2>3, <2>4, QuietStep
<1>16. CASE UnlinkOpen
  <2>1. /\ UNCHANGED <<merged, log, faults, stale>>
        /\ open'[i] = Absent
        /\ handler.pc = "unlink"
        /\ handler' = Idle \/ handler'.pc \in {"report", "commit"}
    BY <1>1, <1>2, <1>16, RequestGoesOn DEF UnlinkOpen, PMTypeOK, Files, history
  <2>2. ASSUME NEW s \in Submission, MayDecide(s)' PROVE MayDecide(s)
    <3>1. ~WillDecide(s)'
      BY <2>1 DEF WillDecide
    <3>2. \A p \in Id : FiledIn(open, p, s)' => FiledIn(open, p, s) /\ ~WillUnlink(p)
      BY <1>2, <1>11, <2>1 DEF FiledIn, WillUnlink
    <3> QED BY <1>1, <2>2, <3>1, <3>2 DEF MayDecide
  <2>3. \A s \in Submission : MayConfirm(s)' => MayConfirm(s)
    BY <1>1, <1>3, <1>9, <2>1 DEF MayConfirm, FiledIn
  <2> QED BY <1>12, <2>1, <2>2, <2>3
<1>17. CASE Commit
  <2>1. /\ UNCHANGED <<open, log, faults, stale>>
        /\ handler.pc = "commit"
        /\ handler' = Idle \/ handler'.pc = "report"
    BY <1>17, RequestGoesOn DEF Commit, history
  <2>2. \A s \in Submission : MayDecide(s)' => MayDecide(s)
    BY <1>1, <2>1 DEF MayDecide, WillDecide, WillUnlink, FiledIn
  <2>3. ASSUME NEW s \in Submission, MayConfirm(s)' PROVE MayConfirm(s)
    <3>1. PICK p \in Id : FiledIn(merged, p, s)' /\ merged'[p].apply = Awaiting
      BY <2>1, <2>3 DEF MayConfirm
    <3>2. CASE merged'[p] = merged[p]
      BY <3>1, <3>2 DEF MayConfirm, FiledIn
    <3>3. CASE p = i /\ merged'[p] = d
      <4>1. d.sub = s /\ d.apply = Awaiting
        BY <3>1, <3>3 DEF FiledIn
      <4>2. handler.op = "merge" /\ ~HasExecutor(d)
        BY <1>5, <1>8, <2>1, <4>1
      <4> QED BY <1>1, <1>3, <2>1, <4>1, <4>2 DEF MayConfirm
    <3> QED BY <1>10, <3>2, <3>3
  <2> QED BY <1>12, <2>1, <2>2, <2>3
<1>18. CASE Execute \/ ExecuteUnanswered
  <2>1. /\ UNCHANGED <<open, merged, stale>>
        /\ handler.pc = "execute" /\ handler.op = "merge" /\ HasExecutor(d)
        /\ Logged("executed")
    BY <1>3, <1>8, <1>18 DEF Execute, ExecuteUnanswered, files, PMTypeOK
  <2>2. MayDecide(s0)
    BY <1>1, <1>3, <1>4, <2>1 DEF MayDecide, WillDecide
  <2>3. "executed" \in FirstRound
    BY DEF FirstRound
  <2>4. \A p : ~WillUnlink(p)
    BY <2>1 DEF WillUnlink
  <2>5. handler' = Idle \/ handler'.pc = "write"
    BY <2>1, RequestGoesOn
  <2>6. \A s \in Submission : ~WillDecide(s)'
    BY <1>3, <1>9, <2>1, <2>5 DEF WillDecide, HasExecutor
  <2>7. \A s \in Submission \ {s0} : MayDecide(s)' => MayDecide(s)
    BY <1>1, <2>1, <2>4, <2>6 DEF MayDecide, FiledIn
  <2>8. \A s \in Submission : MayConfirm(s)' => MayConfirm(s)
    BY <1>3, <1>9, <2>1, <2>5 DEF MayConfirm, FiledIn, HasExecutor
  <2>9. CASE Execute
    <3>1. UNCHANGED faults /\ handler' # Idle /\ handler'.pc = "write"
      BY <1>1, <2>9, ProceedKeeps DEF Execute, Idle
    <3>2. WillUnlink(i)'
      BY <1>9, <2>1, <3>1 DEF WillUnlink, HasExecutor
    <3>3. ~MayDecide(s0)'
      BY <1>1, <1>6, <1>7, <1>11, <2>6, <3>2 DEF MayDecide
    <3>4. Paid' >= Paid
      BY <2>1, <3>1, SamePaid
    <3> QED BY <1>3, <1>4, <2>1, <2>2, <2>3, <2>7, <2>8, <3>3, <3>4, DecisionStep
  <2>10. CASE ExecuteUnanswered
    <3>1. Paid' > Paid
      BY <2>1, <2>10, FaultPays DEF ExecuteUnanswered
    <3>2. Paid' >= Paid
      BY <3>1, PaidIsNat
    <3> QED BY <1>3, <1>4, <2>1, <2>2, <2>3, <2>7, <2>8, <3>1, <3>2, DecisionStep
  <2> QED BY <1>18, <2>9, <2>10
<1>19. CASE WriteVerdict
  <2>1. /\ UNCHANGED <<open, faults, stale>> /\ handler.pc = "write"
        /\ \/ handler.op = "reject" /\ UNCHANGED merged
           \/ handler.op # "reject" /\ merged'[i] = d
    BY <1>2, <1>3, <1>19 DEF WriteVerdict, PMTypeOK, Files
  <2>2. handler' # Idle
        /\ handler'.pc = IF handler.op \in {"merge", "reject"} THEN "unlink" ELSE "commit"
    <3>1. CASE handler.op \in {"merge", "reject"}
      BY <1>1, <1>19, <3>1, ProceedKeeps DEF WriteVerdict, Idle
    <3>2. CASE handler.op \notin {"merge", "reject"}
      BY <1>1, <1>19, <3>2, ProceedKeeps DEF WriteVerdict, Idle
    <3> QED BY <3>1, <3>2
  <2>3. \A s \in Submission : ~WillDecide(s)'
    BY <2>2 DEF WillDecide
  <2>4. \A p : WillUnlink(p) => WillUnlink(p)'
    BY <1>2, <1>9, <2>1, <2>2 DEF WillUnlink
  <2>5. \A s \in Submission : MayDecide(s)' => MayDecide(s)
    BY <1>1, <2>1, <2>3, <2>4 DEF MayDecide, FiledIn
  <2>6. \A s \in Submission \ {s0} : MayConfirm(s)' => MayConfirm(s)
    BY <1>3, <1>4, <1>9, <1>10 DEF MayConfirm, FiledIn
  <2>7. Paid' >= Paid
    BY <2>1, SamePaid
  <2>8. CASE handler.op \in {"merge", "reject"}
    <3>1. WillUnlink(i)'
      BY <1>9, <2>2, <2>8 DEF WillUnlink
    <3>2. ~MayDecide(s0)'
      BY <1>1, <1>6, <1>7, <1>11, <2>3, <3>1 DEF MayDecide
    <3>3. CASE handler.op = "merge" /\ HasExecutor(d)
      <4>1. UNCHANGED log
        BY <1>3, <1>19, <3>3 DEF WriteVerdict
      <4>2. d.apply # Awaiting
        BY <1>8, <3>3
      <4>3. MayConfirm(s0)' => MayConfirm(s0)
        BY <1>9, <1>10, <2>2, <3>3, <4>2 DEF MayConfirm, FiledIn
      <4> QED BY <1>12, <2>1, <2>5, <2>6, <4>1, <4>3
    <3>4. CASE ~(handler.op = "merge" /\ HasExecutor(d))
      <4>1. PICK how \in {"approved", "rejected"} : Logged(how)
        BY <1>3, <1>19, <2>8, <3>4 DEF WriteVerdict
      <4>2. MayDecide(s0)
        BY <1>1, <1>3, <1>4, <2>1, <2>8, <3>4 DEF MayDecide, WillDecide
      <4>3. how \in FirstRound
        BY DEF FirstRound
      <4> QED BY <1>3, <1>4, <2>5, <2>6, <2>7, <3>2, <4>1, <4>2, <4>3, DecisionStep
    <3> QED BY <3>3, <3>4
  <2>9. CASE handler.op \in {"mark", "abandon"}
    <3>1. PICK how \in {"confirmed", "abandoned"} : Logged(how)
      BY <1>19, <2>9 DEF WriteVerdict
    <3>2. how \in SecondRound
      BY DEF SecondRound
    <3>3. MayConfirm(s0)
      BY <1>1, <1>3, <1>4, <2>1, <2>9 DEF MayConfirm
    <3>4. d.apply # Awaiting /\ merged'[i] = d
      BY <1>8, <2>1, <2>9
    <3>5. \A p \in Id : FiledIn(merged, p, s0)' => p = i
      BY <1>7, <1>10 DEF FiledIn
    <3>6. ~MayConfirm(s0)'
      BY <1>9, <2>2, <2>9, <3>4, <3>5 DEF MayConfirm
    <3> QED BY <1>3, <1>4, <2>5, <2>6, <2>7, <3>1, <3>2, <3>3, <3>6, DecisionStep
  <2> QED BY <1>5, <2>8, <2>9
<1> QED BY <1>13, <1>14, <1>15, <1>16, <1>17, <1>18, <1>19 DEF CarryingOut

\* Every step keeps what may still be decided within what is paid for.
LEMMA StepKeepsOnce ==
    ASSUME PMTypeOK, PMTypeOK', OnceInv, [PMNext]_vars
    PROVE  OnceInv'
<1>1. CASE UNCHANGED vars
  BY <1>1, UntouchedKeepsOnce DEF vars, history
<1> QED BY <1>1, SubmittingKeepsOnce, DecidingKeepsOnce, CarryingOutKeepsOnce,
           ReplayingKeepsOnce, WorldKeepsOnce DEF PMNext

\* At first every submission may be decided once.
LEMMA OnceAtFirst == PMInit => OnceInv
<1> SUFFICES ASSUME PMInit PROVE OnceInv
  OBVIOUS
<1>1. /\ handler = Idle /\ replay = Idle
      /\ \A s \in Submission : drafts[s] = Idle
      /\ \A p \in Id : open[p] = Absent /\ merged[p] = Absent /\ rejected[p] = Absent
      /\ faults = 0 /\ stale = 0 /\ log = <<>>
  BY DEF PMInit, NoFiles
<1>2. OneId /\ ReplayAddsProof /\ StepsInOrder
  BY <1>1 DEF OneId, HeldAt, FiledIn, ReplayAddsProof, StepsInOrder, Idle
<1>3. ASSUME NEW s \in Submission PROVE RoomFor(s)
  <2>1. ~MayConfirm(s)
    BY <1>1 DEF MayConfirm, FiledIn
  <2>2. Decisions(s, FirstRound) = {} /\ Decisions(s, SecondRound) = {}
    BY <1>1 DEF Decisions
  <2>3. Count(s, FirstRound) = 0 /\ Count(s, SecondRound) = 0
    BY <2>2, FS_EmptySet DEF Count
  <2>4. Paid = 1
    BY <1>1 DEF Paid
  <2> QED BY <2>1, <2>3, <2>4 DEF RoomFor
<1> QED BY <1>2, <1>3 DEF OnceInv

\* However many agents submit and whoever decides, a proposal is decided on and
\* carried out at most once in each round, and once more for every crash, error,
\* unanswered call or stale replay.
THEOREM DecidedOncePerMishap == PMSpec => []DecidedOnce
<1>1. PMTypeOK /\ OnceInv => DecidedOnce
  <2> SUFFICES ASSUME PMTypeOK, OnceInv PROVE DecidedOnce
    OBVIOUS
  <2>1. \A s \in Submission : Count(s, FirstRound) <= Paid /\ Count(s, SecondRound) <= Paid
    BY DEF OnceInv, RoomFor
  <2> QED BY <2>1 DEF DecidedOnce, Count, Paid, FirstRound, SecondRound
<1> QED BY <1>1, OnceAtFirst, StepKeepsOnce, TypeCorrect, PTL DEF PMSpec

-----------------------------------------------------------------------------
(* The manager implements the life of a proposal *)

\* A proposal that waits to be applied by hand was approved, and that is in the log.
WaitsRightly(entries, d) == d.apply = Awaiting => Grounded(entries, d.sub, "APPROVED")

WaitsRightlyIn(dir) == \A p \in Id : dir[p] # Absent => WaitsRightly(log, dir[p])

\* Wherever a proposal waits: in a file, in a replay, in the request that
\* approved it and has logged that, or in one that is about to settle it.
WaitInv ==
    /\ WaitsRightlyIn(open) /\ WaitsRightlyIn(merged) /\ WaitsRightlyIn(rejected)
    /\ \A s \in Submission : drafts[s].pc = "writing" => drafts[s].doc.apply = "NONE"
    /\ replay # Idle => WaitsRightly(log, replay.doc)
    /\ handler # Idle =>
          /\ handler.op \in {"mark", "abandon"} => Grounded(log, handler.doc.sub, "APPROVED")
          /\ (handler.op = "merge" /\ handler.pc = "write") \/ WaitsRightly(log, handler.doc)

\* What the abstract specification sees of an entry, and of the log.
Seen(e) == [sub |-> e.doc.sub, how |-> e.how]

SeenLog == [i \in DOMAIN log |-> Seen(log[i])]

\* Both specifications count in the same way.
LEMMA SameCardinality == \A S : Life!Cardinality(S) = Cardinality(S)
BY DEF Life!Cardinality, Cardinality

\* ... the same decisions.
LEMMA TakenIsDecided ==
    \A s, kinds : Life!Taken(s, kinds) = Decisions(s, kinds)
BY DEF Life!Taken, Decisions

\* An entry is seen at the end of what was seen before.
LEMMA SeenAppends ==
    ASSUME PMTypeOK, NEW how, Logged(how)
    PROVE  SeenLog' = Append(SeenLog, [sub |-> handler.doc.sub, how |-> how])
<1> DEFINE e == [how |-> how, doc |-> handler.doc, by |-> handler.by]
<1>1. /\ log \in Seq(Entries) /\ Len(log) \in Nat /\ DOMAIN log = 1..Len(log)
      /\ log' = Append(log, e)
  BY DEF PMTypeOK, Logged
<1>2. /\ DOMAIN log' = 1..(Len(log) + 1)
      /\ \A i \in DOMAIN log : log'[i] = log[i]
      /\ log'[Len(log) + 1] = e
  BY <1>1, AppendedLog
<1>3. Seen(e) = [sub |-> handler.doc.sub, how |-> how]
  BY DEF Seen
<1> DEFINE S == {Seen(log[i]) : i \in DOMAIN log} \cup {Seen(e)}
<1>4. SeenLog \in [1..Len(log) -> S]
  BY <1>1 DEF SeenLog
<1>5. SeenLog \in Seq(S) /\ Len(SeenLog) = Len(log)
  <2> HIDE DEF S
  <2> QED BY <1>1, <1>4, SeqDef, LenProperties
<1>6. Seen(e) \in S
  OBVIOUS
<1>7. /\ Append(SeenLog, Seen(e)) \in Seq(S) /\ Len(Append(SeenLog, Seen(e))) = Len(log) + 1
      /\ \A i \in 1..Len(log) : Append(SeenLog, Seen(e))[i] = SeenLog[i]
      /\ Append(SeenLog, Seen(e))[Len(log) + 1] = Seen(e)
  <2> HIDE DEF S, e
  <2> QED BY <1>5, <1>6, AppendProperties
<1>8. SeenLog' = [i \in 1..(Len(log) + 1) |-> Seen(log'[i])]
  BY <1>2 DEF SeenLog
<1>9. /\ \A i \in 1..Len(log) : SeenLog'[i] = SeenLog[i]
      /\ SeenLog'[Len(log) + 1] = Seen(e)
  <2> HIDE DEF S, e
  <2> QED BY <1>1, <1>2, <1>8 DEF SeenLog
<1>10. \A i \in 1..(Len(log) + 1) : i \in 1..Len(log) \/ i = Len(log) + 1
  BY <1>1
<1>11. SeenLog' \in Seq(S) /\ Len(SeenLog') = Len(log) + 1
  <2> HIDE DEF S, e
  <2>1. \A i \in 1..Len(log) : SeenLog[i] \in S
    BY <1>4
  <2>2. SeenLog' \in [1..(Len(log) + 1) -> S]
    BY <1>6, <1>8, <1>9, <1>10, <2>1
  <2> QED BY <1>1, <2>2, SeqDef, LenProperties
<1>12. SeenLog' = Append(SeenLog, Seen(e))
  <2> HIDE DEF S, e
  <2> QED BY <1>7, <1>9, <1>10, <1>11, SeqEqual
<1> QED BY <1>3, <1>12

\* The log is only added to.
LEMMA LogGrows ==
    ASSUME [PMNext]_vars
    PROVE  UNCHANGED log \/ \E how : Logged(how)
<1>1. CASE Submitting \/ Replaying \/ World \/ UNCHANGED vars
  BY <1>1, SubmittingFrame, ReplayingFrame, WorldFrame DEF vars, history
<1>2. CASE Deciding
  BY <1>2 DEF Deciding, Approve, Reject, MarkApplied, AbandonApply, Begin, history
<1>3. CASE CarryingOut
  BY <1>3 DEF CarryingOut, CheckPasses, CheckRefuses, Execute, ExecuteUnanswered, WriteVerdict,
              UnlinkOpen, Commit, Report, StepRaises, history
<1> QED BY <1>1, <1>2, <1>3 DEF PMNext

\* What waits rightly goes on doing so.
LEMMA WaitStays ==
    ASSUME PMTypeOK, [PMNext]_vars
    PROVE  /\ \A d : WaitsRightly(log, d) => WaitsRightly(log', d)
           /\ \A s : Grounded(log, s, "APPROVED") => Grounded(log', s, "APPROVED")
BY LogGrows, GroundsStay DEF WaitsRightly

\* A directory in which every file is as it was or a proposal that waits rightly.
LEMMA DirKeepsWaiting ==
    ASSUME PMTypeOK, [PMNext]_vars, NEW dir, NEW new, WaitsRightlyIn(dir),
           \A p \in Id : new[p] = dir[p] \/ new[p] = Absent \/ WaitsRightly(log', new[p])
    PROVE  \A p \in Id : new[p] # Absent => WaitsRightly(log', new[p])
<1> SUFFICES ASSUME NEW p \in Id, new[p] # Absent PROVE WaitsRightly(log', new[p])
  OBVIOUS
<1>1. CASE new[p] = dir[p]
  <2>1. WaitsRightly(log, new[p])
    BY <1>1 DEF WaitsRightlyIn
  <2> QED BY <2>1, WaitStays
<1> QED BY <1>1

\* All files are where they were, or hold what waits rightly.
LEMMA FilesKeepWaiting ==
    ASSUME PMTypeOK, [PMNext]_vars, WaitInv,
           \A p \in Id :
              /\ open'[p] = open[p] \/ open'[p] = Absent \/ WaitsRightly(log', open'[p])
              /\ merged'[p] = merged[p] \/ merged'[p] = Absent \/ WaitsRightly(log', merged'[p])
              /\ rejected'[p] = rejected[p] \/ rejected'[p] = Absent
                    \/ WaitsRightly(log', rejected'[p])
    PROVE  WaitsRightlyIn(open)' /\ WaitsRightlyIn(merged)' /\ WaitsRightlyIn(rejected)'
<1>1. \A p \in Id : open'[p] # Absent => WaitsRightly(log', open'[p])
  BY DirKeepsWaiting DEF WaitInv
<1>2. \A p \in Id : merged'[p] # Absent => WaitsRightly(log', merged'[p])
  BY DirKeepsWaiting DEF WaitInv
<1>3. \A p \in Id : rejected'[p] # Absent => WaitsRightly(log', rejected'[p])
  BY DirKeepsWaiting DEF WaitInv
<1> QED BY <1>1, <1>2, <1>3 DEF WaitsRightlyIn

\* What is in a directory waits rightly, also as it is parsed.
LEMMA ParsedWaits ==
    ASSUME NEW d \in Doc, WaitsRightly(log, d)
    PROVE  WaitsRightly(log, Parsed(d))
BY ParsedKeeps DEF WaitsRightly

\* A submission has nothing applied, and is filed as it is.
LEMMA SubmittingKeepsWaiting ==
    ASSUME PMTypeOK, WaitInv, Submitting
    PROVE  WaitInv'
<1>1. UNCHANGED <<handler, merged, rejected, replay, log>>
  BY SubmittingFrame
<1>2. [PMNext]_vars
  BY DEF PMNext
<1>3. ASSUME NEW s \in Submission, DraftWrites(s)
      PROVE  WaitInv'
  <2>1. drafts[s].doc.apply = "NONE" /\ drafts[s].pc = "writing"
    BY <1>3 DEF DraftWrites, WaitInv
  <2>2. \A p \in Id : open'[p] = open[p] \/ open'[p] = drafts[s].doc
    BY <1>3 DEF DraftWrites, PMTypeOK, Files
  <2>3. \A p \in Id : open'[p] = open[p] \/ WaitsRightly(log', open'[p])
    BY <2>1, <2>2 DEF WaitsRightly, Awaiting
  <2>4. WaitsRightlyIn(open)' /\ WaitsRightlyIn(merged)' /\ WaitsRightlyIn(rejected)'
    BY <1>1, <1>2, <2>3, FilesKeepWaiting
  <2>5. \A u \in Submission : drafts'[u].pc = "writing" => drafts'[u] = drafts[u]
    BY <1>3 DEF DraftWrites, PMTypeOK
  <2> QED BY <1>1, <2>4, <2>5 DEF WaitInv, WaitsRightly
<1>4. ASSUME NEW s \in Submission, NEW kind \in Kind, NEW author \in Agent, NEW high \in Risk,
             NEW verified \in BOOLEAN, NEW dashes \in Dashes,
             DraftCaptures(s, kind, author, high, verified, dashes)
      PROVE  WaitInv'
  <2>1. UNCHANGED <<open, merged, rejected>>
    BY <1>4 DEF DraftCaptures, files
  <2>2. PICK base, d : /\ d.apply = "NONE"
                       /\ drafts' = [drafts EXCEPT ![s] = [pc |-> "writing", id |-> second,
                                                           doc |-> [d EXCEPT !.base = base]]]
                       /\ DOMAIN d = {"sub", "kind", "author", "high", "verified", "dashes", "base",
                                      "status", "apply"}
    <3> DEFINE d0 == [sub |-> s, kind |-> kind, author |-> author, high |-> high,
                      verified |-> verified, dashes |-> dashes, base |-> NoBase,
                      status |-> "OPEN", apply |-> "NONE"]
    <3>1. \E base : drafts' = [drafts EXCEPT ![s] = [pc |-> "writing", id |-> second,
                                                     doc |-> [d0 EXCEPT !.base = base]]]
      BY <1>4 DEF DraftCaptures
    <3>2. d0.apply = "NONE" /\ DOMAIN d0 = {"sub", "kind", "author", "high", "verified", "dashes",
                                            "base", "status", "apply"}
      OBVIOUS
    <3> HIDE DEF d0
    <3> QED BY <3>1, <3>2
  <2>3. [d EXCEPT !.base = base].apply = "NONE"
    BY <2>2
  <2>4. \A u \in Submission : drafts'[u] = drafts[u] \/ drafts'[u].doc.apply = "NONE"
    BY <2>2, <2>3 DEF PMTypeOK
  <2> QED BY <1>1, <2>1, <2>4 DEF WaitInv, WaitsRightly, WaitsRightlyIn
<1> QED BY <1>3, <1>4 DEF Submitting

\* A replay adds its proof and nothing else, wherever it writes.
LEMMA ReplayingKeepsWaiting ==
    ASSUME PMTypeOK, WaitInv, Replaying
    PROVE  WaitInv'
<1>1. UNCHANGED <<handler, log, drafts>>
  BY DEF Replaying, ReplayReads, ReplayLocates, ReplayWrites, history
<1>2. [PMNext]_vars
  BY DEF PMNext
<1>3. ASSUME UNCHANGED files, WaitsRightly(log, replay'.doc)
      PROVE  WaitInv'
  BY <1>1, <1>3 DEF WaitInv, WaitsRightly, WaitsRightlyIn, files
<1>4. ASSUME NEW p \in Id, NEW compiles \in BOOLEAN, ReplayReads(p, compiles)
      PROVE  WaitInv'
  <2>1. Found(p) \in Doc
    BY <1>4, FoundIsDoc DEF ReplayReads, MayRead
  <2>2. WaitsRightly(log, Found(p))
    BY <2>1, NothingAssumption DEF WaitInv, WaitsRightlyIn, Found
  <2>3. PICK d \in Doc : d = Parsed(Found(p)) /\ WaitsRightly(log, d)
    BY <2>1, <2>2, ParsedWaits, ParsedIsDoc
  <2>4. PICK v : replay'.doc = [d EXCEPT !.verified = v] /\ UNCHANGED files
    BY <1>4, <2>3 DEF ReplayReads
  <2>5. replay'.doc.apply = d.apply /\ replay'.doc.sub = d.sub
    BY <2>4 DEF Doc
  <2> QED BY <1>3, <2>3, <2>4, <2>5 DEF WaitsRightly
<1>5. CASE ReplayLocates
  <2>1. UNCHANGED files /\ replay'.doc = replay.doc /\ replay # Idle
    BY <1>5 DEF ReplayLocates, Idle
  <2> QED BY <1>3, <2>1 DEF WaitInv
<1>6. CASE ReplayWrites
  <2>1. replay # Idle /\ replay' = Idle
    BY <1>6 DEF ReplayWrites, Idle
  <2>2. WaitsRightly(log', replay.doc)
    BY <1>1, <2>1 DEF WaitInv
  <2>3. \A p \in Id : /\ open'[p] = open[p] \/ open'[p] = replay.doc
                      /\ merged'[p] = merged[p] \/ merged'[p] = replay.doc
                      /\ rejected'[p] = rejected[p] \/ rejected'[p] = replay.doc
    BY <1>6 DEF ReplayWrites, WriteOver, PMTypeOK, Files
  <2>4. WaitsRightlyIn(open)' /\ WaitsRightlyIn(merged)' /\ WaitsRightlyIn(rejected)'
    BY <1>2, <2>2, <2>3, FilesKeepWaiting
  <2> QED BY <1>1, <2>1, <2>4 DEF WaitInv, WaitsRightly
<1> QED BY <1>4, <1>5, <1>6 DEF Replaying

\* A request that begins has what it found in the file.
LEMMA DecidingKeepsWaiting ==
    ASSUME PMTypeOK, WaitInv, Deciding
    PROVE  WaitInv'
<1>1. UNCHANGED <<files, log, drafts, replay>>
  BY DEF Deciding, Approve, Reject, MarkApplied, AbandonApply, Begin, history
<1>2. PICK p \in Id, by \in Actor :
         \/ \E stored \in 1..3, override \in BOOLEAN : Approve(p, by, stored, override)
         \/ Reject(p, by)
         \/ MarkApplied(p, by)
         \/ AbandonApply(p, by)
  BY DEF Deciding
<1>3. SUFFICES /\ handler'.op \in {"mark", "abandon"} => Grounded(log, handler'.doc.sub, "APPROVED")
               /\ (handler'.op = "merge" /\ handler'.pc = "write") \/ WaitsRightly(log, handler'.doc)
  BY <1>1 DEF WaitInv, WaitsRightly, WaitsRightlyIn, files
<1>4. ASSUME NEW stored \in 1..3, NEW override \in BOOLEAN, Approve(p, by, stored, override)
      PROVE  /\ handler'.op = "merge"
             /\ handler'.pc = "write" \/ WaitsRightly(log, handler'.doc)
  <2>1. open[p] \in Doc /\ Parsed(open[p]) \in Doc
    BY <1>4, ParsedIsDoc DEF Approve, MayRead, PMTypeOK, Files
  <2>2. PICK d \in Doc : d = Parsed(open[p])
    BY <2>1
  <2>3. handler' = [op |-> "merge", id |-> p, by |-> by, doc |-> MergedDoc(d), pc |-> FirstStep(d)]
    BY <1>4, <2>2 DEF Approve, Begin
  <2>4. FirstStep(d) # "write" => HasExecutor(d)
    BY DEF FirstStep, HasExecutor, Doc, BaseFits
  <2>5. HasExecutor(d) => MergedDoc(d).apply = "APPLIED"
    BY DEF MergedDoc, Doc
  <2> QED BY <2>3, <2>4, <2>5 DEF WaitsRightly, Awaiting
<1>5. CASE Reject(p, by)
  <2>1. open[p] \in Doc /\ open[p] # Absent
    BY <1>5 DEF Reject, MayRead, PMTypeOK, Files
  <2>2. PICK d \in Doc : d = Parsed(open[p]) /\ WaitsRightly(log, d)
    BY <2>1, ParsedWaits, ParsedIsDoc DEF WaitInv, WaitsRightlyIn
  <2>3. handler'.op = "reject" /\ handler'.doc = [d EXCEPT !.status = "REJECTED"]
    BY <1>5, <2>2 DEF Reject, Begin
  <2>4. handler'.doc.apply = d.apply /\ handler'.doc.sub = d.sub
    BY <2>3 DEF Doc
  <2> QED BY <2>2, <2>3, <2>4 DEF WaitsRightly
<1>6. CASE MarkApplied(p, by) \/ AbandonApply(p, by)
  <2>1. PICK d \in Doc : d = merged[p] /\ d.apply = Awaiting /\ merged[p] # Absent
    BY <1>6 DEF MarkApplied, AbandonApply, AwaitsManualApply, PMTypeOK, Files, Awaiting
  <2>2. Grounded(log, d.sub, "APPROVED")
    BY <2>1 DEF WaitInv, WaitsRightlyIn, WaitsRightly
  <2>3. /\ handler'.op \in {"mark", "abandon"}
        /\ \E ap \in {"MANUALLY_APPLIED", "ABANDONED"} : handler'.doc = [d EXCEPT !.apply = ap]
    BY <1>6, <2>1 DEF MarkApplied, AbandonApply, Begin
  <2>4. handler'.doc.sub = d.sub /\ handler'.doc.apply # Awaiting
    BY <2>3 DEF Doc, Awaiting
  <2> QED BY <2>2, <2>3, <2>4 DEF WaitsRightly
<1> QED BY <1>2, <1>4, <1>5, <1>6

\* Whoever approves a manual apply logs it before the file says that it waits.
LEMMA CarryingOutKeepsWaiting ==
    ASSUME PMTypeOK, OnceInv, WaitInv, CarryingOut
    PROVE  WaitInv'
<1>1. /\ handler # Idle /\ handler \in Handlers /\ UNCHANGED <<drafts, replay>>
      /\ handler' = Idle \/ /\ handler' # Idle
                            /\ handler'.op = handler.op /\ handler'.doc = handler.doc
      /\ handler' # Idle /\ handler'.pc = "write" => handler.pc = "execute"
  BY RequestGoesOn, HandlerIsRequest
<1>2. [PMNext]_vars
  BY DEF PMNext
<1>3. handler.op \in {"merge", "reject", "mark", "abandon"} /\ handler.doc \in Doc
  BY <1>1 DEF Handlers
<1>4. handler.pc = "execute" => handler.op = "merge" /\ HasExecutor(handler.doc)
  BY <1>1 DEF OnceInv, StepsInOrder, PMTypeOK
<1>5. handler.op = "merge" /\ HasExecutor(handler.doc) => WaitsRightly(log, handler.doc)
  BY <1>1 DEF OnceInv, StepsInOrder, WaitsRightly
<1>6. CASE ~WriteVerdict
  <2>1. handler.op = "merge" /\ handler.pc = "write" => handler' = Idle /\ UNCHANGED files
    BY <1>6 DEF CarryingOut, CheckPasses, CheckRefuses, Execute, ExecuteUnanswered,
                UnlinkOpen, Commit, Report, StepRaises, Proceed
  <2>2. CASE handler.op = "merge" /\ handler.pc = "write"
    <3>1. UNCHANGED <<open, merged, rejected>>
      BY <2>1, <2>2 DEF files
    <3> QED BY <1>1, <1>2, <2>1, <2>2, <3>1, WaitStays, FilesKeepWaiting DEF WaitInv
  <2>3. CASE ~(handler.op = "merge" /\ handler.pc = "write")
    <3>1. WaitsRightly(log', handler.doc)
      BY <1>1, <1>2, <2>3, WaitStays DEF WaitInv
    <3>2. WaitsRightlyIn(open)' /\ WaitsRightlyIn(merged)' /\ WaitsRightlyIn(rejected)'
      BY <1>2, <3>1, FilesKeepWaiting, RequestWritesItsFile
    <3> QED BY <1>1, <1>2, <3>1, <3>2, WaitStays DEF WaitInv
  <2> QED BY <2>2, <2>3
<1>7. CASE WriteVerdict
  <2>1. WaitsRightly(log', handler.doc)
    <3>1. CASE handler.op = "merge" /\ ~HasExecutor(handler.doc)
      <4>1. Logged("approved") /\ "approved" \in Grounds("APPROVED")
        BY <1>7, <3>1 DEF WriteVerdict, Grounds
      <4> QED BY <4>1, EntryGrounds DEF WaitsRightly
    <3>2. CASE ~(handler.op = "merge" /\ ~HasExecutor(handler.doc))
      BY <1>1, <1>2, <1>3, <1>5, <3>2, WaitStays DEF WaitInv
    <3> QED BY <3>1, <3>2
  <2>2. WaitsRightlyIn(open)' /\ WaitsRightlyIn(merged)' /\ WaitsRightlyIn(rejected)'
    BY <1>2, <2>1, FilesKeepWaiting, RequestWritesItsFile
  <2> QED BY <1>1, <1>2, <2>1, <2>2, WaitStays DEF WaitInv
<1> QED BY <1>6, <1>7

\* No step leaves something waiting that was not approved.
LEMMA StepKeepsWaiting ==
    ASSUME PMTypeOK, OnceInv, WaitInv, [PMNext]_vars
    PROVE  WaitInv'
<1>1. CASE World \/ UNCHANGED vars
  <2>1. /\ UNCHANGED <<open, merged, rejected, log>> /\ (UNCHANGED handler \/ handler' = Idle)
        /\ UNCHANGED replay \/ replay' = Idle
        /\ \A s \in Submission : drafts'[s] = drafts[s] \/ drafts'[s].pc = "done"
    BY <1>1, WorldFrame DEF World, Crash, OthersEdit, OthersToggle, Tick, vars, files, history
  <2> QED BY <2>1 DEF WaitInv, WaitsRightlyIn, WaitsRightly
<1> QED BY <1>1, SubmittingKeepsWaiting, ReplayingKeepsWaiting, DecidingKeepsWaiting,
           CarryingOutKeepsWaiting DEF PMNext

\* A decision that is entered in the log is one the abstract specification takes.
LEMMA EntryIsDecision ==
    ASSUME PMTypeOK, OnceInv, WaitInv, CarryingOut, NEW how, Logged(how), UNCHANGED <<told, stale>>,
           \/ handler.pc = "execute" /\ how = "executed" /\ faults' \in {faults, faults + 1}
           \/ handler.pc = "write" /\ WriteVerdict /\ UNCHANGED faults
    PROVE  Life!Next
<1>1. /\ handler # Idle /\ handler \in Handlers
  BY RequestGoesOn, HandlerIsRequest
<1>2. PICK s \in Submission : s = handler.doc.sub
  BY <1>1 DEF Handlers, Doc
<1>3. SeenLog' = Append(SeenLog, [sub |-> s, how |-> how])
  BY <1>2, SeenAppends
<1>0. [i \in DOMAIN log |-> [sub |-> log[i].doc.sub, how |-> log[i].how]]'
         = Append([i \in DOMAIN log |-> [sub |-> log[i].doc.sub, how |-> log[i].how]],
                  [sub |-> s, how |-> how])
  BY <1>3 DEF SeenLog, Seen
<1>4. RoomFor(s) /\ faults \in Nat /\ stale \in Nat
  BY DEF OnceInv, PMTypeOK
<1>5. Count(s, FirstRound) \in Nat /\ Count(s, SecondRound) \in Nat
  BY CountIsNat
<1>6. (faults + stale)' \in {faults + stale, faults + stale + 1}
  BY <1>4
<1>7. ASSUME how \in FirstRound, MayDecide(s)
      PROVE  Life!Next
  <2>1. Cardinality(Life!Taken(s, FirstRound)) <= faults + stale
    BY <1>4, <1>5, <1>7, TakenIsDecided DEF RoomFor, Count, Paid
  <2>2. Life!Decide(s, how, FirstRound)
    BY <1>0, <1>7, <2>1, SameCardinality DEF Life!Decide
  <2>3. Life!Judge(s, how)
    BY <1>6, <2>2 DEF Life!Judge, Life!Judgements, FirstRound
  <2> QED BY <1>7, <2>3 DEF Life!Next, Life!Judgements, FirstRound
<1>8. ASSUME how \in SecondRound, MayConfirm(s), handler.op \in {"mark", "abandon"}, UNCHANGED faults
      PROVE  Life!Next
  <2>1. Grounded(log, s, "APPROVED")
    BY <1>1, <1>2, <1>8 DEF WaitInv
  <2>2. Life!Taken(s, {"approved"}) # {}
    BY <2>1, TakenIsDecided DEF Grounded, Grounds, Decisions
  <2>3. Cardinality(Life!Taken(s, SecondRound)) <= faults + stale
    BY <1>4, <1>5, <1>8, TakenIsDecided DEF RoomFor, Count, Paid
  <2>4. Life!Decide(s, how, SecondRound)
    BY <1>0, <1>8, <2>3, SameCardinality DEF Life!Decide
  <2>5. Life!Settle(s, how)
    BY <1>8, <2>2, <2>4 DEF Life!Settle, Life!Settlements, SecondRound
  <2> QED BY <1>8, <2>5 DEF Life!Next, Life!Settlements, SecondRound
<1>9. CASE handler.pc = "execute" /\ how = "executed"
  <2>1. how \in FirstRound /\ MayDecide(s)
    BY <1>1, <1>2, <1>9 DEF FirstRound, MayDecide, WillDecide
  <2> QED BY <1>7, <2>1
<1>10. CASE handler.pc = "write" /\ WriteVerdict /\ UNCHANGED faults
  <2>1. handler.op \in {"merge", "reject", "mark", "abandon"}
    BY <1>1 DEF Handlers
  <2>2. Len(log) \in Nat /\ log \in Seq(Entries)
    BY DEF PMTypeOK
  <2>3. log' # log /\ log'[Len(log) + 1].how = how
    <3>1. log'[Len(log) + 1] = [how |-> how, doc |-> handler.doc, by |-> handler.by]
      BY AppendedLog DEF Logged
    <3>2. DOMAIN log' # DOMAIN log
      BY AppendedLog DEF Logged
    <3> QED BY <3>1, <3>2
  <2>4. PICK hw : /\ Logged(hw)
                  /\ \/ hw = "approved" /\ handler.op = "merge" /\ ~HasExecutor(handler.doc)
                     \/ hw = "rejected" /\ handler.op = "reject"
                     \/ hw = "confirmed" /\ handler.op = "mark"
                     \/ hw = "abandoned" /\ handler.op = "abandon"
    BY <1>10, <2>1, <2>3 DEF WriteVerdict
  <2>5. hw = how
    <3>1. log'[Len(log) + 1] = [how |-> hw, doc |-> handler.doc, by |-> handler.by]
      BY <2>4, AppendedLog DEF Logged
    <3> QED BY <2>3, <3>1
  <2>6. CASE handler.op \in {"merge", "reject"}
    <3>1. how \in FirstRound /\ MayDecide(s)
      BY <1>1, <1>2, <1>10, <2>4, <2>5, <2>6 DEF FirstRound, MayDecide, WillDecide
    <3> QED BY <1>7, <3>1
  <2>7. CASE handler.op \in {"mark", "abandon"}
    <3>1. how \in SecondRound /\ MayConfirm(s)
      BY <1>1, <1>2, <1>10, <2>4, <2>5, <2>7 DEF SecondRound, MayConfirm
    <3> QED BY <1>8, <1>10, <2>7, <3>1
  <2> QED BY <2>1, <2>6, <2>7
<1> QED BY <1>9, <1>10

\* What an issue is told has been decided.
LEMMA ReportIsTold ==
    ASSUME PMTypeOK, ToldInv, Report
    PROVE  Life!Next \/ UNCHANGED Life!vars
<1>1. handler # Idle /\ handler \in Handlers /\ UNCHANGED <<log, faults, stale>>
  BY HandlerIsRequest DEF Report, Idle, history
<1>2. CASE UNCHANGED told
  BY <1>1, <1>2 DEF Life!vars
<1>3. CASE told' = told \cup {[sub |-> handler.doc.sub, what |-> Decision]}
  <2>1. PICK s \in Submission : s = handler.doc.sub
    BY <1>1 DEF Handlers, Doc
  <2>2. PICK what \in {"APPLIED", "APPROVED", "REJECTED", "ABANDONED"} : what = Decision
    BY DEF Decision
  <2>3. Grounded(log, s, what)
    BY <2>1, <2>2 DEF Report, ToldInv, Founded
  <2>4. Decisions(s, Grounds(what)) # {}
    BY <2>3 DEF Grounded, Decisions
  <2>5. Life!Reasons(what) = Grounds(what)
    BY <2>2 DEF Life!Reasons, Grounds
  <2>6. Life!Taken(s, Life!Reasons(what)) # {}
    BY <2>4, <2>5, TakenIsDecided
  <2>7. Life!Tell(s, what)
    BY <1>1, <1>3, <2>1, <2>2, <2>6 DEF Life!Tell
  <2> QED BY <2>7 DEF Life!Next
<1> QED BY <1>2, <1>3 DEF Report

\* Every step is one of the abstract specification, or none.
LEMMA StepOfLife ==
    ASSUME PMTypeOK, OnceInv, ToldInv, WaitInv, [PMNext]_vars
    PROVE  [Life!Next]_(Life!vars)
<1>0. faults \in Nat /\ stale \in Nat
  BY DEF PMTypeOK
<1>1. ASSUME UNCHANGED <<log, told, faults, stale>>
      PROVE  UNCHANGED Life!vars
  BY <1>1 DEF Life!vars
<1>2. ASSUME UNCHANGED <<log, told>>,
             \/ faults' = faults + 1 /\ UNCHANGED stale
             \/ stale' = stale + 1 /\ UNCHANGED faults
      PROVE  Life!Next
  <2>1. (faults + stale)' = faults + stale + 1
    BY <1>0, <1>2
  <2>2. Life!Mishap
    BY <1>2, <2>1 DEF Life!Mishap
  <2> QED BY <2>2 DEF Life!Next
<1>3. CASE Submitting \/ Deciding \/ UNCHANGED vars
  <2>1. Submitting => UNCHANGED <<log, told, faults, stale>>
    BY SubmittingFrame
  <2>2. Deciding => UNCHANGED history /\ UNCHANGED told
    BY DEF Deciding, Approve, Reject, MarkApplied, AbandonApply, Begin
  <2>3. UNCHANGED vars => UNCHANGED history /\ UNCHANGED told
    BY DEF vars
  <2>4. UNCHANGED <<log, told, faults, stale>>
    BY <1>3, <2>1, <2>2, <2>3 DEF history
  <2> QED BY <1>1, <2>4
<1>4. CASE Replaying
  <2>1. /\ UNCHANGED <<log, told, faults>>
        /\ UNCHANGED stale \/ stale' = stale + 1
    BY <1>4 DEF Replaying, ReplayReads, ReplayLocates, ReplayWrites, history
  <2> QED BY <1>1, <1>2, <2>1
<1>5. CASE World
  <2>1. /\ UNCHANGED <<log, told, stale>>
        /\ UNCHANGED faults \/ faults' = faults + 1
    BY <1>5 DEF World, Crash, OthersEdit, OthersToggle, Tick, history
  <2> QED BY <1>1, <1>2, <2>1
<1>6. CASE CarryingOut
  <2>1. CASE CheckPasses \/ CheckRefuses \/ UnlinkOpen \/ Commit
    <3>1. UNCHANGED <<log, told, faults, stale>>
      BY <2>1 DEF CheckPasses, CheckRefuses, UnlinkOpen, Commit, history
    <3> QED BY <1>1, <3>1
  <2>2. CASE StepRaises
    BY <1>2, <2>2 DEF StepRaises
  <2>3. CASE Report
    BY <2>3, ReportIsTold
  <2>4. CASE Execute \/ ExecuteUnanswered
    <3>1. /\ Logged("executed") /\ handler.pc = "execute" /\ UNCHANGED <<told, stale>>
          /\ faults' \in {faults, faults + 1}
      BY <2>4 DEF Execute, ExecuteUnanswered
    <3> QED BY <1>6, <3>1, EntryIsDecision
  <2>5. CASE WriteVerdict
    <3>1. /\ handler.pc = "write" /\ UNCHANGED <<told, stale, faults>>
          /\ UNCHANGED log \/ \E how : Logged(how)
      BY <2>5 DEF WriteVerdict
    <3> QED BY <1>1, <1>6, <2>5, <3>1, EntryIsDecision
  <2> QED BY <1>6, <2>1, <2>2, <2>3, <2>4, <2>5 DEF CarryingOut
<1> QED BY <1>3, <1>4, <1>5, <1>6 DEF PMNext

\* Whatever is interrupted, repeated or written back late: seen from outside, a
\* proposal is judged and settled once but for mishaps, only what was approved is
\* settled, and no issue is told of a decision before it is taken.
THEOREM ManagerImplementsLife == PMSpec => ImplementsProposalLife
<1>1. PMInit => Life!Init
  BY DEF PMInit, Life!Init
<1>2. PMInit => ToldInv /\ OnceInv /\ WaitInv
  <2>1. PMInit => ToldInv
    BY DEF PMInit, ToldInv, Founded, Idle
  <2>2. PMInit => WaitInv
    BY DEF PMInit, WaitInv, WaitsRightlyIn, NoFiles, Idle
  <2> QED BY <2>1, <2>2, OnceAtFirst
<1>3. PMTypeOK /\ PMTypeOK' /\ ToldInv /\ OnceInv /\ WaitInv /\ [PMNext]_vars
         => ToldInv' /\ OnceInv' /\ WaitInv'
  BY StepKeepsTold, StepKeepsOnce, StepKeepsWaiting
<1>4. PMTypeOK /\ OnceInv /\ ToldInv /\ WaitInv /\ [PMNext]_vars => [Life!Next]_(Life!vars)
  BY StepOfLife
<1> QED
  BY <1>1, <1>2, <1>3, <1>4, TypeCorrect, PTL DEF PMSpec, ImplementsProposalLife, Life!Spec
=============================================================================
