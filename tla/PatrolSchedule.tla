--------------------------- MODULE PatrolSchedule ---------------------------
(***************************************************************************)
(* The patrol schedules of agents/core/fleet_scheduler.py: the dictionary  *)
(* of schedules in memory, the configuration documents of the evidence     *)
(* store, the polling loop, the web requests that run a patrol by hand and *)
(* the operator who changes a schedule.                                    *)
(*                                                                         *)
(* A schedule is a mutable dict.  An update puts a changed COPY in its     *)
(* place; a run, and a round of the loop, goes on with the dict it has.    *)
(* dicts[h] is the sequence of the dicts patrol h has had since the server *)
(* started: the last is the schedule, the others live in whoever holds     *)
(* them.                                                                   *)
(*                                                                         *)
(* Everything runs on one event loop.  Of the actions only the chat        *)
(* fallback awaits: whoever runs patrols keeps the loop until its next     *)
(* chat, or until it has run them all.                                     *)
(***************************************************************************)
EXTENDS Naturals, Sequences, SequencesExt

CONSTANTS Order,        \* the patrols, in the order of the dictionary
          Default,      \* those of DEFAULT_AGENT_SCHEDULES
          Chat,         \* those whose action is the chat fallback
          Request,      \* web requests that run patrols
          NoDoc,        \* no document, or one without the fields of a schedule
          MaxRevision,  \* how many updates the operator makes
          MaxFailures,  \* how many actions, reads and writes of the store fail
          MaxRestarts

Handle == ToSet(Order)

ASSUME OrderAssumption == Order \in Seq(Handle) /\ IsInjective(Order)
ASSUME HandleAssumption == Default \subseteq Handle /\ Chat \subseteq Handle
ASSUME CustomAssumption == Handle \ Default \subseteq Chat
ASSUME BoundAssumption == MaxRevision \in Nat /\ MaxFailures \in Nat /\ MaxRestarts \in Nat
ASSUME RequestAssumption == "loop" \notin Request

VARIABLES dicts,     \* the dicts each patrol has had since the server started
          store,     \* the configuration documents
          walkers,   \* the loop and the requests: what each has still to run
          late,      \* patrol the operator has switched off -> rounds that ran it since
          revision, failures, restarts

vars == <<dicts, store, walkers, late, revision, failures, restarts>>

Walker == {"loop"} \cup Request

-----------------------------------------------------------------------------
(* Schedules: `revision` stands for all the settings an update can change, *)
(* `next` for next_run_at.                                                 *)

Schedule == [revision : Nat, enabled : BOOLEAN, next : {"none", "later", "due"}]

ASSUME NoDocAssumption == NoDoc \notin Schedule

DefaultSchedule == [revision |-> 0, enabled |-> TRUE, next |-> "later"]
Placeholder     == [revision |-> 0, enabled |-> FALSE, next |-> "none"]

Settings(schedule) == <<schedule.revision, schedule.enabled>>

\* A reference to the dict number `version` of a patrol; 0 is the placeholder.
Reference == [handle : Handle, version : Nat]

Current(h) == [handle |-> h, version |-> Len(dicts[h])]

Held(ref) == IF ref.version = 0 THEN Placeholder ELSE dicts[ref.handle][ref.version]

GetSchedule(h) == Held(Current(h))

\* References to the dicts of these patrols, in the order of the dictionary.
Listing(handles) ==
    LET upto[n \in 0..Len(Order)] ==
            IF n = 0 THEN <<>>
            ELSE IF Order[n] \in handles THEN Append(upto[n - 1], Current(Order[n]))
            ELSE upto[n - 1]
    IN  upto[Len(Order)]

\* Mutant: only the patrols of the default list are polled.
SnapshotDefaults == Listing(Default)

\* list(self._schedules.items())
Snapshot == Listing({h \in Handle : dicts[h] # <<>>})

\* The default settings, with those of the document over them.
Loaded(document) ==
    IF document = NoDoc THEN DefaultSchedule
    ELSE [document EXCEPT !.next = IF @ = "none" THEN "later" ELSE @]

AllLoaded(documents) ==
    [h \in Handle |-> IF h \in Default THEN <<Loaded(documents[h])>> ELSE <<>>]

Idle == [kind |-> "poll", rest |-> <<>>, awaiting |-> FALSE]

Init ==
    /\ store = [h \in Handle |-> NoDoc]
    /\ dicts = AllLoaded(store)
    /\ walkers = [w \in Walker |-> Idle]
    /\ late = <<>>
    /\ revision = 0 /\ failures = 0 /\ restarts = 0

\* The next patrol of a walker that is not awaiting a chat.
Reached(w) == walkers[w].rest # <<>> /\ ~walkers[w].awaiting
First(w)   == Head(walkers[w].rest)

EventLoopFree == \A w \in Walker : ~Reached(w)

-----------------------------------------------------------------------------
(* The operator *)

Fail(n) == failures + n <= MaxFailures /\ failures' = failures + n

\* Mutant: an update does not look at next_run_at.
UpdatedBare(schedule, enabled) ==
    [schedule EXCEPT !.revision = revision + 1, !.enabled = enabled]

Updated(schedule, enabled) ==
    [schedule EXCEPT !.revision = revision + 1,
                     !.enabled  = enabled,
                     !.next     = IF enabled /\ @ = "none" THEN "later" ELSE @]

\* PUT .../schedule: the copy replaces the dict even if it cannot be persisted.
UpdateSchedule(h, enabled) ==
    LET curr == Updated(GetSchedule(h), enabled)
    IN  /\ EventLoopFree
        /\ revision < MaxRevision
        /\ revision' = revision + 1
        /\ dicts' = [dicts EXCEPT ![h] = Append(@, curr)]
        /\ \/ Fail(0) /\ store' = [store EXCEPT ![h] = curr]
           \/ Fail(1) /\ UNCHANGED store
        /\ late' = IF enabled THEN [k \in DOMAIN late \ {h} |-> late[k]]
                   ELSE [k \in DOMAIN late \cup {h} |-> IF k \in DOMAIN late THEN late[k] ELSE 0]
        /\ UNCHANGED <<walkers, restarts>>

\* PUT /api/configs/agents/{h} with prompt settings: the local store writes the
\* body over the whole document.
UpdateAgentConfig(h) ==
    /\ EventLoopFree
    /\ store' = [store EXCEPT ![h] = NoDoc]
    /\ UNCHANGED <<dicts, walkers, late, revision, failures, restarts>>

-----------------------------------------------------------------------------
(* The loop and the requests *)

Walk(w, kind, refs) ==
    /\ EventLoopFree
    /\ walkers[w].rest = <<>>
    /\ walkers' = [walkers EXCEPT ![w] = [kind |-> kind, rest |-> refs, awaiting |-> FALSE]]
    /\ UNCHANGED <<dicts, store, late, revision, failures, restarts>>

StartRound          == Walk("loop", "poll", Snapshot)
TriggerPatrolAll(r) == Walk(r, "all", Snapshot)
TriggerRunNow(r, h) == Walk(r, "one", <<Current(h)>>)

\* What is left to do after the first patrol, if the walker goes on.
After(walker, goes_on) ==
    IF goes_on /\ Len(walker.rest) > 1
    THEN [walker EXCEPT !.rest = Tail(@), !.awaiting = FALSE] ELSE Idle

\* Mutant: the loop runs what is due, switched on or not.
SelectedDue(kind, schedule) ==
    \/ kind = "one"
    \/ kind = "all" /\ schedule.enabled
    \/ kind = "poll" /\ schedule.next = "due"

Selected(kind, schedule) ==
    \/ kind = "one"
    \/ kind = "all" /\ schedule.enabled
    \/ kind = "poll" /\ schedule.enabled /\ schedule.next = "due"

Skip(w) ==
    /\ Reached(w)
    /\ ~Selected(walkers[w].kind, Held(First(w)))
    /\ walkers' = [walkers EXCEPT ![w] = After(@, TRUE)]
    /\ UNCHANGED <<dicts, store, late, revision, failures, restarts>>

Started(w, h) ==
    late' = IF w = "loop" /\ h \in DOMAIN late THEN [late EXCEPT ![h] = @ + 1] ELSE late

\* Mutant: a run leaves the document alone.
PersistedNever(documents, h, schedule) == documents

\* save_agent_config
Persisted(documents, h, schedule) == [documents EXCEPT ![h] = schedule]

\* The end of _execute_scheduled_task.  next_run_at moves on as soon as the
\* action has returned; the dict is persisted at the end, or in the handler of
\* whatever was raised.  If that fails too, the exception ends the round.
Finish(w, returned, persisted) ==
    LET ref   == First(w)
        sched == IF returned THEN [Held(ref) EXCEPT !.next = "later"] ELSE Held(ref)
    IN  /\ Fail(IF returned /\ persisted THEN 0 ELSE 1)
        /\ dicts' = IF ref.version = 0 THEN dicts
                    ELSE [dicts EXCEPT ![ref.handle][ref.version] = sched]
        /\ store' = IF persisted THEN Persisted(store, ref.handle, sched) ELSE store
        /\ walkers' = [walkers EXCEPT ![w] = After(@, persisted)]
        /\ UNCHANGED <<revision, restarts>>

RunPatrol(w) ==
    /\ Reached(w)
    /\ Selected(walkers[w].kind, Held(First(w)))
    /\ First(w).handle \notin Chat
    /\ Started(w, First(w).handle)
    /\ \E returned, persisted \in BOOLEAN : Finish(w, returned, persisted)

AwaitChat(w) ==
    /\ Reached(w)
    /\ Selected(walkers[w].kind, Held(First(w)))
    /\ First(w).handle \in Chat
    /\ Started(w, First(w).handle)
    /\ walkers' = [walkers EXCEPT ![w].awaiting = TRUE]
    /\ UNCHANGED <<dicts, store, revision, failures, restarts>>

ChatReturns(w) ==
    /\ EventLoopFree
    /\ walkers[w].awaiting
    /\ \E returned, persisted \in BOOLEAN : Finish(w, returned, persisted)
    /\ UNCHANGED late

-----------------------------------------------------------------------------
(* Time and restarts *)

\* A round compares with the time at which it began: a patrol that comes due
\* meanwhile might as well come due after it.
ComesDue(h) ==
    /\ EventLoopFree
    /\ walkers["loop"].rest = <<>>
    /\ GetSchedule(h).next = "later"
    /\ dicts' = [dicts EXCEPT ![h][Len(dicts[h])].next = "due"]
    /\ UNCHANGED <<store, walkers, late, revision, failures, restarts>>

\* Only the patrols of the default list are loaded again.  A document that
\* cannot be read counts as none.
Restart ==
    /\ restarts < MaxRestarts
    /\ restarts' = restarts + 1
    /\ \/ Fail(0) /\ dicts' = AllLoaded(store)
       \/ \E h \in Default : Fail(1) /\ dicts' = AllLoaded([store EXCEPT ![h] = NoDoc])
    /\ walkers' = [w \in Walker |-> Idle]
    /\ late' = <<>>
    /\ UNCHANGED <<store, revision>>

Step(w) == Skip(w) \/ RunPatrol(w) \/ AwaitChat(w) \/ ChatReturns(w)

Next ==
    \/ \E h \in Handle, enabled \in BOOLEAN : UpdateSchedule(h, enabled)
    \/ \E h \in Handle : UpdateAgentConfig(h) \/ ComesDue(h)
    \/ \E r \in Request : TriggerPatrolAll(r) \/ \E h \in Handle : TriggerRunNow(r, h)
    \/ StartRound
    \/ \E w \in Walker : Step(w)
    \/ Restart

\* The event loop takes its callbacks in turn, so nobody waits for ever behind
\* requests that come again and again; time passes, whether or not a round is
\* under way; and a chat returns or raises, which is an assumption: nothing bounds
\* the chat of a scheduled run.
Fairness ==
    /\ SF_vars(StartRound)
    /\ \A w \in Walker : SF_vars(Step(w))
    /\ \A h \in Handle : SF_vars(ComesDue(h))

Spec == Init /\ [][Next]_vars /\ Fairness

-----------------------------------------------------------------------------
(* Properties *)

\* The state is well formed; a patrol that is switched on has a next run, or
\* the loop would pass it over for ever; nobody has the same dict to run twice.
ScheduleTypeOK ==
    /\ dicts \in [Handle -> Seq(Schedule)]
    /\ \A h \in Handle : GetSchedule(h).enabled => GetSchedule(h).next # "none"
    /\ store \in [Handle -> Schedule \cup {NoDoc}]
    /\ \A w \in Walker :
          /\ walkers[w].kind \in {"poll", "all", "one"}
          /\ walkers[w].rest \in Seq(Reference) /\ IsInjective(walkers[w].rest)
          /\ \A i \in DOMAIN walkers[w].rest :
                walkers[w].rest[i].version <= Len(dicts[walkers[w].rest[i].handle])
          /\ Reached(w) => \A v \in Walker : Reached(v) => v = w
          /\ walkers[w].awaiting => walkers[w].rest # <<>> /\ First(w).handle \in Chat
    /\ DOMAIN late \subseteq Handle
    /\ revision \in 0..MaxRevision /\ failures \in 0..MaxFailures /\ restarts \in 0..MaxRestarts

\* Once the operator has switched a patrol off the loop runs it at most once
\* more, in the round that had already listed its old dict.
SwitchedOffStops == \A h \in DOMAIN late : late[h] <= 1

\* A patrol that is on and due is run, or switched off, whatever fails before it
\* in a round and however often the operator changes its dict.
DuePatrolRuns ==
    \A h \in Handle :
        GetSchedule(h).enabled /\ GetSchedule(h).next = "due" ~>
            ~(GetSchedule(h).enabled /\ GetSchedule(h).next = "due")

\* The document of a patrol that is on comes to hold the settings in force, after
\* updates that could not be persisted and runs that persisted an older dict.
EnabledIsPersisted ==
    \A h \in Handle :
        []<>(GetSchedule(h).enabled =>
                store[h] # NoDoc /\ Settings(store[h]) = Settings(GetSchedule(h)))
=============================================================================
