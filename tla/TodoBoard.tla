----------------------------- MODULE TodoBoard -----------------------------
(***************************************************************************)
(* The to-dos that the patrols of ONE resource keep on the board           *)
(* (agents/core/evidence_store.py, the local store), with the callers:     *)
(* the patrol (fleet_scheduler.py), the agent's own tools, reviewers and   *)
(* operators (clients/web/server.py).                                      *)
(*                                                                         *)
(* A to-do is a file that is read, changed and written back without a      *)
(* lock.  Patrols, consolidations and requests run one at a time on the    *)
(* server's event loop; the agent's tools run in a thread and step in      *)
(* between any two of their file operations.                               *)
(*                                                                         *)
(* A to-do is reduced to its status.  Sighting counts, priorities and      *)
(* texts are merged along the way and decide nothing.                      *)
(***************************************************************************)
EXTENDS Naturals, FiniteSets

CONSTANTS Request,   \* requests POST /api/todos for the same resource
          MaxActs    \* changes of the world, requests, tool calls and crashes

VARIABLES kind,      \* what the patrol of the resource does with to-dos
          anomalous, \* what it would find now
          board,     \* the status of every to-do of the resource
          calls,     \* what the event loop and the thread are at
          acts

world == <<kind, anomalous>>
vars == <<world, board, calls, acts>>

-----------------------------------------------------------------------------
(* To-dos *)

\* The patrols of rule decay, IAM, posture, playbooks, timestamps and the cloud's
\* status resolve their to-do when they find nothing; those of feeds, parsers and
\* noisy rules only ever sight theirs; so do the audits of shadowed and
\* conflicting rules, whose to-do is plainly named.
Kind == {"resolving", "sighting", "plain"}

\* An id is a base with a suffix.  The base is the patrol's or a request's; the
\* suffix says whether "_active" or a time follows it.
Id(base, suffix) == [base |-> base, suffix |-> suffix]

Active     == Id("patrol", "_active")  \* the patrol's
Plain      == Id("patrol", "")         \* the patrol's if it is plainly named
Legacy     == Id("patrol", "_time")    \* the patrol's in an earlier version
Created(r) == Id(r, "")                \* a request's
Renamed(d) == Id(d.base, "_active")    \* what a consolidation may make of it
NoId       == Id("none", "")

ASSUME RequestAssumption == Request \cap {"patrol", "none"} = {}
ASSUME ActsAssumption == MaxActs \in Nat

DocId == {Active, Plain, Legacy} \cup {Created(r) : r \in Request} \cup {Renamed(Created(r)) : r \in Request}

Pending    == {"PENDING", "REOPENED"}  \* what list_todos(status="PENDING") finds
Open       == Pending \cup {"IN_PROGRESS"}
Status     == Open \cup {"RESOLVED", "DISMISSED"}
Present(d) == board[d] # "absent"

\* The to-do that the patrol looks for.
Mine == IF kind = "plain" THEN Plain ELSE Active

\* Mutant: an anomaly that recurs reopens whatever was closed.
SightedDismissed(status) ==
    CASE status = "absent" -> "PENDING"
      [] status \in {"RESOLVED", "DISMISSED"} -> "REOPENED"
      [] OTHER -> status

\* upsert_todo: a to-do comes back only if it was resolved.
Sighted(status) ==
    CASE status = "absent"   -> "PENDING"
      [] status = "RESOLVED" -> "REOPENED"
      [] OTHER               -> status

\* Mutant: a to-do that was reopened is not resolved again.
ResolvableOnce == {"PENDING", "IN_PROGRESS"}

\* What resolve_todo closes.
Resolvable == Open

\* Mutant: what was reopened counts as closed.
BestStatusForgetting(statuses) ==
    CASE "IN_PROGRESS" \in statuses -> "IN_PROGRESS"
      [] "PENDING" \in statuses     -> "PENDING"
      [] OTHER                      -> "RESOLVED"

\* The status of a consolidated to-do.
BestStatus(statuses) ==
    CASE "IN_PROGRESS" \in statuses       -> "IN_PROGRESS"
      [] statuses \cap Pending # {}       -> "PENDING"
      [] OTHER                            -> "RESOLVED"

\* The id a consolidation gives the group: the first one with "_active" in it, or
\* the first one with the time cut off and "_active" added.  Requests' ids start
\* with digits and are listed before the patrol's.
First(ids) ==
    IF \E d \in ids : d.base \in Request THEN {d \in ids : d.base \in Request} ELSE ids

CanonicalIds(listed) ==
    LET named == {d \in listed : d.suffix = "_active"}
    IN  IF named # {} THEN First(named) ELSE {Renamed(d) : d \in First(listed)}

-----------------------------------------------------------------------------
(* Calls in progress *)

Caller == {"loop", "thread"}

\* `todo` are the to-dos still to be treated, `at` the one that has been read and
\* is about to be written, `read` its status then, `to` the status to be given.
Call == [op    : {"none", "sight", "resolve", "update", "merge", "delete"},
         todo  : SUBSET DocId,
         at    : DocId \cup {NoId},
         read  : Status \cup {"absent", "none"},
         to    : Status \cup {"none"},
         clean : BOOLEAN]    \* nobody else wrote since the call listed the to-dos

NoCall == [op |-> "none", todo |-> {}, at |-> NoId, read |-> "none", to |-> "none",
           clean |-> TRUE]

Starting(op, todo, to) == [NoCall EXCEPT !.op = op, !.todo = todo, !.to = to]

Idle(c) == calls[c].op = "none"

\* One more act of somebody else than the patrol.
Act == acts < MaxActs /\ acts' = acts + 1

Other(c) == IF c = "loop" THEN "thread" ELSE "loop"

\* The caller's next step; if it wrote a file, it has overtaken the other's call.
Step(c, call, wrote) ==
    calls' = [calls EXCEPT ![c] = call, ![Other(c)].clean = @ /\ (Idle(Other(c)) \/ ~wrote)]

Init ==
    /\ kind \in Kind
    /\ anomalous \in BOOLEAN
    /\ board \in [DocId -> {"absent", "PENDING"}]
    /\ \A d \in DocId : board[d] = "absent" \/ (d = Legacy /\ kind # "plain")
    /\ calls = [c \in Caller |-> NoCall]
    /\ acts = 0

-----------------------------------------------------------------------------
(* Operations *)

\* A patrol, or the audit tool, has looked at the resource: it will sight its
\* to-do if it found something, and resolve it, if it is one that does, if not.
Observe(c) ==
    /\ Idle(c)
    /\ \/ anomalous /\ Step(c, Starting("sight", {Mine}, "none"), FALSE)
       \/ ~anomalous /\ kind = "resolving" /\ Step(c, Starting("resolve", {Mine}, "none"), FALSE)
       \/ ~anomalous /\ kind # "resolving" /\ Step(c, NoCall, FALSE)
    /\ UNCHANGED <<world, board>>

\* get_todo, or the first half of update_todo_status.
ReadTodo(c, d) ==
    LET call == calls[c] IN
    /\ call.op \in {"sight", "resolve", "update"}
    /\ call.at = NoId /\ d \in call.todo
    /\ Step(c, [call EXCEPT !.todo = @ \ {d}, !.at = d, !.read = board[d]], FALSE)
    /\ UNCHANGED <<world, board, acts>>

\* A sighting is saved even if the status stays, a resolution only if it closes
\* the to-do, an update only if it is there.
Writes(call) ==
    CASE call.op = "sight"   -> TRUE
      [] call.op = "resolve" -> call.read \in Resolvable
      [] call.op = "update"  -> call.read # "absent"

Written(call) ==
    CASE call.op = "sight"   -> Sighted(call.read)
      [] call.op = "resolve" -> "RESOLVED"
      [] call.op = "update"  -> call.to

\* save_todo, or the second half of update_todo_status.
SaveTodo(c) ==
    LET call == calls[c] IN
    /\ call.op \in {"sight", "resolve", "update"} /\ call.at # NoId
    /\ board' = IF Writes(call) THEN [board EXCEPT ![call.at] = Written(call)] ELSE board
    /\ Step(c, IF call.todo = {} THEN NoCall ELSE [call EXCEPT !.at = NoId, !.read = "none"],
            Writes(call))
    /\ UNCHANGED <<world, acts>>

\* PATCH /api/todos/{id}
OperatorSets(d, status) ==
    /\ Idle("loop") /\ Present(d) /\ Act
    /\ Step("loop", Starting("update", {d}, status), FALSE)
    /\ UNCHANGED <<world, board>>

\* A proposal for the resource was decided on (by a reviewer) or submitted (by a
\* tool): the to-dos that are pending are resolved, one after the other.
CascadeResolve(c) ==
    LET pending == {d \in DocId : board[d] \in Pending} IN
    /\ Idle(c) /\ pending # {} /\ Act
    /\ Step(c, Starting("update", pending, "RESOLVED"), FALSE)
    /\ UNCHANGED <<world, board>>

\* DELETE /api/todos/{id}
OperatorDeletes(d) ==
    /\ Idle("loop") /\ Present(d) /\ Act
    /\ board' = [board EXCEPT ![d] = "absent"]
    /\ Step("loop", NoCall, TRUE)
    /\ UNCHANGED world

\* POST /api/todos
CreateTodo(r) ==
    /\ Idle("loop") /\ ~Present(Created(r)) /\ Act
    /\ board' = [board EXCEPT ![Created(r)] = "PENDING"]
    /\ Step("loop", NoCall, TRUE)
    /\ UNCHANGED world

\* deduplicate_todos lists the group; a single to-do without a time in its id is
\* left alone.
Merge(listed, canonical) ==
    IF Cardinality(listed) > 1 \/ Legacy \in listed
    THEN [Starting("merge", listed \ {canonical}, BestStatus({board[d] : d \in listed}))
             EXCEPT !.at = canonical]
    ELSE NoCall

Listed == {d \in DocId : Present(d)}

\* POST /api/todos/deduplicate
Deduplicate ==
    /\ Idle("loop") /\ Act
    /\ \E id \in CanonicalIds(Listed) : Step("loop", Merge(Listed, id), FALSE)
    /\ UNCHANGED <<world, board>>

SaveMerged ==
    LET call == calls["loop"] IN
    /\ call.op = "merge"
    /\ board' = [board EXCEPT ![call.at] = call.to]
    /\ Step("loop", IF call.todo = {} THEN NoCall ELSE [call EXCEPT !.op = "delete"], TRUE)
    /\ UNCHANGED <<world, acts>>

DeleteMerged(d) ==
    LET call == calls["loop"] IN
    /\ call.op = "delete" /\ d \in call.todo
    /\ board' = [board EXCEPT ![d] = "absent"]
    /\ Step("loop", IF call.todo = {d} THEN NoCall ELSE [call EXCEPT !.todo = @ \ {d}], TRUE)
    /\ UNCHANGED <<world, acts>>

\* The server dies and comes back: the files stay, and are consolidated before
\* anything else.
Restart ==
    /\ Act
    /\ \E id \in CanonicalIds(Listed) :
          calls' = [c \in Caller |-> IF c = "loop" THEN Merge(Listed, id) ELSE NoCall]
    /\ UNCHANGED <<world, board>>

\* Something breaks, or is repaired.
WorldChanges ==
    /\ Act
    /\ anomalous' = ~anomalous
    /\ UNCHANGED <<kind, board, calls>>

-----------------------------------------------------------------------------

Patrol == Observe("loop") /\ UNCHANGED acts

\* Agents audit timestamps and conflicting rules themselves.
ToolAudits == kind # "sighting" /\ Observe("thread") /\ Act

LoopProceeds ==
    \/ \E d \in DocId : ReadTodo("loop", d) \/ DeleteMerged(d)
    \/ SaveTodo("loop") \/ SaveMerged

ThreadProceeds == (\E d \in DocId : ReadTodo("thread", d)) \/ SaveTodo("thread")

Next ==
    \/ Patrol \/ LoopProceeds
    \/ ToolAudits \/ ThreadProceeds
    \/ \E d \in DocId : \/ \E s \in Status \ {"REOPENED"} : OperatorSets(d, s)
                        \/ OperatorDeletes(d)
    \/ \E r \in Request : CreateTodo(r)
    \/ \E c \in Caller : CascadeResolve(c)
    \/ Deduplicate
    \/ Restart \/ WorldChanges

\* The loop makes the calls of the handler it runs, patrols come round, and a
\* tool call ends.
Fairness == WF_vars(Patrol) /\ WF_vars(LoopProceeds) /\ WF_vars(ThreadProceeds)

Spec == Init /\ [][Next]_vars /\ Fairness

-----------------------------------------------------------------------------
(* Properties *)

\* What an operator has dismissed is opened again only by an operator, by a
\* consolidation that finds another to-do of the group open, or by a call that
\* had read the to-do before it was dismissed.
DismissedStays ==
    [][\A d \in DocId :
          board[d] = "DISMISSED" /\ board'[d] \in Open =>
              \E c \in Caller :
                 /\ calls[c].at = d
                 /\ \/ calls[c].op = "update"
                    \/ calls[c].op = "merge" /\ \E e \in calls[c].todo : board[e] \in Open
                    \/ ~calls[c].clean]_vars

GroupIsOpen == \E d \in DocId : board[d] \in Open

\* A consolidation that nobody overtakes never loses the last open to-do of the
\* resource, wherever it stops.
ConsolidationKeepsOpen ==
    [][(SaveMerged \/ \E d \in DocId : DeleteMerged(d)) /\ calls["loop"].clean /\ GroupIsOpen
       => GroupIsOpen']_vars

\* Once the world stays as it is and nobody interferes, the board tells the
\* truth for good, whatever updates were lost to one another before: the patrol's
\* to-do is open (or a human has dismissed it) while the anomaly lasts, and is not
\* open once it is gone, if the patrol is one that resolves.  A patrol that only
\* sights leaves its to-do to people, to decisions and to proposals.
BoardFollowsWorld ==
    <>[](IF anomalous THEN board[Mine] \in Open \cup {"DISMISSED"}
         ELSE kind = "resolving" => board[Mine] \notin Open)
=============================================================================
