----------------------------- MODULE AgentChat -----------------------------
(***************************************************************************)
(* Conversations with the agents: AgentDispatcher and the job list of      *)
(* ChatStore (clients/web/chat_engine.py) over BaseSecOpsAdkAgent.chat     *)
(* (agents/core/base_adk_agent.py).                                        *)
(*                                                                         *)
(* A message of the operator is dispatched to the agents it mentions, one  *)
(* after the other; issue workers and schedules chat with the same agents. *)
(* There is one object per agent, so conversations with it that overlap    *)
(* share its fields: the list of executed tool calls, the last widget and  *)
(* the last proposal.  REST handlers and patrols call the methods of the   *)
(* same objects in no conversation at all.  The tools of a turn run in     *)
(* threads, everything else on the event loop; the tools of a worker that  *)
(* was cancelled run on.                                                   *)
(***************************************************************************)
EXTENDS Naturals, Sequences

CONSTANTS Agent,
          Dispatch,   \* messages of the operator
          Worker,     \* runs of issue workers, and scheduled chats
          Request,    \* requests and patrols that call a method of an agent
          Mentions,   \* the agents each message mentions, in order
          Routed,     \* the agents that issues are routed to, or schedules prompt
          Served,     \* the agents whose methods requests and patrols call
          NoTurn,     \* no widget, no proposal
          MaxCalls,   \* tools called in all, in turns and outside
          MaxMillis   \* how far the clock runs

ASSUME ChatAssumption ==
    /\ Dispatch \cap Worker = {} /\ Request \cap (Dispatch \cup Worker) = {}
    /\ Mentions \in [Dispatch -> Seq(Agent) \ {<<>>}]
    /\ Routed \subseteq Agent /\ Served \subseteq Agent
    /\ MaxCalls \in Nat /\ MaxMillis \in Nat

VARIABLES chats,    \* what each dispatch, worker and request is at
          agents,   \* the fields of the agents
          jobs,     \* the job list: id -> the turn it stands for
          ended,    \* the turns of dispatches that have ended, and how
          millis,   \* when the last turn began
          tried     \* how many tools have been called

vars == <<chats, agents, jobs, ended, millis, tried>>

Chatter == Dispatch \cup Worker \cup Request

\* The turn number n of a chatter: one call of agent.chat, or of the method of a
\* request.
Turn == [by : Chatter, n : Nat \ {0}]

JobId == [agent : Agent, started : 0..MaxMillis]

\* idle, waiting for the model, done; or cancelled, with a tool still running.
Phase == {"idle", "thinking", "done", "abandoned"}

\* The last five fields are about the message that will be posted, and the job: the
\* message of a dispatch.
Chat == [phase    : Phase,
         mentions : Seq(Agent),
         n        : Nat,
         at       : 0..MaxMillis,   \* when the turn began
         from     : Nat,            \* turn_start_idx
         called   : BOOLEAN,        \* the turn has listed a call in time for the slice
         slice    : SUBSET Turn,    \* tools_run_this_turn; {} until it is taken
         met      : SUBSET Turn,    \* the turns and requests on with the agent since
         old      : BOOLEAN]        \* its job was given up, 180 s after it began

AgentState == [calls    : Seq(Turn),          \* executed_tool_calls
               widget   : Turn \cup {NoTurn}, \* last_widget
               proposal : Turn \cup {NoTurn}] \* last_submitted_proposal

Ended == [turn : Turn, agent : Agent, at : 0..MaxMillis, left : BOOLEAN]

Idle == [phase |-> "idle", mentions |-> <<>>, n |-> 0, at |-> 0, from |-> 0,
         called |-> FALSE, slice |-> {}, met |-> {}, old |-> FALSE]

Init ==
    /\ chats = [c \in Chatter |-> Idle]
    /\ agents = [a \in Agent |-> [calls |-> <<>>, widget |-> NoTurn, proposal |-> NoTurn]]
    /\ jobs = <<>>
    /\ ended = {}
    /\ millis = 0 /\ tried = 0

TurnOf(c)   == [by |-> c, n |-> chats[c].n]
AgentOf(c)  == chats[c].mentions[chats[c].n]

\* A turn of c with agent a is on: the model thinks, or a tool of a cancelled run
\* goes on.
OnWith(c, a) == chats[c].phase \in {"thinking", "abandoned"} /\ AgentOf(c) = a

\* What is left of a chat that is over.
Over(chat) == [Idle EXCEPT !.phase = "done", !.mentions = chat.mentions, !.n = chat.n]

-----------------------------------------------------------------------------
(* Turns *)

\* The job id of start_job, in one stream and topic.
Name(a, time) == [agent |-> a, started |-> time]

JobOf(d) == Name(AgentOf(d), chats[d].at)

\* A job takes the place of one that has its id.
Listed(list, id, turn) ==
    [i \in DOMAIN list \cup {id} |-> IF i = id THEN turn ELSE list[i]]

\* Mutant: a turn starts with an empty list of tool calls.
CallsAtStartCleared(calls) == <<>>

CallsAtStart(calls) == calls

\* Mutant: the proposal of the turn before is still there.
ProposalAtStartKept(proposal) == proposal

ProposalAtStart(proposal) == NoTurn

\* The chats when a turn, or the call of a request, begins with an agent.
Meeting(a, turn) ==
    [d \in Chatter |-> IF d \in Dispatch /\ OnWith(d, a)
                       THEN [chats[d] EXCEPT !.met = @ \cup {turn}] ELSE chats[d]]

\* start_job, if c is a dispatch, and the start of agent.chat in turn n, on the
\* fields the agents have by then.
BeginTurn(c, mentions, n, fields, time) ==
    LET a     == mentions[n]
        begun == CallsAtStart(fields[a].calls)
        chat  == [Idle EXCEPT !.phase = "thinking", !.mentions = mentions, !.n = n]
    IN  /\ chats' = [Meeting(a, [by |-> c, n |-> n]) EXCEPT ![c] =
                        IF c \in Dispatch
                        THEN [chat EXCEPT !.at   = time,
                                          !.from = Len(begun),
                                          !.met  = {TurnOf(d) : d \in {e \in Chatter \ {c} : OnWith(e, a)}}]
                        ELSE chat]
        /\ agents' = [fields EXCEPT ![a].calls = begun, ![a].proposal = ProposalAtStart(@)]
        /\ millis' = time

\* POST /api/messages, and dispatch up to the first agent it awaits.
PostMessage(d) ==
    /\ chats[d].phase = "idle"
    /\ \E time \in millis..MaxMillis : BeginTurn(d, Mentions[d], 1, agents, time)
    /\ jobs' = Listed(jobs, JobOf(d)', [by |-> d, n |-> 1])
    /\ UNCHANGED <<ended, tried>>

\* An issue worker starts its chat.
StartWorker(w) ==
    /\ chats[w].phase = "idle"
    /\ \E a \in Routed : BeginTurn(w, <<a>>, 1, agents, millis)
    /\ UNCHANGED <<jobs, ended, tried>>

\* A tool, in its thread.  The call is listed, unless the tool fails; it may leave
\* a widget or a proposal, and fail after it has.
CallTool(c) ==
    /\ chats[c].phase \in {"thinking", "abandoned"}
    /\ tried < MaxCalls /\ tried' = tried + 1
    /\ LET a == AgentOf(c)
       IN  \E listed \in BOOLEAN, leaves \in {"nothing", "widget", "proposal"} :
              /\ chats' = [chats EXCEPT ![c].called =
                              @ \/ (listed /\ c \in Dispatch /\ chats[c].slice = {})]
              /\ agents' = [agents EXCEPT ![a] =
                    [calls    |-> IF listed THEN Append(@.calls, TurnOf(c)) ELSE @.calls,
                     widget   |-> IF leaves = "widget" THEN TurnOf(c) ELSE @.widget,
                     proposal |-> IF leaves = "proposal" THEN TurnOf(c) ELSE @.proposal]]
    /\ UNCHANGED <<jobs, ended, millis>>

\* A REST handler, or a patrol, calls a method of an agent: on the event loop, in
\* no turn.  The method may list a call and leave a widget, or fail on the way; a
\* patrol that gets to its end clears the widget there is, whoever left it.
CallOutside(r) ==
    /\ chats[r].phase = "idle"
    /\ tried < MaxCalls /\ tried' = tried + 1
    /\ \E a \in Served, listed \in BOOLEAN, leaves \in BOOLEAN, patrolled \in BOOLEAN :
          LET turn == [by |-> r, n |-> 1]
          IN  /\ chats' = [Meeting(a, turn) EXCEPT ![r] =
                              [Idle EXCEPT !.phase = "done", !.mentions = <<a>>, !.n = 1]]
              /\ agents' = [agents EXCEPT ![a] =
                    [calls    |-> IF listed THEN Append(@.calls, turn) ELSE @.calls,
                     widget   |-> IF patrolled THEN NoTurn
                                  ELSE IF leaves THEN turn ELSE @.widget,
                     proposal |-> @.proposal]]
    /\ UNCHANGED <<jobs, ended, millis>>

\* executed_tool_calls[turn_start_idx:]
ToolsRun(d) ==
    LET calls == agents[AgentOf(d)].calls
    IN  {calls[i] : i \in (chats[d].from + 1)..Len(calls)}

\* The model has called tools and says nothing: the slice is taken, and the model
\* is asked for a summary, for which it may call more.
AskSummary(d) ==
    /\ chats[d].phase = "thinking" /\ chats[d].slice = {} /\ ToolsRun(d) # {}
    /\ chats' = [chats EXCEPT ![d].slice = ToolsRun(d)]
    /\ UNCHANGED <<agents, jobs, ended, millis, tried>>

\* What the message carries with which the turn of d would end now: a widget, or
\* else a proposal; its provenance block names the calls of the slice.  The text of
\* an error carries the widget at most, and that of an exception nothing.
Answer(d) ==
    LET agent == agents[AgentOf(d)]
    IN  [widget   |-> agent.widget,
         proposal |-> IF agent.widget = NoTurn THEN agent.proposal ELSE NoTurn,
         tools    |-> IF chats[d].slice = {} THEN ToolsRun(d) ELSE chats[d].slice]

\* Mutant: an agent that fails ends the dispatch.
GoesOnUnlessFailed(d, raised) == ~raised /\ chats[d].n < Len(chats[d].mentions)

GoesOn(d, raised) == chats[d].n < Len(chats[d].mentions)

\* Mutant: an agent that fails leaves its job on the list.
EndsJobUnlessFailed(raised) == ~raised

\* complete_job after an answer, fail_job after an exception
EndsJob(raised) == TRUE

\* The end of a dispatch's turn: its message, its job removed, its next agent.
\* Most branches of _execute_agent take the widget, whatever text agent.chat has
\* returned.  The others leave it with the agent after an error of agent.chat, as
\* an exception does: `raised`.
EndTurn(d, raised) ==
    LET fields == IF raised THEN agents ELSE [agents EXCEPT ![AgentOf(d)].widget = NoTurn]
        others == IF EndsJob(raised) THEN [id \in DOMAIN jobs \ {JobOf(d)} |-> jobs[id]] ELSE jobs
    IN  /\ d \in Dispatch /\ chats[d].phase = "thinking"
        /\ UNCHANGED tried
        /\ ended' = ended \cup {[turn |-> TurnOf(d), agent |-> AgentOf(d), at |-> chats[d].at,
                                left |-> raised]}
        /\ IF GoesOn(d, raised)
           THEN /\ \E time \in millis..MaxMillis :
                     BeginTurn(d, chats[d].mentions, chats[d].n + 1, fields, time)
                /\ jobs' = Listed(others, JobOf(d)', [by |-> d, n |-> chats'[d].n])
           ELSE /\ chats' = [chats EXCEPT ![d] = Over(@)]
                /\ agents' = fields
                /\ jobs' = others
                /\ UNCHANGED millis

AnswerTurn(d) == EndTurn(d, FALSE)
RaiseTurn(d)  == EndTurn(d, TRUE)

\* A worker's chat returns, and has taken the widget; or fails, or is cancelled,
\* and has not.
EndWorker(w) ==
    /\ w \in Worker /\ chats[w].phase = "thinking"
    /\ \/ /\ chats' = [chats EXCEPT ![w] = Over(@)]
          /\ agents' = [agents EXCEPT ![AgentOf(w)].widget = NoTurn]
       \/ /\ \/ chats' = [chats EXCEPT ![w] = Over(@)]
             \/ chats' = [chats EXCEPT ![w].phase = "abandoned"]
          /\ UNCHANGED agents
    /\ UNCHANGED <<jobs, ended, millis, tried>>

ThreadEnds(w) ==
    /\ chats[w].phase = "abandoned"
    /\ chats' = [chats EXCEPT ![w] = Over(@)]
    /\ UNCHANGED <<agents, jobs, ended, millis, tried>>

-----------------------------------------------------------------------------
(* The job list *)

\* list_active_jobs, for any browser that connects or changes its topic, when a job
\* on the list, that of the turn of d, began more than 180 s ago.
ReapJob(d) ==
    /\ d \in Dispatch /\ chats[d].phase = "thinking"
    /\ \E id \in DOMAIN jobs : jobs[id] = TurnOf(d)
    /\ chats' = [chats EXCEPT ![d].old = TRUE]
    /\ jobs' = [id \in {i \in DOMAIN jobs : jobs[i] # TurnOf(d)} |-> jobs[id]]
    /\ UNCHANGED <<agents, ended, millis, tried>>

End(d) == AnswerTurn(d) \/ RaiseTurn(d)

Next ==
    \/ \E d \in Dispatch : PostMessage(d) \/ AskSummary(d) \/ ReapJob(d) \/ End(d)
    \/ \E w \in Worker : StartWorker(w) \/ EndWorker(w) \/ ThreadEnds(w)
    \/ \E c \in Chatter : CallTool(c)
    \/ \E r \in Request : CallOutside(r)

\* Models answer, or refuse, in the end: nothing in the code bounds a chat.
Fairness == \A d \in Dispatch : WF_vars(End(d))

Spec == Init /\ [][Next]_vars /\ Fairness

-----------------------------------------------------------------------------
(* Properties *)

ChatTypes ==
    /\ chats \in [Chatter -> Chat]
    /\ agents \in [Agent -> AgentState]
    /\ DOMAIN jobs \subseteq JobId
    /\ ended \subseteq Ended
    /\ millis \in 0..MaxMillis /\ tried \in 0..MaxCalls

\* The state is well formed.  A job on the list stands for a turn under way; a
\* turn under way is on the list, unless it is old or another turn with the agent
\* began in the same millisecond.
JobListIsExact ==
    /\ ChatTypes
    /\ \A id \in DOMAIN jobs :
          \E d \in Dispatch : chats[d].phase = "thinking" /\ jobs[id] = TurnOf(d)
    /\ \A d \in Dispatch :
          chats[d].phase = "thinking" /\ ~chats[d].old =>
              \/ \E id \in DOMAIN jobs : jobs[id] = TurnOf(d)
              \/ \E e \in Dispatch \ {d} :
                    chats[e].phase = "thinking" /\ AgentOf(e) = AgentOf(d) /\ chats[e].at = chats[d].at
              \/ \E t \in ended : t.agent = AgentOf(d) /\ t.at = chats[d].at

\* The turn of d and those that were on with its agent since it began.
Around(d) == {TurnOf(d)} \cup chats[d].met

\* A message carries the widget or the proposal of its own turn; that of another
\* only if the two overlapped, or, for a widget, if the other ended in an error
\* that left it, or was a worker's, or left it in no turn at all.
MessagesCarryTheirOwn ==
    \A d \in Dispatch :
        chats[d].phase = "thinking" =>
            /\ Answer(d).proposal \in {NoTurn} \cup Around(d)
            /\ \/ Answer(d).widget \in {NoTurn} \cup Around(d)
               \/ Answer(d).widget.by \in Worker \cup Request
               \/ \E t \in ended : t.turn = Answer(d).widget /\ t.left

\* The provenance block of an answer names the turn's own tools, if it had listed
\* a call by the time the slice was taken; and others only of turns that overlapped
\* and of requests made during the turn.
ProvenanceIsComplete ==
    \A d \in Dispatch :
        chats[d].phase = "thinking" =>
            /\ chats[d].called => TurnOf(d) \in Answer(d).tools
            /\ Answer(d).tools \subseteq Around(d)

\* Every agent a message mentions answers it, or says that it failed, whatever
\* happened to the agents before it.
MentionsAreAnswered ==
    \A d \in Dispatch :
        chats[d].phase = "thinking" ~>
            {[by |-> d, n |-> n] : n \in DOMAIN chats[d].mentions} \subseteq {t.turn : t \in ended}
=============================================================================
