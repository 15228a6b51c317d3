--------------------------- MODULE AgentChatProofs ---------------------------
(***************************************************************************)
(* Proofs about AgentChat, for any agents, messages, workers and requests, *)
(* any mentions and any bounds.                                            *)
(*                                                                         *)
(* The argument: two turns that are on with one agent overlap, and that of *)
(* a dispatch knows the other (`TurnsMeet`).  So whatever it finds in the  *)
(* fields of its agent was left by itself, by a turn or a request that     *)
(* overlaps it, or, for a widget, which no turn clears when it begins, by  *)
(* one that ended without taking it.  The slice it takes of the calls      *)
(* stays what it was (`SliceNear`).                                        *)
(***************************************************************************)
EXTENDS AgentChat, TLAPS

-----------------------------------------------------------------------------
(* The invariant *)

\* A turn of c is on: the model thinks, or a tool of a cancelled run goes on.
IsOn(c) == chats[c].phase \in {"thinking", "abandoned"}

\* A turn that is on is one of the mentions; that of a dispatch is not abandoned,
\* and has not listed more calls than there are.
Placed ==
    /\ \A c \in Chatter : IsOn(c) => chats[c].n \in DOMAIN chats[c].mentions
    /\ \A d \in Dispatch : /\ chats[d].phase # "abandoned"
                           /\ IsOn(d) => chats[d].from <= Len(agents[AgentOf(d)].calls)

TurnsMeet ==
    \A d \in Dispatch, e \in Chatter :
        d # e /\ IsOn(d) /\ IsOn(e) /\ AgentOf(d) = AgentOf(e) => TurnOf(e) \in chats[d].met

\* The calls made since the turn of d began, and the proposal it finds.
CallsNear ==
    \A d \in Dispatch : IsOn(d) =>
        LET calls == agents[AgentOf(d)].calls
        IN  \A i \in (chats[d].from + 1)..Len(calls) : calls[i] \in Around(d)

OwnCallListed ==
    \A d \in Dispatch : IsOn(d) /\ chats[d].called =>
        LET calls == agents[AgentOf(d)].calls
        IN  \E i \in (chats[d].from + 1)..Len(calls) : calls[i] = TurnOf(d)

ProposalNear ==
    \A d \in Dispatch : IsOn(d) => agents[AgentOf(d)].proposal \in {NoTurn} \cup Around(d)

\* The slice, once it is taken.
SliceNear ==
    \A d \in Dispatch : IsOn(d) /\ chats[d].slice # {} =>
        /\ chats[d].slice \subseteq Around(d)
        /\ chats[d].called => TurnOf(d) \in chats[d].slice

\* Who has left the widget of an agent: a worker, a request, a dispatch that is on,
\* or one that ended in an error.
WidgetOwned ==
    \A a \in Agent :
        LET w == agents[a].widget
        IN  \/ w = NoTurn
            \/ w.by \in Worker \cup Request
            \/ \E d \in Dispatch : IsOn(d) /\ AgentOf(d) = a /\ w = TurnOf(d)
            \/ \E t \in ended : t.turn = w /\ t.left

\* A job stands for a turn under way, under the id of that turn.
JobsAreTurns ==
    \A id \in DOMAIN jobs :
        \E d \in Dispatch : chats[d].phase = "thinking" /\ jobs[id] = TurnOf(d) /\ id = JobOf(d)

\* The id of d was taken by another turn, which is on or has ended.
Displaced(d) ==
    \/ \E e \in Dispatch \ {d} :
          chats[e].phase = "thinking" /\ AgentOf(e) = AgentOf(d) /\ chats[e].at = chats[d].at
    \/ \E t \in ended : t.agent = AgentOf(d) /\ t.at = chats[d].at

TurnsAreListed ==
    \A d \in Dispatch :
        chats[d].phase = "thinking" /\ ~chats[d].old =>
            (\E id \in DOMAIN jobs : jobs[id] = TurnOf(d)) \/ Displaced(d)

ChatInv ==
    /\ ChatTypes
    /\ Placed
    /\ TurnsMeet
    /\ CallsNear
    /\ OwnCallListed
    /\ ProposalNear
    /\ SliceNear
    /\ WidgetOwned
    /\ JobsAreTurns
    /\ TurnsAreListed

\* What a turn may find in the fields of its agent.
FieldsInv == Placed /\ TurnsMeet /\ CallsNear /\ OwnCallListed /\ ProposalNear

-----------------------------------------------------------------------------
(* Lemmas *)

\* A turn that is on.
LEMMA TurnFacts ==
    ASSUME ChatTypes, Placed, NEW c \in Chatter, IsOn(c)
    PROVE  /\ AgentOf(c) \in Agent /\ TurnOf(c) \in Turn
           /\ chats[c].n \in 1..Len(chats[c].mentions)
<1>1. chats[c] \in Chat /\ chats[c].n \in DOMAIN chats[c].mentions
  BY DEF ChatTypes, Placed
<1>2. chats[c].mentions \in Seq(Agent) /\ chats[c].n \in Nat
  BY <1>1 DEF Chat
<1> QED
  BY <1>1, <1>2 DEF AgentOf, TurnOf, Turn

\* Whoever is not concerned by a step is where it was, but may have met a turn.
Stays(e) ==
    /\ chats'[e].phase = chats[e].phase /\ chats'[e].mentions = chats[e].mentions
    /\ chats'[e].n = chats[e].n /\ chats'[e].at = chats[e].at
    /\ chats'[e].from = chats[e].from /\ chats'[e].called = chats[e].called
    /\ chats'[e].slice = chats[e].slice /\ chats'[e].old = chats[e].old
    /\ chats[e].met \subseteq chats'[e].met

LEMMA OthersStay ==
    ASSUME NEW e, Stays(e)
    PROVE  /\ TurnOf(e)' = TurnOf(e) /\ AgentOf(e)' = AgentOf(e) /\ IsOn(e)' = IsOn(e)
           /\ JobOf(e)' = JobOf(e)
           /\ Around(e) \subseteq Around(e)'
BY DEF Stays, TurnOf, AgentOf, IsOn, JobOf, Name, Around

\* The id of a job names the agent and the time at which the turn began.
LEMMA JobIdFacts ==
    ASSUME NEW e
    PROVE  /\ JobOf(e).agent = AgentOf(e) /\ JobOf(e).started = chats[e].at
           /\ JobOf(e)'.agent = AgentOf(e)' /\ JobOf(e)'.started = chats'[e].at
BY DEF JobOf, Name

\* No turn begins, nothing is called or proposed: what turns find is what it was.
LEMMA QuietKeepsFields ==
    ASSUME ChatTypes, FieldsInv,
           \A a \in Agent : /\ agents'[a].calls = agents[a].calls
                            /\ agents'[a].proposal = agents[a].proposal,
           \A e \in Chatter :
              /\ IsOn(e)' => /\ IsOn(e)
                             /\ chats'[e].mentions = chats[e].mentions
                             /\ chats'[e].n = chats[e].n
                             /\ chats'[e].from = chats[e].from
                             /\ chats'[e].called = chats[e].called
                             /\ chats[e].met \subseteq chats'[e].met
              /\ e \in Dispatch => chats'[e].phase # "abandoned"
    PROVE  FieldsInv'
<1>1. \A e \in Chatter : IsOn(e)' =>
         /\ IsOn(e) /\ TurnOf(e)' = TurnOf(e) /\ AgentOf(e)' = AgentOf(e)
         /\ AgentOf(e) \in Agent /\ Around(e) \subseteq Around(e)'
         /\ agents'[AgentOf(e)].calls = agents[AgentOf(e)].calls
         /\ agents'[AgentOf(e)].proposal = agents[AgentOf(e)].proposal
  BY TurnFacts DEF TurnOf, AgentOf, FieldsInv, Around
<1>2. Placed'
  BY <1>1 DEF FieldsInv, Placed, Chatter
<1>3. TurnsMeet'
  BY <1>1 DEF FieldsInv, TurnsMeet, Chatter
<1>4. CallsNear'
  BY <1>1 DEF FieldsInv, CallsNear, Chatter
<1>5. OwnCallListed'
  BY <1>1 DEF FieldsInv, OwnCallListed, Chatter
<1>6. ProposalNear'
  BY <1>1 DEF FieldsInv, ProposalNear, Chatter
<1> QED
  BY <1>2, <1>3, <1>4, <1>5, <1>6 DEF FieldsInv

\* A slice that is taken stays, and so does what the turn had listed.
LEMMA SlicesStay ==
    ASSUME SliceNear,
           \A d \in Dispatch : IsOn(d)' /\ chats'[d].slice # {} =>
              /\ IsOn(d) /\ chats'[d].slice = chats[d].slice
              /\ chats'[d].called = chats[d].called /\ chats'[d].n = chats[d].n
              /\ chats[d].met \subseteq chats'[d].met
    PROVE  SliceNear'
BY DEF SliceNear, Around, TurnOf

\* The turns of dispatches with the agent a meet the one that begins.
LEMMA MeetingFacts ==
    ASSUME ChatTypes, NEW a, NEW turn \in Turn
    PROVE  /\ Meeting(a, turn) \in [Chatter -> Chat]
           /\ \A d \in Chatter :
                 LET m == Meeting(a, turn)[d]
                 IN  /\ m.phase = chats[d].phase /\ m.mentions = chats[d].mentions
                     /\ m.n = chats[d].n /\ m.at = chats[d].at /\ m.from = chats[d].from
                     /\ m.called = chats[d].called /\ m.slice = chats[d].slice
                     /\ m.old = chats[d].old /\ chats[d].met \subseteq m.met
                     /\ d \in Dispatch /\ OnWith(d, a) => turn \in m.met
<1>1. \A d \in Chatter : chats[d] \in Chat
  BY DEF ChatTypes
<1> QED
  BY <1>1 DEF Meeting, Chat

\* The turns that are on with the agent a, besides that of c.
Company(c, a) == {TurnOf(d) : d \in {e \in Chatter \ {c} : OnWith(e, a)}}

\* What a turn is when it begins.
Beginning(c, mentions, n, fields, time) ==
    LET chat == [Idle EXCEPT !.phase = "thinking", !.mentions = mentions, !.n = n]
    IN  IF c \in Dispatch
        THEN [chat EXCEPT !.at   = time,
                          !.from = Len(fields[mentions[n]].calls),
                          !.met  = Company(c, mentions[n])]
        ELSE chat

\* A turn that begins leaves the fields of its agent to the turns that are on,
\* and meets every one of them.
LEMMA BeginFacts ==
    ASSUME ChatTypes, FieldsInv, SliceNear, NEW c \in Chatter,
           NEW mentions \in Seq(Agent), NEW n \in DOMAIN mentions,
           NEW fields \in [Agent -> AgentState],
           \A b \in Agent : /\ fields[b].calls = agents[b].calls
                            /\ fields[b].proposal = agents[b].proposal,
           NEW time \in millis..MaxMillis,
           BeginTurn(c, mentions, n, fields, time)
    PROVE  /\ chats' \in [Chatter -> Chat] /\ agents' \in [Agent -> AgentState]
           /\ chats'[c].phase = "thinking" /\ chats'[c].mentions = mentions
           /\ chats'[c].n = n /\ (c \in Dispatch => chats'[c].at = time)
           /\ \A e \in Chatter \ {c} : Stays(e)
           /\ millis' \in 0..MaxMillis
           /\ \A b \in Agent : agents'[b].widget = fields[b].widget
           /\ FieldsInv' /\ SliceNear'
<1> DEFINE a    == mentions[n]
           turn == [by |-> c, n |-> n]
<1>1. a \in Agent /\ n \in Nat \ {0} /\ fields[a] \in AgentState /\ turn \in Turn
  BY DEF Turn
<1>2. chats' = [Meeting(a, turn) EXCEPT ![c] = Beginning(c, mentions, n, fields, time)]
  BY DEF BeginTurn, CallsAtStart, Beginning, Company
<1>3. PICK met, from, at :
         /\ met = IF c \in Dispatch THEN Company(c, a) ELSE {}
         /\ from = IF c \in Dispatch THEN Len(fields[a].calls) ELSE 0
         /\ at = IF c \in Dispatch THEN time ELSE 0
  OBVIOUS
<1>4. PICK x \in Chat :
         /\ x = Beginning(c, mentions, n, fields, time)
         /\ x.phase = "thinking" /\ x.mentions = mentions /\ x.n = n /\ x.at = at
         /\ x.called = FALSE /\ x.slice = {} /\ x.old = FALSE
         /\ x.met = met /\ x.from = from
  <2>1. Beginning(c, mentions, n, fields, time) =
           [phase |-> "thinking", mentions |-> mentions, n |-> n, at |-> at, from |-> from,
            called |-> FALSE, slice |-> {}, met |-> met, old |-> FALSE]
    BY <1>3 DEF Beginning, Idle
  <2>2. Company(c, a) \in SUBSET Turn
    BY TurnFacts DEF Company, OnWith, IsOn, FieldsInv
  <2>3. Len(fields[a].calls) \in Nat
    BY <1>1 DEF AgentState
  <2>4. time \in 0..MaxMillis /\ 0 \in 0..MaxMillis
    BY ChatAssumption DEF ChatTypes
  <2>5. met \in SUBSET Turn /\ from \in Nat /\ at \in 0..MaxMillis /\ {} \in SUBSET Turn
    BY <1>3, <2>2, <2>3, <2>4
  <2>6. PICK x : x = Beginning(c, mentions, n, fields, time)
    OBVIOUS
  <2>7. x \in Chat
    BY <1>1, <2>1, <2>5, <2>6 DEF Chat, Phase
  <2> QED
    BY <2>1, <2>6, <2>7
<1>5. PICK m : m = Meeting(a, turn)
  OBVIOUS
<1>6. /\ m \in [Chatter -> Chat]
      /\ \A d \in Chatter : /\ m[d].phase = chats[d].phase /\ m[d].mentions = chats[d].mentions
                            /\ m[d].n = chats[d].n /\ m[d].at = chats[d].at
                            /\ m[d].from = chats[d].from /\ m[d].called = chats[d].called
                            /\ m[d].slice = chats[d].slice /\ m[d].old = chats[d].old
                            /\ chats[d].met \subseteq m[d].met
                            /\ d \in Dispatch /\ OnWith(d, a) => turn \in m[d].met
  BY <1>1, <1>5, MeetingFacts
<1>7. chats' = [m EXCEPT ![c] = x]
  BY <1>2, <1>4, <1>5
<1>8. /\ chats' \in [Chatter -> Chat] /\ chats'[c] = x
      /\ \A e \in Chatter \ {c} : chats'[e] = m[e]
  BY <1>4, <1>6, <1>7
<1>9. \A e \in Chatter \ {c} : Stays(e)
  BY <1>6, <1>8 DEF Stays
<1>10. /\ agents' = [fields EXCEPT ![a].calls = fields[a].calls, ![a].proposal = NoTurn]
       /\ agents' \in [Agent -> AgentState]
  BY <1>1 DEF BeginTurn, CallsAtStart, ProposalAtStart, AgentState
<1>11. \A b \in Agent : /\ agents'[b].widget = fields[b].widget
                        /\ agents'[b].calls = agents[b].calls
                        /\ agents'[b].proposal = IF b = a THEN NoTurn ELSE agents[b].proposal
  BY <1>1, <1>10 DEF AgentState
<1>12. /\ TurnOf(c)' = turn /\ AgentOf(c)' = a /\ IsOn(c)' /\ ~chats'[c].called
       /\ c \in Dispatch => chats'[c].from = Len(agents[a].calls)
  BY <1>1, <1>3, <1>4, <1>8 DEF TurnOf, AgentOf, IsOn
<1>13. \A e \in Chatter \ {c} : /\ TurnOf(e)' = TurnOf(e) /\ AgentOf(e)' = AgentOf(e)
                                /\ IsOn(e)' = IsOn(e) /\ Around(e) \subseteq Around(e)'
                                /\ IsOn(e) => AgentOf(e) \in Agent
  BY <1>9, OthersStay, TurnFacts DEF FieldsInv
<1>14. Len(agents[a].calls) \in Nat
  BY <1>1 DEF ChatTypes, AgentState
<1>15. Placed'
  <2>1. \A e \in Chatter \ {c} : IsOn(e)' => chats'[e].n \in DOMAIN chats'[e].mentions
    BY <1>9, <1>13 DEF FieldsInv, Placed, Stays
  <2>2. chats'[c].n \in DOMAIN chats'[c].mentions /\ chats'[c].phase # "abandoned"
    BY <1>4, <1>8
  <2>3. \A d \in Dispatch \ {c} : /\ chats'[d].phase # "abandoned"
                                  /\ IsOn(d)' => chats'[d].from <= Len(agents[AgentOf(d)].calls)'
    BY <1>9, <1>11, <1>13 DEF FieldsInv, Placed, Stays, Chatter
  <2>4. c \in Dispatch => chats'[c].from <= Len(agents[AgentOf(c)].calls)'
    BY <1>1, <1>11, <1>12, <1>14
  <2> QED
    BY <2>1, <2>2, <2>3, <2>4 DEF Placed
<1>16. TurnsMeet'
  <2> SUFFICES ASSUME NEW d \in Dispatch, NEW e \in Chatter, d # e, IsOn(d)', IsOn(e)',
                      AgentOf(d)' = AgentOf(e)'
               PROVE  TurnOf(e)' \in chats'[d].met
    BY DEF TurnsMeet
  <2>1. CASE d # c /\ e # c
    BY <2>1, <1>9, <1>13 DEF FieldsInv, TurnsMeet, Stays, Chatter
  <2>2. CASE d = c
    <3>1. e \in Chatter \ {c} /\ OnWith(e, a)
      BY <2>2, <1>12, <1>13 DEF OnWith, IsOn
    <3>2. TurnOf(e) \in Company(c, a)
      BY <3>1 DEF Company
    <3> QED
      BY <2>2, <3>1, <3>2, <1>3, <1>4, <1>8, <1>13
  <2>3. CASE e = c
    <3>1. d \in Chatter \ {c} /\ OnWith(d, a)
      BY <2>3, <1>12, <1>13 DEF OnWith, IsOn, Chatter
    <3> QED
      BY <2>3, <3>1, <1>6, <1>8, <1>12
  <2> QED
    BY <2>1, <2>2, <2>3
<1>17. CallsNear'
  <2> SUFFICES ASSUME NEW e \in Dispatch, IsOn(e)',
                      NEW i \in (chats[e].from + 1)'..Len(agents[AgentOf(e)].calls)'
               PROVE  agents[AgentOf(e)].calls[i]' \in Around(e)'
    BY DEF CallsNear
  <2>1. e # c
    <3> SUFFICES ASSUME e = c PROVE FALSE
      OBVIOUS
    <3> QED
      BY <1>1, <1>11, <1>12, <1>14
  <2> QED
    BY <2>1, <1>9, <1>11, <1>13 DEF FieldsInv, CallsNear, Stays, Chatter
<1>18. OwnCallListed'
  BY <1>9, <1>11, <1>12, <1>13 DEF FieldsInv, OwnCallListed, Stays, Chatter
<1>19. ProposalNear'
  <2> SUFFICES ASSUME NEW e \in Dispatch, IsOn(e)'
               PROVE  agents[AgentOf(e)].proposal' \in {NoTurn} \cup Around(e)'
    BY DEF ProposalNear
  <2>1. CASE e = c
    BY <2>1, <1>1, <1>11, <1>12
  <2>2. CASE e # c
    BY <2>2, <1>11, <1>13 DEF FieldsInv, ProposalNear, Chatter
  <2> QED
    BY <2>1, <2>2
<1>20. SliceNear'
  BY <1>4, <1>8, <1>9, SlicesStay, OthersStay DEF Stays, Chatter
<1>21. millis' \in 0..MaxMillis
  BY DEF BeginTurn, ChatTypes
<1> QED
  BY <1>3, <1>4, <1>8, <1>9, <1>10, <1>11, <1>15, <1>16, <1>17, <1>18, <1>19, <1>20, <1>21 DEF FieldsInv

LEMMA IdleIsChat == Idle \in Chat
<1>1. 0 \in 0..MaxMillis /\ <<>> \in Seq(Agent) /\ {} \in SUBSET Turn
  BY ChatAssumption
<1> QED
  BY <1>1 DEF Idle, Chat, Phase

\* What is left of a chat that is over.
LEMMA OverIsChat ==
    ASSUME NEW chat \in Chat
    PROVE  Over(chat) \in Chat /\ Over(chat).phase = "done"
<1>1. chat.mentions \in Seq(Agent) /\ chat.n \in Nat
  BY DEF Chat
<1> QED
  BY <1>1, IdleIsChat DEF Over, Chat, Phase

\* Where the jobs of others are, once the turn of d has ended or its first turn
\* begins: `others` is what is left of the list for them.
Remains(d, others) ==
    /\ \A id \in DOMAIN others :
          \E e \in Dispatch \ {d} :
             chats[e].phase = "thinking" /\ others[id] = TurnOf(e) /\ id = JobOf(e)
    /\ \A e \in Dispatch \ {d} :
          chats[e].phase = "thinking" /\ ~chats[e].old =>
             \/ \E id \in DOMAIN others : others[id] = TurnOf(e)
             \/ \E x \in Dispatch \ {d, e} :
                   chats[x].phase = "thinking" /\ AgentOf(x) = AgentOf(e) /\ chats[x].at = chats[e].at
             \/ \E t \in ended' : t.agent = AgentOf(e) /\ t.at = chats[e].at

\* The job list after the turn of d has ended, or a turn of d has begun.
LEMMA JobsAfter ==
    ASSUME ChatTypes', FieldsInv', NEW d \in Dispatch, NEW others, Remains(d, others),
           DOMAIN others \subseteq JobId,
           \A e \in Dispatch \ {d} : Stays(e),
           \/ chats'[d].phase = "done" /\ jobs' = others
           \/ chats'[d].phase = "thinking" /\ jobs' = Listed(others, JobOf(d)', TurnOf(d)')
    PROVE  JobsAreTurns' /\ TurnsAreListed'
<1>1. \A e \in Dispatch \ {d} : /\ TurnOf(e)' = TurnOf(e) /\ AgentOf(e)' = AgentOf(e)
                                /\ JobOf(e)' = JobOf(e)
  BY OthersStay
<1>0. \A e \in Dispatch \ {d} : /\ chats'[e].phase = chats[e].phase /\ chats'[e].at = chats[e].at
                                /\ chats'[e].old = chats[e].old
  BY DEF Stays
<1>2. CASE chats'[d].phase = "done" /\ jobs' = others
  <2>1. JobsAreTurns'
    BY <1>0, <1>1, <1>2 DEF JobsAreTurns, Remains
  <2>2. TurnsAreListed'
    <3> SUFFICES ASSUME NEW e \in Dispatch, chats'[e].phase = "thinking", ~chats'[e].old
                 PROVE  (\E id \in DOMAIN jobs' : jobs'[id] = TurnOf(e)') \/ Displaced(e)'
      BY DEF TurnsAreListed
    <3>1. e # d
      BY <1>2
    <3>2. CASE \E id \in DOMAIN others : others[id] = TurnOf(e)
      BY <1>0, <1>1, <1>2, <3>1, <3>2
    <3>3. CASE \E x \in Dispatch \ {d, e} :
                   chats[x].phase = "thinking" /\ AgentOf(x) = AgentOf(e) /\ chats[x].at = chats[e].at
      BY <1>0, <1>1, <3>1, <3>3 DEF Displaced
    <3>4. CASE \E t \in ended' : t.agent = AgentOf(e) /\ t.at = chats[e].at
      BY <1>0, <1>1, <3>1, <3>4 DEF Displaced
    <3> QED
      BY <1>0, <3>1, <3>2, <3>3, <3>4 DEF Remains
  <2> QED
    BY <2>1, <2>2
<1>3. CASE chats'[d].phase = "thinking" /\ jobs' = Listed(others, JobOf(d)', TurnOf(d)')
  <2>1. /\ DOMAIN jobs' = DOMAIN others \cup {JobOf(d)'}
        /\ jobs'[JobOf(d)'] = TurnOf(d)'
        /\ \A id \in DOMAIN others : id # JobOf(d)' => jobs'[id] = others[id]
    BY <1>3 DEF Listed
  <2>2. JobsAreTurns'
    BY <1>0, <1>1, <1>3, <2>1 DEF JobsAreTurns, Remains
  <2>3. TurnsAreListed'
    <3> SUFFICES ASSUME NEW e \in Dispatch, e # d, chats'[e].phase = "thinking", ~chats'[e].old
                 PROVE  (\E id \in DOMAIN jobs' : jobs'[id] = TurnOf(e)') \/ Displaced(e)'
      BY <2>1 DEF TurnsAreListed
    <3>1. CASE \E id \in DOMAIN others : others[id] = TurnOf(e)
      <4>1. PICK id \in DOMAIN others : others[id] = TurnOf(e)
        BY <3>1
      <4>2. id = JobOf(e)
        BY <4>1 DEF Remains, TurnOf
      <4>3. CASE id = JobOf(d)'
        <5>1. AgentOf(d)' = AgentOf(e)' /\ chats'[d].at = chats'[e].at
          <6>1. JobOf(e)' = JobOf(d)'
            BY <1>0, <1>1, <4>2, <4>3
          <6> QED
            BY <6>1, JobIdFacts
        <5> QED
          BY <1>3, <5>1 DEF Displaced
      <4>4. CASE id # JobOf(d)'
        BY <1>0, <1>1, <2>1, <4>1, <4>4
      <4> QED
        BY <4>3, <4>4
    <3>2. CASE \E x \in Dispatch \ {d, e} :
                   chats[x].phase = "thinking" /\ AgentOf(x) = AgentOf(e) /\ chats[x].at = chats[e].at
      BY <1>0, <1>1, <3>2 DEF Displaced
    <3>3. CASE \E t \in ended' : t.agent = AgentOf(e) /\ t.at = chats[e].at
      BY <1>0, <1>1, <3>3 DEF Displaced
    <3> QED
      BY <1>0, <3>1, <3>2, <3>3 DEF Remains
  <2> QED
    BY <2>2, <2>3
<1> QED
  BY <1>2, <1>3

\* A step of a chat that is not a dispatch's leaves the job list as it is.
LEMMA JobsStay ==
    ASSUME JobsAreTurns, TurnsAreListed, jobs' = jobs, ended' = ended,
           \A d \in Dispatch : /\ chats'[d].phase = chats[d].phase
                               /\ chats'[d].mentions = chats[d].mentions
                               /\ chats'[d].n = chats[d].n
                               /\ chats'[d].at = chats[d].at
                               /\ chats'[d].old = chats[d].old
    PROVE  JobsAreTurns' /\ TurnsAreListed'
<1>1. \A d \in Dispatch : /\ TurnOf(d)' = TurnOf(d) /\ AgentOf(d)' = AgentOf(d)
                          /\ JobOf(d)' = JobOf(d)
  BY DEF TurnOf, AgentOf, JobOf, Name
<1> QED
  BY <1>1 DEF JobsAreTurns, TurnsAreListed, Displaced

\* The calls since the turn of d began.
LEMMA ToolsRunFacts ==
    ASSUME ChatTypes, FieldsInv, NEW d \in Dispatch, IsOn(d)
    PROVE  /\ ToolsRun(d) \in SUBSET Turn /\ ToolsRun(d) \subseteq Around(d)
           /\ chats[d].called => TurnOf(d) \in ToolsRun(d)
<1> DEFINE calls == agents[AgentOf(d)].calls
<1>1. d \in Chatter /\ AgentOf(d) \in Agent /\ chats[d] \in Chat
  BY TurnFacts DEF Chatter, FieldsInv, ChatTypes
<1>2. calls \in Seq(Turn) /\ chats[d].from \in Nat
  BY <1>1 DEF ChatTypes, AgentState, Chat
<1>3. \A i \in (chats[d].from + 1)..Len(calls) : i \in 1..Len(calls)
  BY <1>2
<1>4. \A u \in ToolsRun(d) : u \in Turn /\ u \in Around(d)
  BY <1>2, <1>3 DEF ToolsRun, FieldsInv, CallsNear
<1>5. chats[d].called => TurnOf(d) \in ToolsRun(d)
  BY DEF ToolsRun, FieldsInv, OwnCallListed
<1> QED
  BY <1>4, <1>5

\* A call of t with the agent a: it may be listed, and leave a proposal.
LEMMA FieldsAfterCall ==
    ASSUME ChatTypes, FieldsInv, NEW a \in Agent, NEW t \in Turn,
           \A b \in Agent \ {a} : agents'[b] = agents[b],
           agents'[a].calls \in {agents[a].calls, Append(agents[a].calls, t)},
           agents'[a].proposal \in {agents[a].proposal, t},
           \A e \in Chatter : IsOn(e)' =>
              /\ IsOn(e)
              /\ chats'[e].mentions = chats[e].mentions /\ chats'[e].n = chats[e].n
              /\ chats'[e].from = chats[e].from /\ chats[e].met \subseteq chats'[e].met,
           \A d \in Dispatch :
              /\ chats'[d].phase # "abandoned"
              /\ IsOn(d)' /\ AgentOf(d) = a => t \in Around(d)'
              /\ IsOn(d)' /\ chats'[d].called =>
                    \/ chats[d].called
                    \/ /\ AgentOf(d) = a /\ TurnOf(d) = t
                       /\ agents'[a].calls = Append(agents[a].calls, t)
    PROVE  FieldsInv'
<1> DEFINE old == agents[a].calls
           new == agents'[a].calls
<1>1. \A e \in Chatter : IsOn(e)' =>
         /\ IsOn(e) /\ TurnOf(e)' = TurnOf(e) /\ AgentOf(e)' = AgentOf(e)
         /\ AgentOf(e) \in Agent /\ Around(e) \subseteq Around(e)'
         /\ chats'[e].from = chats[e].from /\ chats[e].from \in Nat
  BY TurnFacts DEF TurnOf, AgentOf, FieldsInv, Around, ChatTypes, Chat
<1>2. old \in Seq(Turn) /\ Len(old) \in Nat
  BY DEF ChatTypes, AgentState
<1>3. /\ Len(new) \in {Len(old), Len(old) + 1}
      /\ \A i \in 1..Len(old) : new[i] = old[i]
      /\ Len(new) # Len(old) => new[Len(old) + 1] = t
      /\ new = Append(old, t) => Len(new) = Len(old) + 1
  <2>1. CASE new = Append(old, t)
    <3>1. /\ Len(Append(old, t)) = Len(old) + 1
          /\ \A i \in 1..Len(old) : Append(old, t)[i] = old[i]
          /\ Append(old, t)[Len(old) + 1] = t
      BY <1>2
    <3> QED
      BY <2>1, <3>1
  <2>2. CASE new = old /\ new # Append(old, t)
    BY <2>2
  <2> QED
    BY <2>1, <2>2
<1>4. Placed'
  <2>1. \A e \in Chatter : IsOn(e)' => chats'[e].n \in DOMAIN chats'[e].mentions
    BY DEF FieldsInv, Placed
  <2>2. ASSUME NEW d \in Dispatch, IsOn(d)'
        PROVE  chats'[d].from <= Len(agents[AgentOf(d)].calls)'
    <3>1. d \in Chatter /\ chats[d].from <= Len(agents[AgentOf(d)].calls)
      BY <1>1, <2>2 DEF FieldsInv, Placed, Chatter
    <3>2. CASE AgentOf(d) = a
      BY <1>1, <1>2, <1>3, <2>2, <3>1, <3>2
    <3>3. CASE AgentOf(d) # a
      BY <1>1, <2>2, <3>1, <3>3
    <3> QED
      BY <3>2, <3>3
  <2> QED
    BY <2>1, <2>2 DEF Placed
<1>5. TurnsMeet'
  BY <1>1 DEF FieldsInv, TurnsMeet, Chatter
<1>6. CallsNear'
  <2> SUFFICES ASSUME NEW d \in Dispatch, IsOn(d)',
                      NEW i \in (chats[d].from + 1)..Len(agents'[AgentOf(d)].calls)
               PROVE  agents'[AgentOf(d)].calls[i] \in Around(d)'
    BY <1>1 DEF CallsNear, Chatter
  <2>1. /\ d \in Chatter /\ IsOn(d) /\ AgentOf(d) \in Agent /\ Around(d) \subseteq Around(d)'
        /\ chats[d].from \in Nat
    BY <1>1 DEF Chatter
  <2>2. CASE AgentOf(d) # a
    BY <2>1, <2>2 DEF FieldsInv, CallsNear
  <2>3. CASE AgentOf(d) = a /\ i = Len(old) + 1
    BY <1>2, <1>3, <2>3
  <2>4. CASE AgentOf(d) = a /\ i # Len(old) + 1
    <3>1. i \in (chats[d].from + 1)..Len(old) /\ i \in 1..Len(old)
      BY <1>2, <1>3, <2>1, <2>4
    <3>2. old[i] \in Around(d)
      BY <2>1, <2>4, <3>1 DEF FieldsInv, CallsNear
    <3> QED
      BY <1>3, <2>1, <2>4, <3>1, <3>2
  <2> QED
    BY <2>2, <2>3, <2>4
<1>7. OwnCallListed'
  <2> SUFFICES ASSUME NEW d \in Dispatch, IsOn(d)', chats'[d].called
               PROVE  \E i \in (chats[d].from + 1)..Len(agents'[AgentOf(d)].calls) :
                         agents'[AgentOf(d)].calls[i] = TurnOf(d)
    BY <1>1 DEF OwnCallListed, Chatter
  <2>1. /\ d \in Chatter /\ IsOn(d) /\ AgentOf(d) \in Agent /\ chats[d].from \in Nat
        /\ chats[d].from <= Len(agents[AgentOf(d)].calls)
    BY <1>1 DEF Chatter, FieldsInv, Placed
  <2>2. CASE chats[d].called /\ AgentOf(d) # a
    BY <2>1, <2>2 DEF FieldsInv, OwnCallListed
  <2>3. CASE chats[d].called /\ AgentOf(d) = a
    <3>1. PICK i \in (chats[d].from + 1)..Len(old) : old[i] = TurnOf(d)
      BY <2>1, <2>3 DEF FieldsInv, OwnCallListed
    <3>2. i \in 1..Len(old) /\ i \in (chats[d].from + 1)..Len(new)
      BY <1>2, <1>3, <2>1
    <3> QED
      BY <1>3, <2>3, <3>1, <3>2
  <2>4. CASE ~chats[d].called
    <3>1. AgentOf(d) = a /\ TurnOf(d) = t /\ new = Append(old, t)
      BY <2>4
    <3>2. Len(old) + 1 \in (chats[d].from + 1)..Len(new) /\ new[Len(old) + 1] = t
      BY <1>2, <1>3, <2>1, <3>1
    <3> QED
      BY <3>1, <3>2
  <2> QED
    BY <2>2, <2>3, <2>4
<1>8. ProposalNear'
  <2> SUFFICES ASSUME NEW d \in Dispatch, IsOn(d)'
               PROVE  agents'[AgentOf(d)].proposal \in {NoTurn} \cup Around(d)'
    BY <1>1 DEF ProposalNear, Chatter
  <2>1. /\ IsOn(d) /\ AgentOf(d) \in Agent /\ Around(d) \subseteq Around(d)'
    BY <1>1 DEF Chatter
  <2>2. agents[AgentOf(d)].proposal \in {NoTurn} \cup Around(d)
    BY <2>1 DEF FieldsInv, ProposalNear
  <2> QED
    BY <2>1, <2>2
<1> QED
  BY <1>4, <1>5, <1>6, <1>7, <1>8 DEF FieldsInv

-----------------------------------------------------------------------------
(* The steps *)

\* The first turn of a message.
LEMMA PostMessageStep ==
    ASSUME ChatInv, NEW d \in Dispatch, PostMessage(d)
    PROVE  ChatInv'
<1> USE DEF ChatInv
<1>1. d \in Chatter /\ FieldsInv
  BY DEF Chatter, FieldsInv
<1>2. Mentions[d] \in Seq(Agent) /\ 1 \in DOMAIN Mentions[d]
  BY ChatAssumption
<1>3. PICK time \in millis..MaxMillis : BeginTurn(d, Mentions[d], 1, agents, time)
  BY DEF PostMessage
<1>4. agents \in [Agent -> AgentState]
  BY DEF ChatTypes
<1>5. /\ chats' \in [Chatter -> Chat] /\ agents' \in [Agent -> AgentState]
      /\ chats'[d].phase = "thinking" /\ chats'[d].mentions = Mentions[d]
      /\ chats'[d].n = 1 /\ (d \in Dispatch => chats'[d].at = time)
      /\ \A e \in Chatter \ {d} : Stays(e)
      /\ millis' \in 0..MaxMillis
      /\ \A b \in Agent : agents'[b].widget = agents[b].widget
      /\ FieldsInv' /\ SliceNear'
  BY <1>1, <1>2, <1>3, <1>4, BeginFacts
<1>6. ~IsOn(d) /\ chats[d].phase # "thinking"
  BY DEF PostMessage, IsOn
<1>7. TurnOf(d)' = [by |-> d, n |-> 1] /\ JobOf(d)' \in JobId
  <2>1. time \in 0..MaxMillis
    BY DEF ChatTypes
  <2> QED
    BY <1>2, <1>5, <2>1 DEF TurnOf, JobOf, Name, JobId, AgentOf
<1>8. jobs' = Listed(jobs, JobOf(d)', TurnOf(d)') /\ ended' = ended /\ tried' = tried
  BY <1>7 DEF PostMessage
<1>9. ChatTypes'
  <2>1. DOMAIN jobs' \subseteq JobId
    BY <1>7, <1>8 DEF ChatTypes, Listed
  <2> QED
    BY <1>5, <1>8, <2>1 DEF ChatTypes
<1>10. Remains(d, jobs)
  BY <1>6, <1>8 DEF JobsAreTurns, TurnsAreListed, Remains, Displaced
<1>11. JobsAreTurns' /\ TurnsAreListed'
  BY <1>1, <1>5, <1>7, <1>8, <1>9, <1>10, JobsAfter DEF ChatTypes, Chatter
<1>12. WidgetOwned'
  <2>1. \A e \in Dispatch : IsOn(e) => IsOn(e)' /\ TurnOf(e)' = TurnOf(e) /\ AgentOf(e)' = AgentOf(e)
    BY <1>5, <1>6, OthersStay DEF Chatter
  <2> QED
    BY <1>5, <1>8, <2>1 DEF WidgetOwned
<1> QED
  BY <1>5, <1>9, <1>11, <1>12 DEF FieldsInv

\* A worker thread starts its turn.
LEMMA StartWorkerStep ==
    ASSUME ChatInv, NEW w \in Worker, StartWorker(w)
    PROVE  ChatInv'
<1> USE DEF ChatInv
<1>1. w \in Chatter /\ w \notin Dispatch /\ FieldsInv
  BY ChatAssumption DEF Chatter, FieldsInv
<1>2. PICK mentions \in Seq(Agent) : /\ 1 \in DOMAIN mentions
                                    /\ BeginTurn(w, mentions, 1, agents, millis)
  <2>1. PICK a \in Routed : BeginTurn(w, <<a>>, 1, agents, millis)
    BY DEF StartWorker
  <2>2. <<a>> \in Seq(Agent) /\ 1 \in DOMAIN <<a>>
    BY ChatAssumption
  <2> QED
    BY <2>1, <2>2
<1>3. agents \in [Agent -> AgentState] /\ millis \in millis..MaxMillis
  BY ChatAssumption DEF ChatTypes
<1>4. /\ chats' \in [Chatter -> Chat] /\ agents' \in [Agent -> AgentState]
      /\ \A e \in Chatter \ {w} : Stays(e)
      /\ millis' \in 0..MaxMillis
      /\ \A b \in Agent : agents'[b].widget = agents[b].widget
      /\ FieldsInv' /\ SliceNear'
  BY <1>1, <1>2, <1>3, BeginFacts
<1>5. jobs' = jobs /\ ended' = ended /\ tried' = tried
  BY DEF StartWorker
<1>6. ChatTypes'
  BY <1>4, <1>5 DEF ChatTypes
<1>7. \A d \in Dispatch : Stays(d)
  BY <1>1, <1>4 DEF Chatter
<1>8. JobsAreTurns' /\ TurnsAreListed'
  BY <1>5, <1>7, JobsStay DEF Stays
<1>9. WidgetOwned'
  <2>1. \A e \in Dispatch : IsOn(e) => IsOn(e)' /\ TurnOf(e)' = TurnOf(e) /\ AgentOf(e)' = AgentOf(e)
    BY <1>7, OthersStay
  <2> QED
    BY <1>4, <1>5, <2>1 DEF WidgetOwned
<1> QED
  BY <1>4, <1>6, <1>8, <1>9 DEF FieldsInv

\* A tool may list its call, and leave a proposal or a widget in the agent's fields.
LEMMA CallToolStep ==
    ASSUME ChatInv, NEW c \in Chatter, CallTool(c)
    PROVE  ChatInv'
<1> USE DEF ChatInv
<1> DEFINE a == AgentOf(c)
           t == TurnOf(c)
<1>1. IsOn(c) /\ a \in Agent /\ t \in Turn /\ agents[a] \in AgentState /\ chats[c] \in Chat
  BY TurnFacts DEF CallTool, IsOn, ChatTypes
<1>2. PICK listed \in BOOLEAN, leaves \in {"nothing", "widget", "proposal"} :
         /\ chats' = [chats EXCEPT ![c].called =
                         @ \/ (listed /\ c \in Dispatch /\ chats[c].slice = {})]
         /\ agents' = [agents EXCEPT ![a] =
                       [calls    |-> IF listed THEN Append(@.calls, t) ELSE @.calls,
                        widget   |-> IF leaves = "widget" THEN t ELSE @.widget,
                        proposal |-> IF leaves = "proposal" THEN t ELSE @.proposal]]
  BY DEF CallTool
<1>3. /\ UNCHANGED <<jobs, ended, millis>> /\ tried' \in 0..MaxCalls
  BY ChatAssumption DEF CallTool, ChatTypes
<1>4. PICK called \in BOOLEAN :
         /\ called = (chats[c].called \/ (listed /\ c \in Dispatch /\ chats[c].slice = {}))
         /\ chats' = [chats EXCEPT ![c].called = called]
  BY <1>1, <1>2 DEF Chat
<1>5. /\ chats' \in [Chatter -> Chat]
      /\ \A e \in Chatter : /\ chats'[e].phase = chats[e].phase /\ chats'[e].mentions = chats[e].mentions
                            /\ chats'[e].n = chats[e].n /\ chats'[e].at = chats[e].at
                            /\ chats'[e].old = chats[e].old /\ chats'[e].from = chats[e].from
                            /\ chats'[e].slice = chats[e].slice /\ chats'[e].met = chats[e].met
                            /\ chats'[e].called = IF e = c THEN called ELSE chats[e].called
  BY <1>4 DEF ChatTypes, Chat
<1>6. \A e \in Chatter : /\ TurnOf(e)' = TurnOf(e) /\ AgentOf(e)' = AgentOf(e)
                         /\ IsOn(e)' = IsOn(e) /\ Around(e)' = Around(e)
  BY <1>5 DEF TurnOf, AgentOf, IsOn, Around
<1>7. PICK calls, widget, proposal :
         /\ calls = IF listed THEN Append(agents[a].calls, t) ELSE agents[a].calls
         /\ widget = IF leaves = "widget" THEN t ELSE agents[a].widget
         /\ proposal = IF leaves = "proposal" THEN t ELSE agents[a].proposal
  OBVIOUS
<1>8. agents' = [agents EXCEPT ![a] = [calls |-> calls, widget |-> widget, proposal |-> proposal]]
  BY <1>1, <1>2, <1>7 DEF ChatTypes
<1>9. /\ calls \in Seq(Turn) /\ widget \in Turn \cup {NoTurn} /\ proposal \in Turn \cup {NoTurn}
  BY <1>1, <1>7 DEF AgentState
<1>10. /\ agents' \in [Agent -> AgentState]
       /\ \A b \in Agent \ {a} : agents'[b] = agents[b]
       /\ agents'[a].calls = calls /\ agents'[a].widget = widget /\ agents'[a].proposal = proposal
  BY <1>1, <1>8, <1>9 DEF ChatTypes, AgentState
<1>11. ChatTypes'
  BY <1>3, <1>5, <1>10 DEF ChatTypes
<1>12. FieldsInv'
  <2>1. FieldsInv
    BY DEF FieldsInv
  <2>2. \A d \in Dispatch : IsOn(d) /\ AgentOf(d) = a => t \in Around(d)
    BY <1>1 DEF TurnsMeet, Around
  <2>3. \A d \in Dispatch : chats'[d].called =>
           \/ chats[d].called
           \/ /\ AgentOf(d) = a /\ TurnOf(d) = t
              /\ agents'[a].calls = Append(agents[a].calls, t)
    BY <1>4, <1>5, <1>7, <1>10 DEF Chatter
  <2>4. \A d \in Dispatch : /\ chats'[d].phase # "abandoned"
                            /\ IsOn(d)' /\ AgentOf(d) = a => t \in Around(d)'
    BY <1>5, <1>6, <2>2 DEF Placed, Chatter
  <2>5. \A e \in Chatter : IsOn(e)' =>
           /\ IsOn(e)
           /\ chats'[e].mentions = chats[e].mentions /\ chats'[e].n = chats[e].n
           /\ chats'[e].from = chats[e].from /\ chats[e].met \subseteq chats'[e].met
    BY <1>5, <1>6
  <2>6. /\ agents'[a].calls \in {agents[a].calls, Append(agents[a].calls, t)}
        /\ agents'[a].proposal \in {agents[a].proposal, t}
    BY <1>7, <1>10
  <2> HIDE DEF a, t
  <2> QED
    BY <1>1, <1>10, <2>1, <2>3, <2>4, <2>5, <2>6, FieldsAfterCall
<1>13. SliceNear'
  <2>1. \A d \in Dispatch : chats'[d].slice # {} => chats'[d].called = chats[d].called
    <3> SUFFICES ASSUME chats[c].slice # {} PROVE called = chats[c].called
      BY <1>5 DEF Chatter
    <3>1. chats[c].called \in BOOLEAN
      BY <1>1 DEF Chat
    <3> QED
      BY <1>4, <3>1
  <2> QED
    BY <1>5, <1>6, <2>1, SlicesStay DEF Chatter
<1>14. WidgetOwned'
  <2> SUFFICES ASSUME NEW b \in Agent
               PROVE  LET w == agents'[b].widget
                      IN  \/ w = NoTurn
                          \/ w.by \in Worker \cup Request
                          \/ \E d \in Dispatch : IsOn(d) /\ AgentOf(d) = b /\ w = TurnOf(d)
                          \/ \E u \in ended : u.turn = w /\ u.left
    BY <1>3, <1>6 DEF WidgetOwned, Chatter
  <2>1. CASE agents'[b].widget = agents[b].widget
    BY <2>1 DEF WidgetOwned
  <2>2. CASE b = a /\ agents'[b].widget = t
    BY <1>1, <2>2 DEF Chatter, TurnOf
  <2> QED
    BY <2>1, <2>2, <1>7, <1>10
<1>15. JobsAreTurns' /\ TurnsAreListed'
  BY <1>3, <1>5, JobsStay DEF Chatter
<1> QED
  BY <1>11, <1>12, <1>13, <1>14, <1>15 DEF FieldsInv

\* The method of a request: every turn with the agent meets it.
LEMMA CallOutsideStep ==
    ASSUME ChatInv, NEW r \in Request, CallOutside(r)
    PROVE  ChatInv'
<1> USE DEF ChatInv
<1>1. r \in Chatter /\ r \notin Dispatch /\ r \notin Worker /\ chats[r].phase = "idle"
  BY ChatAssumption DEF CallOutside, Chatter
<1>2. PICK turn : turn = [by |-> r, n |-> 1]
  OBVIOUS
<1>3. turn \in Turn /\ turn.by \in Request
  BY <1>1, <1>2 DEF Turn
<1>4. PICK a \in Served, listed \in BOOLEAN, leaves \in BOOLEAN, patrolled \in BOOLEAN :
         /\ chats' = [Meeting(a, turn) EXCEPT ![r] =
                         [Idle EXCEPT !.phase = "done", !.mentions = <<a>>, !.n = 1]]
         /\ agents' = [agents EXCEPT ![a] =
               [calls    |-> IF listed THEN Append(@.calls, turn) ELSE @.calls,
                widget   |-> IF patrolled THEN NoTurn
                             ELSE IF leaves THEN turn ELSE @.widget,
                proposal |-> @.proposal]]
  BY <1>2 DEF CallOutside
<1>5. a \in Agent /\ agents[a] \in AgentState
  BY ChatAssumption DEF ChatTypes
<1>6. UNCHANGED <<jobs, ended, millis>> /\ tried' \in 0..MaxCalls
  BY ChatAssumption DEF CallOutside, ChatTypes
<1>7. PICK x \in Chat : /\ x = [Idle EXCEPT !.phase = "done", !.mentions = <<a>>, !.n = 1]
                        /\ x.phase = "done"
  <2>0. <<a>> \in Seq(Agent)
    BY <1>5
  <2>1. PICK mentions \in Seq(Agent) : mentions = <<a>>
    BY <2>0, Zenon
  <2>2. PICK old \in Chat : old = [Idle EXCEPT !.mentions = mentions, !.n = 1]
    BY <2>1, IdleIsChat DEF Chat
  <2>3. Over(old) \in Chat /\ Over(old).phase = "done"
    BY <2>2, OverIsChat
  <2>4. Over(old) = [Idle EXCEPT !.phase = "done", !.mentions = mentions, !.n = 1]
    BY <2>2 DEF Over, Idle
  <2> QED
    BY <2>1, <2>3, <2>4
<1>8. PICK m : m = Meeting(a, turn)
  OBVIOUS
<1>9. /\ m \in [Chatter -> Chat]
      /\ \A d \in Chatter : /\ m[d].phase = chats[d].phase /\ m[d].mentions = chats[d].mentions
                            /\ m[d].n = chats[d].n /\ m[d].at = chats[d].at
                            /\ m[d].from = chats[d].from /\ m[d].called = chats[d].called
                            /\ m[d].slice = chats[d].slice /\ m[d].old = chats[d].old
                            /\ chats[d].met \subseteq m[d].met
                            /\ d \in Dispatch /\ OnWith(d, a) => turn \in m[d].met
  BY <1>3, <1>8, MeetingFacts
<1>10. /\ chats' \in [Chatter -> Chat] /\ chats'[r] = x
       /\ \A e \in Chatter \ {r} : chats'[e] = m[e]
  BY <1>1, <1>4, <1>7, <1>8, <1>9
<1>11. ~IsOn(r)' /\ \A e \in Chatter \ {r} : Stays(e)
  BY <1>7, <1>9, <1>10 DEF Stays, IsOn
<1>12. \A d \in Dispatch : /\ d \in Chatter \ {r} /\ Stays(d)
                           /\ TurnOf(d)' = TurnOf(d) /\ AgentOf(d)' = AgentOf(d)
                           /\ IsOn(d)' = IsOn(d)
  BY <1>1, <1>11, OthersStay DEF Chatter
<1>13. PICK calls, widget, proposal :
         /\ calls = IF listed THEN Append(agents[a].calls, turn) ELSE agents[a].calls
         /\ widget = IF patrolled THEN NoTurn ELSE IF leaves THEN turn ELSE agents[a].widget
         /\ proposal = agents[a].proposal
  OBVIOUS
<1>14. agents' = [agents EXCEPT ![a] = [calls |-> calls, widget |-> widget, proposal |-> proposal]]
  BY <1>4, <1>5, <1>13 DEF ChatTypes
<1>15. /\ calls \in Seq(Turn) /\ widget \in Turn \cup {NoTurn} /\ proposal \in Turn \cup {NoTurn}
  BY <1>3, <1>5, <1>13 DEF AgentState
<1>16. /\ agents' \in [Agent -> AgentState]
       /\ \A b \in Agent \ {a} : agents'[b] = agents[b]
       /\ agents'[a].calls = calls /\ agents'[a].widget = widget /\ agents'[a].proposal = proposal
  BY <1>5, <1>14, <1>15 DEF ChatTypes, AgentState
<1>17. ChatTypes'
  BY <1>6, <1>10, <1>16 DEF ChatTypes
<1>18. FieldsInv'
  <2>1. FieldsInv
    BY DEF FieldsInv
  <2>2. \A d \in Dispatch : IsOn(d)' /\ AgentOf(d) = a => turn \in Around(d)'
    BY <1>9, <1>10, <1>12 DEF Around, OnWith, IsOn
  <2>3. \A d \in Dispatch : chats'[d].called => chats[d].called
    BY <1>12 DEF Stays
  <2>4. \A d \in Dispatch : chats'[d].phase # "abandoned"
    BY <1>12 DEF Placed, Stays
  <2>5. \A e \in Chatter : IsOn(e)' =>
           /\ IsOn(e)
           /\ chats'[e].mentions = chats[e].mentions /\ chats'[e].n = chats[e].n
           /\ chats'[e].from = chats[e].from /\ chats[e].met \subseteq chats'[e].met
    BY <1>11 DEF Stays, IsOn
  <2>6. /\ agents'[a].calls \in {agents[a].calls, Append(agents[a].calls, turn)}
        /\ agents'[a].proposal \in {agents[a].proposal, turn}
    BY <1>13, <1>16
  <2> QED
    BY <1>3, <1>5, <1>16, <2>1, <2>2, <2>3, <2>4, <2>5, <2>6, FieldsAfterCall
<1>19. SliceNear'
  BY <1>12, SlicesStay DEF Stays
<1>20. WidgetOwned'
  <2> SUFFICES ASSUME NEW b \in Agent
               PROVE  LET w == agents'[b].widget
                      IN  \/ w = NoTurn
                          \/ w.by \in Worker \cup Request
                          \/ \E d \in Dispatch : IsOn(d) /\ AgentOf(d) = b /\ w = TurnOf(d)
                          \/ \E u \in ended : u.turn = w /\ u.left
    BY <1>6, <1>12 DEF WidgetOwned
  <2>1. CASE agents'[b].widget = agents[b].widget
    BY <2>1 DEF WidgetOwned
  <2>2. CASE b = a /\ agents'[b].widget \in {turn, NoTurn}
    BY <1>3, <2>2
  <2> QED
    BY <2>1, <2>2, <1>13, <1>16
<1>21. JobsAreTurns' /\ TurnsAreListed'
  BY <1>6, <1>12, JobsStay DEF Stays
<1> QED
  BY <1>17, <1>18, <1>19, <1>20, <1>21 DEF FieldsInv

\* The turn of a dispatch ends, and the next one begins, or the dispatch is over.
LEMMA EndTurnStep ==
    ASSUME ChatInv, NEW d \in Dispatch, NEW raised \in BOOLEAN, EndTurn(d, raised)
    PROVE  ChatInv'
<1> USE DEF ChatInv
<1> DEFINE a == AgentOf(d)
           t == TurnOf(d)
<1>1. /\ d \in Chatter /\ IsOn(d) /\ a \in Agent /\ t \in Turn /\ chats[d] \in Chat
      /\ chats[d].phase = "thinking" /\ chats[d].n \in 1..Len(chats[d].mentions)
      /\ FieldsInv
  BY TurnFacts DEF EndTurn, IsOn, Chatter, ChatTypes, FieldsInv
<1>2. PICK fields : fields = IF raised THEN agents ELSE [agents EXCEPT ![a].widget = NoTurn]
  OBVIOUS
<1>3. PICK others : others = [id \in DOMAIN jobs \ {JobOf(d)} |-> jobs[id]]
  OBVIOUS
<1>4. /\ fields \in [Agent -> AgentState]
      /\ \A b \in Agent : /\ fields[b].calls = agents[b].calls
                          /\ fields[b].proposal = agents[b].proposal
                          /\ fields[b].widget = IF b = a /\ ~raised THEN NoTurn
                                                ELSE agents[b].widget
  BY <1>1, <1>2 DEF ChatTypes, AgentState
<1>5. ended' = ended \cup {[turn |-> t, agent |-> a, at |-> chats[d].at, left |-> raised]}
      /\ tried' = tried
  BY DEF EndTurn
<1>6. PICK last : last = [turn |-> t, agent |-> a, at |-> chats[d].at, left |-> raised]
  OBVIOUS
<1>7. /\ last \in ended' /\ ended \subseteq ended' /\ ended' \subseteq Ended
      /\ last.turn = t /\ last.agent = a /\ last.at = chats[d].at /\ last.left = raised
  <2>1. chats[d].at \in 0..MaxMillis
    BY <1>1 DEF Chat
  <2>2. last \in Ended
    BY <1>1, <1>6, <2>1 DEF Ended
  <2>3. ended' = ended \cup {last}
    BY <1>5, <1>6
  <2> QED
    BY <1>6, <2>2, <2>3 DEF ChatTypes
<1>8. \/ /\ \E time \in millis..MaxMillis :
               BeginTurn(d, chats[d].mentions, chats[d].n + 1, fields, time)
         /\ chats[d].n < Len(chats[d].mentions)
         /\ jobs' = Listed(others, JobOf(d)', [by |-> d, n |-> chats'[d].n])
      \/ /\ chats' = [chats EXCEPT ![d] = Over(@)]
         /\ agents' = fields
         /\ jobs' = others
         /\ UNCHANGED millis
  BY <1>2, <1>3 DEF EndTurn, GoesOn, EndsJob
<1>9. /\ chats' \in [Chatter -> Chat] /\ agents' \in [Agent -> AgentState]
      /\ millis' \in 0..MaxMillis
      /\ \A b \in Agent : agents'[b].widget = fields[b].widget
      /\ \A e \in Chatter \ {d} : Stays(e)
      /\ \/ chats'[d].phase = "done" /\ jobs' = others
         \/ /\ chats'[d].phase = "thinking" /\ JobOf(d)' \in JobId
            /\ jobs' = Listed(others, JobOf(d)', TurnOf(d)')
      /\ FieldsInv' /\ SliceNear'
  <2>1. CASE /\ \E time \in millis..MaxMillis :
                   BeginTurn(d, chats[d].mentions, chats[d].n + 1, fields, time)
             /\ chats[d].n < Len(chats[d].mentions)
             /\ jobs' = Listed(others, JobOf(d)', [by |-> d, n |-> chats'[d].n])
    <3>1. PICK time \in millis..MaxMillis :
             BeginTurn(d, chats[d].mentions, chats[d].n + 1, fields, time)
      BY <2>1
    <3>2. PICK mentions \in Seq(Agent) : \E n \in DOMAIN mentions :
             mentions = chats[d].mentions /\ n = chats[d].n + 1
      <4>1. chats[d].mentions \in Seq(Agent) /\ Len(chats[d].mentions) \in Nat
        BY <1>1 DEF Chat
      <4>2. chats[d].n + 1 \in DOMAIN chats[d].mentions
        BY <1>1, <2>1, <4>1
      <4> QED
        BY <4>1, <4>2
    <3>3. PICK n \in DOMAIN mentions : mentions = chats[d].mentions /\ n = chats[d].n + 1
      BY <3>2
    <3>4. BeginTurn(d, mentions, n, fields, time)
      BY <3>1, <3>3
    <3>5. /\ chats' \in [Chatter -> Chat] /\ agents' \in [Agent -> AgentState]
          /\ chats'[d].phase = "thinking" /\ chats'[d].mentions = mentions
          /\ chats'[d].n = n /\ (d \in Dispatch => chats'[d].at = time)
          /\ \A e \in Chatter \ {d} : Stays(e)
          /\ millis' \in 0..MaxMillis
          /\ \A b \in Agent : agents'[b].widget = fields[b].widget
          /\ FieldsInv' /\ SliceNear'
      BY <1>1, <1>4, <3>4, BeginFacts
    <3>6. JobOf(d)' \in JobId
      <4>1. time \in 0..MaxMillis
        BY DEF ChatTypes
      <4> QED
        BY <3>3, <3>5, <4>1 DEF JobOf, Name, JobId, AgentOf
    <3> QED
      BY <2>1, <3>5, <3>6 DEF TurnOf
  <2>2. CASE /\ chats' = [chats EXCEPT ![d] = Over(@)]
             /\ agents' = fields
             /\ jobs' = others
             /\ UNCHANGED millis
    <3>1. /\ chats'[d] = Over(chats[d]) /\ \A e \in Chatter \ {d} : chats'[e] = chats[e]
      BY <1>1, <2>2 DEF ChatTypes
    <3>2. Over(chats[d]) \in Chat /\ Over(chats[d]).phase = "done"
      BY <1>1, OverIsChat
    <3>3. chats' \in [Chatter -> Chat]
      BY <2>2, <3>2 DEF ChatTypes
    <3>4. ~IsOn(d)' /\ \A e \in Chatter \ {d} : Stays(e)
      BY <3>1, <3>2 DEF IsOn, Stays
    <3>5. \A e \in Dispatch : chats'[e].phase # "abandoned"
      BY <3>1, <3>2 DEF Placed, Chatter
    <3>6. \A e \in Chatter : IsOn(e)' =>
             /\ IsOn(e)
             /\ chats'[e].mentions = chats[e].mentions /\ chats'[e].n = chats[e].n
             /\ chats'[e].from = chats[e].from /\ chats'[e].called = chats[e].called
             /\ chats'[e].slice = chats[e].slice /\ chats[e].met \subseteq chats'[e].met
      BY <3>4 DEF Stays, IsOn
    <3>7. FieldsInv'
      BY <1>1, <1>4, <2>2, <3>5, <3>6, QuietKeepsFields
    <3>8. SliceNear'
      BY <3>6, SlicesStay DEF Chatter
    <3> QED
      BY <1>4, <2>2, <3>1, <3>2, <3>3, <3>4, <3>7, <3>8 DEF ChatTypes
  <2> QED
    BY <1>8, <2>1, <2>2
<1>10. DOMAIN others \subseteq JobId /\ DOMAIN jobs' \subseteq JobId
  BY <1>3, <1>9 DEF ChatTypes, Listed
<1>11. ChatTypes'
  BY <1>5, <1>7, <1>9, <1>10 DEF ChatTypes
<1>12. Remains(d, others)
  <2>1. \A id \in DOMAIN others :
          \E e \in Dispatch \ {d} :
             chats[e].phase = "thinking" /\ others[id] = TurnOf(e) /\ id = JobOf(e)
    BY <1>3 DEF JobsAreTurns
  <2>2. ASSUME NEW e \in Dispatch \ {d}, chats[e].phase = "thinking", ~chats[e].old
        PROVE  \/ \E id \in DOMAIN others : others[id] = TurnOf(e)
               \/ \E x \in Dispatch \ {d, e} :
                    chats[x].phase = "thinking" /\ AgentOf(x) = AgentOf(e) /\ chats[x].at = chats[e].at
               \/ \E u \in ended' : u.agent = AgentOf(e) /\ u.at = chats[e].at
    <3>1. CASE \E id \in DOMAIN jobs : jobs[id] = TurnOf(e)
      <4>1. PICK id \in DOMAIN jobs : jobs[id] = TurnOf(e)
        BY <3>1
      <4>2. id = JobOf(e)
        BY <4>1 DEF JobsAreTurns, TurnOf
      <4>3. CASE id = JobOf(d)
        <5>1. JobOf(e) = JobOf(d)
          BY <4>2, <4>3
        <5>2. AgentOf(e) = a /\ chats[e].at = chats[d].at
          BY <5>1, JobIdFacts
        <5> QED
          BY <5>2, <1>7
      <4>4. CASE id # JobOf(d)
        BY <4>1, <4>4, <1>3
      <4> QED
        BY <4>3, <4>4
    <3>2. CASE Displaced(e)
      BY <1>7, <3>2 DEF Displaced
    <3> QED
      BY <2>2, <3>1, <3>2 DEF TurnsAreListed
  <2> QED
    BY <2>1, <2>2 DEF Remains
<1>13. JobsAreTurns' /\ TurnsAreListed'
  BY <1>9, <1>10, <1>11, <1>12, JobsAfter DEF Chatter
<1>14. WidgetOwned'
  <2> SUFFICES ASSUME NEW b \in Agent
               PROVE  LET w == agents'[b].widget
                      IN  \/ w = NoTurn
                          \/ w.by \in Worker \cup Request
                          \/ \E e \in Dispatch : IsOn(e)' /\ AgentOf(e)' = b /\ w = TurnOf(e)'
                          \/ \E u \in ended' : u.turn = w /\ u.left
    BY DEF WidgetOwned
  <2>1. CASE b = a /\ ~raised
    BY <2>1, <1>4, <1>9
  <2>2. CASE ~(b = a /\ ~raised)
    <3>1. agents'[b].widget = agents[b].widget
      BY <2>2, <1>4, <1>9
    <3>2. ASSUME NEW e \in Dispatch \ {d}, IsOn(e), AgentOf(e) = b, agents[b].widget = TurnOf(e)
          PROVE  IsOn(e)' /\ AgentOf(e)' = b /\ agents'[b].widget = TurnOf(e)'
      BY <3>1, <3>2, <1>9, OthersStay DEF Chatter
    <3>3. CASE AgentOf(d) = b /\ agents[b].widget = t
      BY <2>2, <3>1, <3>3, <1>7
    <3> QED
      BY <3>1, <3>2, <3>3, <1>7 DEF WidgetOwned
  <2> QED
    BY <2>1, <2>2
<1> QED
  BY <1>9, <1>11, <1>13, <1>14 DEF FieldsInv

\* A chat, of x in the end, that neither begins a turn nor calls a tool: the job
\* list and the widgets are all that may change besides.
LEMMA QuietStep ==
    ASSUME ChatInv, NEW c \in Chatter, NEW x \in Chat,
           chats' = [chats EXCEPT ![c] = x],
           x.phase \in {"thinking", "abandoned"} =>
              /\ IsOn(c)
              /\ x.mentions = chats[c].mentions /\ x.n = chats[c].n
              /\ x.from = chats[c].from /\ x.called = chats[c].called
              /\ x.slice = chats[c].slice /\ x.met = chats[c].met,
           c \in Dispatch => x.phase # "abandoned",
           agents' \in [Agent -> AgentState],
           \A a \in Agent : /\ agents'[a].calls = agents[a].calls
                            /\ agents'[a].proposal = agents[a].proposal,
           DOMAIN jobs' \subseteq JobId,
           UNCHANGED <<ended, millis, tried>>
    PROVE  ChatTypes' /\ FieldsInv' /\ SliceNear'
<1>1. /\ chats' \in [Chatter -> Chat] /\ chats'[c] = x
      /\ \A e \in Chatter \ {c} : chats'[e] = chats[e]
  BY DEF ChatInv, ChatTypes
<1>2. ChatTypes'
  BY <1>1 DEF ChatInv, ChatTypes
<1>3. \A e \in Chatter : IsOn(e)' =>
         /\ IsOn(e)
         /\ chats'[e].mentions = chats[e].mentions /\ chats'[e].n = chats[e].n
         /\ chats'[e].from = chats[e].from /\ chats'[e].called = chats[e].called
         /\ chats'[e].slice = chats[e].slice /\ chats'[e].met = chats[e].met
  BY <1>1 DEF IsOn
<1>4. \A e \in Chatter : e \in Dispatch => chats'[e].phase # "abandoned"
  BY <1>1 DEF ChatInv, Placed
<1>5. FieldsInv'
  BY <1>3, <1>4, QuietKeepsFields DEF ChatInv, FieldsInv
<1>6. SliceNear'
  BY <1>3, SlicesStay DEF ChatInv, Chatter
<1> QED
  BY <1>2, <1>5, <1>6

\* A widget stays, or goes, where a worker's chat ends.
LEMMA WorkerEnds ==
    ASSUME ChatInv, NEW w \in Worker, NEW x \in Chat,
           chats' = [chats EXCEPT ![w] = x],
           \/ x.phase = "done"
           \/ x = [chats[w] EXCEPT !.phase = "abandoned"] /\ IsOn(w),
           \/ agents' = agents
           \/ \E a \in Agent : agents' = [agents EXCEPT ![a].widget = NoTurn],
           UNCHANGED <<jobs, ended, millis, tried>>
    PROVE  ChatInv'
<1> USE DEF ChatInv
<1>1. w \in Chatter /\ w \notin Dispatch /\ chats[w] \in Chat
  BY ChatAssumption DEF Chatter, ChatTypes
<1>2. /\ agents' \in [Agent -> AgentState]
      /\ \A b \in Agent : /\ agents'[b].calls = agents[b].calls
                          /\ agents'[b].proposal = agents[b].proposal
                          /\ agents'[b].widget \in {agents[b].widget, NoTurn}
  <2>1. agents \in [Agent -> AgentState]
    BY DEF ChatTypes
  <2>2. CASE agents' = agents
    BY <2>1, <2>2
  <2>3. ASSUME NEW a \in Agent, agents' = [agents EXCEPT ![a].widget = NoTurn]
        PROVE  <1>2
    BY <2>1, <2>3 DEF AgentState
  <2> QED
    BY <2>2, <2>3
<1>3. x.phase \in {"thinking", "abandoned"} =>
              /\ IsOn(w)
              /\ x.mentions = chats[w].mentions /\ x.n = chats[w].n
              /\ x.from = chats[w].from /\ x.called = chats[w].called
              /\ x.slice = chats[w].slice /\ x.met = chats[w].met
  BY <1>1 DEF Chat
<1>4. ChatTypes' /\ FieldsInv' /\ SliceNear'
  <2>1. DOMAIN jobs' \subseteq JobId
    BY DEF ChatTypes
  <2> QED
    BY <1>1, <1>2, <1>3, <2>1, QuietStep
<1>5. \A d \in Dispatch : chats'[d] = chats[d]
  BY <1>1 DEF ChatTypes, Chatter
<1>6. JobsAreTurns' /\ TurnsAreListed'
  BY <1>5, JobsStay
<1>7. WidgetOwned'
  <2>1. \A d \in Dispatch : IsOn(d)' = IsOn(d) /\ TurnOf(d)' = TurnOf(d) /\ AgentOf(d)' = AgentOf(d)
    BY <1>5, OthersStay DEF Stays
  <2> QED
    BY <1>2, <2>1 DEF WidgetOwned
<1> QED
  BY <1>4, <1>6, <1>7 DEF FieldsInv

\* A worker's chat returns and has taken the widget, or fails, or is cancelled.
LEMMA EndWorkerStep ==
    ASSUME ChatInv, NEW w \in Worker, EndWorker(w)
    PROVE  ChatInv'
<1>1. /\ IsOn(w) /\ w \in Chatter /\ chats[w] \in Chat /\ AgentOf(w) \in Agent
      /\ Over(chats[w]) \in Chat /\ Over(chats[w]).phase = "done"
  BY TurnFacts, OverIsChat DEF EndWorker, IsOn, Chatter, ChatInv, ChatTypes
<1>2. PICK left : left = [chats[w] EXCEPT !.phase = "abandoned"]
  OBVIOUS
<1>3. left \in Chat
  BY <1>1, <1>2 DEF Chat, Phase
<1>4. /\ UNCHANGED <<jobs, ended, millis, tried>>
      /\ \/ agents' = agents \/ \E a \in Agent : agents' = [agents EXCEPT ![a].widget = NoTurn]
      /\ chats' = [chats EXCEPT ![w] = Over(chats[w])] \/ chats' = [chats EXCEPT ![w] = left]
  BY <1>1, <1>2 DEF EndWorker
<1>5. CASE chats' = [chats EXCEPT ![w] = Over(chats[w])]
  BY <1>1, <1>4, <1>5, WorkerEnds
<1>6. CASE chats' = [chats EXCEPT ![w] = left]
  BY <1>1, <1>2, <1>3, <1>4, <1>6, WorkerEnds
<1> QED
  BY <1>4, <1>5, <1>6

\* The thread of a cancelled turn comes to its end.
LEMMA ThreadEndsStep ==
    ASSUME ChatInv, NEW w \in Worker, ThreadEnds(w)
    PROVE  ChatInv'
<1>1. chats[w] \in Chat
  BY DEF Chatter, ChatInv, ChatTypes
<1>2. Over(chats[w]) \in Chat /\ Over(chats[w]).phase = "done"
  BY <1>1, OverIsChat
<1> QED
  BY <1>2, WorkerEnds DEF ThreadEnds

\* A job that is given up goes from the list; its turn goes on, and is old.
LEMMA ReapJobStep ==
    ASSUME ChatInv, NEW d \in Dispatch, ReapJob(d)
    PROVE  ChatInv'
<1> USE DEF ChatInv
<1>1. d \in Chatter /\ IsOn(d) /\ chats[d] \in Chat /\ chats[d].phase = "thinking"
  BY DEF ReapJob, IsOn, Chatter, ChatTypes
<1>2. PICK x : x = [chats[d] EXCEPT !.old = TRUE]
  OBVIOUS
<1>3. /\ x \in Chat /\ x.phase = "thinking" /\ x.old
      /\ x.mentions = chats[d].mentions /\ x.n = chats[d].n /\ x.at = chats[d].at
      /\ x.from = chats[d].from /\ x.called = chats[d].called
      /\ x.slice = chats[d].slice /\ x.met = chats[d].met
  BY <1>1, <1>2 DEF Chat
<1>4. chats' = [chats EXCEPT ![d] = x]
  BY <1>1, <1>2 DEF ReapJob, ChatTypes
<1>5. /\ DOMAIN jobs' = {i \in DOMAIN jobs : jobs[i] # TurnOf(d)}
      /\ \A i \in DOMAIN jobs' : jobs'[i] = jobs[i]
      /\ UNCHANGED <<agents, ended, millis, tried>>
  BY DEF ReapJob
<1>6. ChatTypes' /\ FieldsInv' /\ SliceNear'
  <2>1. DOMAIN jobs' \subseteq JobId /\ agents' \in [Agent -> AgentState]
    BY <1>5 DEF ChatTypes
  <2> QED
    BY <1>1, <1>3, <1>4, <1>5, <2>1, QuietStep
<1>7. \A e \in Chatter :
         /\ chats'[e].phase = chats[e].phase /\ chats'[e].mentions = chats[e].mentions
         /\ chats'[e].n = chats[e].n /\ chats'[e].at = chats[e].at
         /\ chats'[e].old = (chats[e].old \/ e = d)
  BY <1>1, <1>3, <1>4 DEF ChatTypes, Chat
<1>8. \A e \in Chatter : /\ TurnOf(e)' = TurnOf(e) /\ AgentOf(e)' = AgentOf(e)
                         /\ JobOf(e)' = JobOf(e) /\ IsOn(e)' = IsOn(e)
  BY <1>7 DEF TurnOf, AgentOf, JobOf, Name, IsOn
<1>9. JobsAreTurns'
  BY <1>5, <1>7, <1>8 DEF JobsAreTurns, Chatter
<1>10. TurnsAreListed'
  <2> SUFFICES ASSUME NEW e \in Dispatch \ {d}, chats[e].phase = "thinking", ~chats[e].old
               PROVE  (\E id \in DOMAIN jobs' : jobs'[id] = TurnOf(e)) \/ Displaced(e)'
    BY <1>1, <1>7, <1>8 DEF TurnsAreListed, Chatter
  <2>1. TurnOf(e) # TurnOf(d)
    BY DEF TurnOf
  <2>2. CASE \E id \in DOMAIN jobs : jobs[id] = TurnOf(e)
    BY <1>5, <2>1, <2>2
  <2>3. CASE Displaced(e)
    BY <1>5, <1>7, <1>8, <2>3 DEF Displaced, Chatter
  <2> QED
    BY <2>2, <2>3 DEF TurnsAreListed
<1>11. WidgetOwned'
  BY <1>5, <1>8 DEF WidgetOwned, Chatter
<1> QED
  BY <1>6, <1>9, <1>10, <1>11 DEF FieldsInv

\* The slice of a turn that asks for a summary: the calls that turns nearby made,
\* its own among them if it listed one.
LEMMA AskSummaryStep ==
    ASSUME ChatInv, NEW d \in Dispatch, AskSummary(d)
    PROVE  ChatInv'
<1> USE DEF ChatInv
<1>1. d \in Chatter /\ IsOn(d) /\ chats[d] \in Chat /\ FieldsInv
  BY DEF AskSummary, IsOn, Chatter, ChatTypes, FieldsInv
<1>2. PICK tools \in SUBSET Turn : /\ tools = ToolsRun(d) /\ tools \subseteq Around(d)
                                   /\ chats[d].called => TurnOf(d) \in tools
  BY <1>1, ToolsRunFacts
<1>3. /\ chats' = [chats EXCEPT ![d].slice = tools]
      /\ UNCHANGED <<agents, jobs, ended, millis, tried>>
  BY <1>2 DEF AskSummary
<1>4. /\ chats' \in [Chatter -> Chat]
      /\ \A e \in Chatter : /\ chats'[e].phase = chats[e].phase /\ chats'[e].mentions = chats[e].mentions
                            /\ chats'[e].n = chats[e].n /\ chats'[e].at = chats[e].at
                            /\ chats'[e].old = chats[e].old /\ chats'[e].from = chats[e].from
                            /\ chats'[e].called = chats[e].called /\ chats'[e].met = chats[e].met
                            /\ chats'[e].slice = IF e = d THEN tools ELSE chats[e].slice
  BY <1>1, <1>3 DEF ChatTypes, Chat
<1>5. ChatTypes'
  BY <1>3, <1>4 DEF ChatTypes
<1>6. \A e \in Chatter : /\ TurnOf(e)' = TurnOf(e) /\ AgentOf(e)' = AgentOf(e)
                         /\ IsOn(e)' = IsOn(e) /\ Around(e)' = Around(e)
  BY <1>4 DEF TurnOf, AgentOf, IsOn, Around
<1>7. FieldsInv'
  <2>1. \A e \in Chatter : e \in Dispatch => chats'[e].phase # "abandoned"
    BY <1>4 DEF Placed
  <2> QED
    BY <1>1, <1>3, <1>4, <1>6, <2>1, QuietKeepsFields
<1>8. SliceNear'
  BY <1>2, <1>4, <1>6 DEF SliceNear, Chatter
<1>9. JobsAreTurns' /\ TurnsAreListed'
  BY <1>3, <1>4, JobsStay DEF Chatter
<1>10. WidgetOwned'
  BY <1>3, <1>6 DEF WidgetOwned, Chatter
<1> QED
  BY <1>5, <1>7, <1>8, <1>9, <1>10 DEF FieldsInv

\* No turn is on at first, and every field is empty.
LEMMA ChatInvInit == Init => ChatInv
<1> SUFFICES ASSUME Init PROVE ChatInv
  OBVIOUS
<1>1. \A c \in Chatter : chats[c] = Idle
  BY DEF Init
<1>2. Idle.phase = "idle"
  BY DEF Idle
<1>3. DOMAIN jobs = {}
  BY DEF Init
<1>4. ChatTypes
  <2>1. agents \in [Agent -> AgentState]
    BY DEF Init, AgentState
  <2> QED
    BY <1>3, <2>1, IdleIsChat, ChatAssumption DEF Init, ChatTypes
<1>5. Placed /\ TurnsMeet /\ CallsNear /\ OwnCallListed /\ ProposalNear /\ SliceNear
  BY <1>1, <1>2 DEF IsOn, Placed, TurnsMeet, CallsNear, OwnCallListed, ProposalNear,
                    SliceNear, Chatter
<1>6. WidgetOwned
  BY DEF Init, WidgetOwned
<1>7. JobsAreTurns /\ TurnsAreListed
  BY <1>1, <1>2, <1>3 DEF JobsAreTurns, TurnsAreListed, Chatter
<1> QED
  BY <1>4, <1>5, <1>6, <1>7 DEF ChatInv

\* One case for each action.
LEMMA ChatInvStep == ChatInv /\ [Next]_vars => ChatInv'
<1> SUFFICES ASSUME ChatInv, [Next]_vars PROVE ChatInv'
  OBVIOUS
<1>1. ASSUME NEW d \in Dispatch, PostMessage(d) PROVE ChatInv'
  BY <1>1, PostMessageStep
<1>2. ASSUME NEW d \in Dispatch, AskSummary(d) PROVE ChatInv'
  BY <1>2, AskSummaryStep
<1>3. ASSUME NEW d \in Dispatch, ReapJob(d) PROVE ChatInv'
  BY <1>3, ReapJobStep
<1>4. ASSUME NEW d \in Dispatch, End(d) PROVE ChatInv'
  BY <1>4, EndTurnStep DEF End, AnswerTurn, RaiseTurn
<1>5. ASSUME NEW w \in Worker, StartWorker(w) PROVE ChatInv'
  BY <1>5, StartWorkerStep
<1>6. ASSUME NEW w \in Worker, EndWorker(w) PROVE ChatInv'
  BY <1>6, EndWorkerStep
<1>7. ASSUME NEW w \in Worker, ThreadEnds(w) PROVE ChatInv'
  BY <1>7, ThreadEndsStep
<1>8. ASSUME NEW c \in Chatter, CallTool(c) PROVE ChatInv'
  BY <1>8, CallToolStep
<1>9. ASSUME NEW r \in Request, CallOutside(r) PROVE ChatInv'
  BY <1>9, CallOutsideStep
<1>10. CASE UNCHANGED vars
  <2>1. /\ chats' = chats /\ agents' = agents /\ jobs' = jobs
        /\ ended' = ended /\ millis' = millis /\ tried' = tried
    BY <1>10 DEF vars
  <2>2. ChatTypes'
    BY <2>1 DEF ChatInv, ChatTypes
  <2>3. FieldsInv'
    BY <2>1, QuietKeepsFields DEF ChatInv, FieldsInv, Placed, IsOn
  <2>4. SliceNear'
    BY <2>1, SlicesStay DEF ChatInv, IsOn
  <2>5. JobsAreTurns' /\ TurnsAreListed'
    BY <2>1, JobsStay DEF ChatInv
  <2>6. WidgetOwned'
    BY <2>1 DEF ChatInv, WidgetOwned, IsOn, AgentOf, TurnOf
  <2> QED
    BY <2>2, <2>3, <2>4, <2>5, <2>6 DEF ChatInv, FieldsInv
<1> QED
  BY <1>1, <1>2, <1>3, <1>4, <1>5, <1>6, <1>7, <1>8, <1>9, <1>10 DEF Next

LEMMA ChatInvHolds == Spec => []ChatInv
  BY ChatInvInit, ChatInvStep, PTL DEF Spec

-----------------------------------------------------------------------------
(* Theorems *)

\* The job list that browsers are shown has the turns that are under way and no
\* others, but for jobs that were given up or share an id with another turn.
THEOREM JobsAreExact == Spec => []JobListIsExact
<1>1. ChatInv => JobListIsExact
  <2> SUFFICES ASSUME ChatInv PROVE JobListIsExact
    OBVIOUS
  <2>1. ChatTypes /\ \A id \in DOMAIN jobs :
          \E d \in Dispatch : chats[d].phase = "thinking" /\ jobs[id] = TurnOf(d)
    BY DEF ChatInv, JobsAreTurns
  <2>2. ASSUME NEW d \in Dispatch, chats[d].phase = "thinking", ~chats[d].old
        PROVE  \/ \E id \in DOMAIN jobs : jobs[id] = TurnOf(d)
               \/ \E e \in Dispatch \ {d} :
                    chats[e].phase = "thinking" /\ AgentOf(e) = AgentOf(d) /\ chats[e].at = chats[d].at
               \/ \E t \in ended : t.agent = AgentOf(d) /\ t.at = chats[d].at
    BY <2>2 DEF ChatInv, TurnsAreListed, Displaced
  <2> QED
    BY <2>1, <2>2 DEF JobListIsExact
<1> QED
  BY <1>1, ChatInvHolds, PTL

\* What a message carries was left by its own turn, by one that was on with the
\* agent during it, or, a widget, by a worker's turn, by a request or by one that
\* ended in an error.
THEOREM MessagesAreTheirOwn == Spec => []MessagesCarryTheirOwn
<1>1. ChatInv => MessagesCarryTheirOwn
  <2> SUFFICES ASSUME ChatInv, NEW d \in Dispatch, chats[d].phase = "thinking"
               PROVE  /\ Answer(d).proposal \in {NoTurn} \cup Around(d)
                      /\ \/ Answer(d).widget \in {NoTurn} \cup Around(d)
                         \/ Answer(d).widget.by \in Worker \cup Request
                         \/ \E t \in ended : t.turn = Answer(d).widget /\ t.left
    BY DEF MessagesCarryTheirOwn
  <2>1. d \in Chatter /\ IsOn(d) /\ AgentOf(d) \in Agent
    BY TurnFacts DEF ChatInv, IsOn, Chatter
  <2>2. /\ Answer(d).widget = agents[AgentOf(d)].widget
        /\ Answer(d).proposal \in {NoTurn, agents[AgentOf(d)].proposal}
    BY DEF Answer
  <2>3. agents[AgentOf(d)].proposal \in {NoTurn} \cup Around(d)
    BY <2>1 DEF ChatInv, ProposalNear
  <2>4. ASSUME NEW e \in Dispatch, IsOn(e), AgentOf(e) = AgentOf(d)
        PROVE  TurnOf(e) \in Around(d)
    BY <2>1, <2>4 DEF ChatInv, TurnsMeet, Around, Chatter
  <2> QED
    BY <2>1, <2>2, <2>3, <2>4 DEF ChatInv, WidgetOwned
<1> QED
  BY <1>1, ChatInvHolds, PTL

\* The provenance block of an answer names the turn's own tools, if one was listed
\* in time, and others only of turns and requests that were on with the agent
\* meanwhile.
THEOREM ProvenanceComplete == Spec => []ProvenanceIsComplete
<1>1. ChatInv => ProvenanceIsComplete
  <2> SUFFICES ASSUME ChatInv, NEW d \in Dispatch, chats[d].phase = "thinking"
               PROVE  /\ chats[d].called => TurnOf(d) \in Answer(d).tools
                      /\ Answer(d).tools \subseteq Around(d)
    BY DEF ProvenanceIsComplete
  <2>1. IsOn(d) /\ FieldsInv
    BY DEF ChatInv, FieldsInv, IsOn
  <2>2. /\ ToolsRun(d) \subseteq Around(d)
        /\ chats[d].called => TurnOf(d) \in ToolsRun(d)
    BY <2>1, ToolsRunFacts DEF ChatInv
  <2>3. Answer(d).tools = IF chats[d].slice = {} THEN ToolsRun(d) ELSE chats[d].slice
    BY DEF Answer
  <2> QED
    BY <2>1, <2>2, <2>3 DEF ChatInv, SliceNear
<1> QED
  BY <1>1, ChatInvHolds, PTL

=============================================================================
