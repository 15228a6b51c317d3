--------------------------- MODULE TodoBoardProofs ---------------------------
(***************************************************************************)
(* Proofs about TodoBoard, for any requests and any number of acts.        *)
(*                                                                         *)
(* The argument: as long as nobody else writes (`clean`), a call knows the *)
(* board: a status that was read is still there, and a consolidation that  *)
(* has listed the to-dos knows all of them and whether one is open.        *)
(***************************************************************************)
EXTENDS TodoBoard, TLAPS

-----------------------------------------------------------------------------
(* The invariant *)

OpenIn(b) == \E d \in DocId : b[d] \in Open

\* What a clean call x knows of the board b.
Knows(x, b) ==
    /\ x.op \in {"sight", "resolve", "update"} /\ x.at # NoId => x.read = b[x.at]
    /\ x.op = "merge" =>
          /\ OpenIn(b) <=> x.to \in Open
          /\ \A d \in DocId : b[d] # "absent" => d \in x.todo \cup {x.at}
    /\ x.op = "delete" => (OpenIn(b) => b[x.at] \in Open)

\* A call is well formed; a consolidation does not delete what it keeps.
Formed(x) ==
    /\ x \in Call
    /\ x.op \in {"merge", "delete"} => x.at \in DocId \ x.todo
    /\ x.op \in {"merge", "update"} => x.to \in Status
    /\ x.op \in {"sight", "resolve", "update"} /\ x.at # NoId => x.read # "none"

TodoInv ==
    /\ board \in [DocId -> Status \cup {"absent"}]
    /\ calls \in [Caller -> Call]
    /\ \A c \in Caller : Formed(calls[c]) /\ (calls[c].clean => Knows(calls[c], board))

-----------------------------------------------------------------------------
(* Lemmas *)

\* The statuses and the two callers.
LEMMA StatusFacts ==
    /\ Open \subseteq Status /\ "absent" \notin Open /\ "DISMISSED" \in Status
    /\ "RESOLVED" \in Status \ Open /\ "DISMISSED" \notin Open /\ "PENDING" \in Open
    /\ \A c \in Caller : Other(c) \in Caller /\ Other(c) # c
    /\ \A c, d \in Caller : d = c \/ d = Other(c)
BY DEF Open, Pending, Status, Caller, Other

\* A caller that does nothing knows all it claims to.
LEMMA NoCallFacts ==
    /\ Formed(NoCall)
    /\ \A b : Knows(NoCall, b)
    /\ \A x, b : x.op = "none" => Knows(x, b)
BY DEF NoCall, Formed, Knows, Call

\* A consolidation keeps a to-do of the resource.
LEMMA CanonicalIsDoc ==
    ASSUME NEW listed \in SUBSET DocId
    PROVE  CanonicalIds(listed) \subseteq DocId
<1>1. \A ids \in SUBSET DocId : First(ids) \subseteq ids
  BY DEF First
<1>2. \A d \in DocId : Renamed(d) \in DocId
  <2>1. /\ Active \in DocId
        /\ Renamed(Active) = Active /\ Renamed(Plain) = Active /\ Renamed(Legacy) = Active
    BY DEF DocId, Renamed, Active, Plain, Legacy, Id
  <2>2. ASSUME NEW r \in Request
        PROVE  /\ Renamed(Created(r)) \in DocId
               /\ Renamed(Renamed(Created(r))) = Renamed(Created(r))
    <3>1. Renamed(Renamed(Created(r))) = Renamed(Created(r))
      BY DEF Renamed, Created, Id
    <3> QED
      BY <3>1 DEF DocId
  <2> QED
    BY <2>1, <2>2 DEF DocId
<1>3. {d \in listed : d.suffix = "_active"} \in SUBSET DocId
  OBVIOUS
<1>4. First({d \in listed : d.suffix = "_active"}) \subseteq DocId /\ First(listed) \subseteq DocId
  BY <1>1, <1>3
<1> QED
  BY <1>2, <1>4 DEF CanonicalIds

\* The other caller's call, after a step.
LEMMA OtherAfter ==
    ASSUME TodoInv, NEW c \in Caller, NEW x \in Call, NEW wrote \in BOOLEAN, Step(c, x, wrote)
    PROVE  /\ calls' \in [Caller -> Call]
           /\ calls'[c] = x
           /\ calls'[Other(c)] = [calls[Other(c)] EXCEPT
                                     !.clean = @ /\ (Idle(Other(c)) \/ ~wrote)]
<1>1. calls[Other(c)] \in Call /\ Other(c) \in Caller /\ Other(c) # c
  BY StatusFacts DEF TodoInv
<1>2. PICK y : y = [calls[Other(c)] EXCEPT !.clean = @ /\ (Idle(Other(c)) \/ ~wrote)]
  OBVIOUS
<1>3. y \in Call
  <2>1. (calls[Other(c)].clean /\ (Idle(Other(c)) \/ ~wrote)) \in BOOLEAN
    OBVIOUS
  <2> QED
    BY <1>1, <1>2, <2>1 DEF Call
<1>4. calls' = [calls EXCEPT ![c] = x, ![Other(c)] = y]
  BY <1>1, <1>2 DEF Step, TodoInv
<1> QED
  BY <1>1, <1>2, <1>3, <1>4 DEF TodoInv

\* A step that writes no file.
LEMMA QuietStep ==
    ASSUME TodoInv, NEW c \in Caller, NEW x, Formed(x), x.clean => Knows(x, board),
           Step(c, x, FALSE), board' = board
    PROVE  TodoInv'
<1>1. /\ calls' \in [Caller -> Call] /\ calls'[c] = x
      /\ calls'[Other(c)] = [calls[Other(c)] EXCEPT !.clean = @ /\ (Idle(Other(c)) \/ ~FALSE)]
      /\ calls[Other(c)] \in Call /\ Other(c) \in Caller
  BY OtherAfter, StatusFacts DEF Formed, TodoInv
<1>2. calls'[Other(c)] = calls[Other(c)]
  BY <1>1 DEF Call
<1> QED
  BY <1>1, <1>2, StatusFacts DEF TodoInv

\* A step that writes a file overtakes the other's call.
LEMMA WriteStep ==
    ASSUME TodoInv, NEW c \in Caller, NEW x, Formed(x), Step(c, x, TRUE),
           board' \in [DocId -> Status \cup {"absent"}], x.clean => Knows(x, board')
    PROVE  TodoInv'
<1>1. /\ calls' \in [Caller -> Call] /\ calls'[c] = x
      /\ calls'[Other(c)] = [calls[Other(c)] EXCEPT !.clean = @ /\ (Idle(Other(c)) \/ ~TRUE)]
      /\ calls[Other(c)] \in Call /\ Other(c) \in Caller
  BY OtherAfter, StatusFacts DEF Formed, TodoInv
<1>2. /\ Formed(calls'[Other(c)])
      /\ calls'[Other(c)].clean => calls'[Other(c)].op = "none"
  <2>1. Formed(calls[Other(c)])
    BY <1>1 DEF TodoInv
  <2> QED
    BY <1>1, <2>1 DEF Formed, Call, Idle
<1>3. calls'[Other(c)].clean => Knows(calls'[Other(c)], board')
  BY <1>2, NoCallFacts
<1> QED
  BY <1>1, <1>2, <1>3, StatusFacts DEF TodoInv

\* A call that starts, and has read nothing yet.
LEMMA StartFacts ==
    ASSUME NEW op \in {"sight", "resolve", "update"}, NEW todo \in SUBSET DocId,
           NEW to \in Status \cup {"none"}, op = "update" => to \in Status, NEW b
    PROVE  Formed(Starting(op, todo, to)) /\ Knows(Starting(op, todo, to), b)
BY DEF Starting, NoCall, Formed, Knows, Call

\* The best status of a group is open if one of the group is.
LEMMA BestFacts ==
    ASSUME NEW S \in SUBSET Status
    PROVE  /\ BestStatus(S) \in Status
           /\ BestStatus(S) \in Open <=> S \cap Open # {}
BY DEF BestStatus, Status, Open, Pending

\* What a consolidation knows when it has listed the to-dos.
LEMMA MergeFacts ==
    ASSUME board \in [DocId -> Status \cup {"absent"}], NEW id \in DocId
    PROVE  Formed(Merge(Listed, id)) /\ Knows(Merge(Listed, id), board)
<1>1. PICK S \in SUBSET Status : S = {board[d] : d \in Listed}
  BY DEF Listed, Present
<1>2. S \cap Open # {} <=> OpenIn(board)
  BY <1>1, StatusFacts DEF Listed, Present, OpenIn
<1>3. PICK x : x = [Starting("merge", Listed \ {id}, BestStatus(S)) EXCEPT !.at = id]
  OBVIOUS
<1>4. /\ x.op = "merge" /\ x.todo = Listed \ {id} /\ x.to = BestStatus(S) /\ x.at = id
      /\ x \in Call
  <2>1. Listed \ {id} \in SUBSET DocId /\ BestStatus(S) \in Status
    BY BestFacts DEF Listed
  <2> QED
    BY <1>3, <2>1 DEF Starting, NoCall, Call
<1>5. Formed(x) /\ Knows(x, board)
  BY <1>2, <1>4, BestFacts DEF Formed, Knows, Listed, Present
<1> QED
  BY <1>1, <1>3, <1>5, NoCallFacts DEF Merge

-----------------------------------------------------------------------------
(* Every step *)

\* Reading a to-do.
LEMMA ReadPart ==
    ASSUME TodoInv, NEW c \in Caller, NEW d \in DocId, ReadTodo(c, d)
    PROVE  TodoInv'
<1>1. /\ calls[c] \in Call /\ board[d] \in Status \cup {"absent"}
      /\ calls[c].op \in {"sight", "resolve", "update"} /\ Formed(calls[c])
  BY DEF TodoInv, ReadTodo
<1>2. PICK x : x = [calls[c] EXCEPT !.todo = @ \ {d}, !.at = d, !.read = board[d]]
  OBVIOUS
<1>3. /\ x \in Call /\ x.op = calls[c].op /\ x.at = d /\ x.read = board[d]
      /\ x.to = calls[c].to
  BY <1>1, <1>2 DEF Call
<1>4. board[d] # "none"
  BY <1>1 DEF Status, Open, Pending
<1>5. Formed(x) /\ Knows(x, board)
  BY <1>1, <1>3, <1>4 DEF Formed, Knows
<1> QED
  BY <1>2, <1>5, QuietStep DEF ReadTodo

\* Writing it back.
LEMMA SavePart ==
    ASSUME TodoInv, NEW c \in Caller, SaveTodo(c)
    PROVE  TodoInv'
<1>1. /\ calls[c] \in Call /\ calls[c].op \in {"sight", "resolve", "update"}
      /\ calls[c].at \in DocId /\ calls[c].at # NoId /\ Formed(calls[c])
  BY DEF TodoInv, SaveTodo, Call
<1>2. PICK x : x = IF calls[c].todo = {} THEN NoCall ELSE [calls[c] EXCEPT !.at = NoId, !.read = "none"]
  OBVIOUS
<1>3. Formed(x) /\ \A b : Knows(x, b)
  <2>1. CASE calls[c].todo = {}
    BY <1>2, <2>1, NoCallFacts
  <2>2. CASE calls[c].todo # {}
    <3>1. x \in Call /\ x.op = calls[c].op /\ x.at = NoId /\ x.to = calls[c].to
      BY <1>1, <1>2, <2>2 DEF Call
    <3> QED
      BY <1>1, <3>1 DEF Formed, Knows
  <2> QED
    BY <2>1, <2>2
<1>4. CASE \/ calls[c].op = "sight"
           \/ calls[c].op = "resolve" /\ calls[c].read \in Resolvable
           \/ calls[c].op = "update" /\ calls[c].read # "absent"
  <2>1. Writes(calls[c]) = TRUE
    BY <1>1, <1>4 DEF Writes
  <2>2. Written(calls[c]) \in Status
    <3>1. calls[c].read \in Status \cup {"absent"}
      BY <1>1 DEF Formed, Call
    <3>2. ASSUME calls[c].op = "sight" PROVE Written(calls[c]) = Sighted(calls[c].read)
      BY <3>2 DEF Written
    <3>3. Sighted(calls[c].read) \in Status
      BY <3>1 DEF Sighted, Status, Open, Pending
    <3>4. ASSUME calls[c].op = "resolve" PROVE Written(calls[c]) = "RESOLVED"
      BY <3>4 DEF Written
    <3>5. ASSUME calls[c].op = "update" PROVE Written(calls[c]) = calls[c].to /\ calls[c].to \in Status
      BY <1>1, <3>5 DEF Written, Formed
    <3> QED
      BY <1>1, <3>2, <3>3, <3>4, <3>5, StatusFacts
  <2>3. /\ board' = [board EXCEPT ![calls[c].at] = Written(calls[c])]
        /\ Step(c, x, TRUE)
    BY <1>2, <2>1 DEF SaveTodo
  <2>4. board' \in [DocId -> Status \cup {"absent"}]
    BY <1>1, <2>2, <2>3 DEF TodoInv
  <2> QED
    BY <1>3, <2>3, <2>4, WriteStep
<1>5. CASE ~(\/ calls[c].op = "sight"
             \/ calls[c].op = "resolve" /\ calls[c].read \in Resolvable
             \/ calls[c].op = "update" /\ calls[c].read # "absent")
  <2>1. Writes(calls[c]) = FALSE
    <3>1. CASE calls[c].op = "resolve"
      <4>1. Writes(calls[c]) = (calls[c].read \in Resolvable)
        BY <3>1 DEF Writes
      <4>2. ~(calls[c].read \in Resolvable)
        BY <1>5, <3>1
      <4>3. (calls[c].read \in Resolvable) = FALSE
        BY <4>2
      <4> QED
        BY <4>1, <4>3, Zenon
    <3>2. CASE calls[c].op = "update"
      <4>1. Writes(calls[c]) = (calls[c].read # "absent")
        BY <3>2 DEF Writes
      <4> QED
        BY <1>5, <3>2, <4>1
    <3>3. calls[c].op = "resolve" \/ calls[c].op = "update"
      BY <1>1, <1>5
    <3> QED
      BY <3>1, <3>2, <3>3, Zenon
  <2>2. board' = board /\ Step(c, x, FALSE)
    BY <1>2, <2>1 DEF SaveTodo
  <2> QED
    BY <1>3, <2>2, QuietStep
<1> QED
  BY <1>4, <1>5

\* A patrol or a tool looks at the resource, an operator sets a status, a decision
\* resolves the to-dos.
LEMMA StartPart ==
    ASSUME TodoInv,
           \/ \E c \in Caller : Observe(c) \/ CascadeResolve(c)
           \/ \E d \in DocId, s \in Status \ {"REOPENED"} : OperatorSets(d, s)
    PROVE  TodoInv'
<1>1. ASSUME NEW c \in Caller, NEW op \in {"sight", "resolve", "update"},
             NEW todo \in SUBSET DocId, NEW to \in Status \cup {"none"},
             op = "update" => to \in Status,
             Step(c, Starting(op, todo, to), FALSE), board' = board
      PROVE  TodoInv'
  <2>1. PICK x : x = Starting(op, todo, to)
    OBVIOUS
  <2>2. Formed(x) /\ Knows(x, board)
    BY <1>1, <2>1, StartFacts
  <2> QED
    BY <1>1, <2>1, <2>2, QuietStep
<1>2. "loop" \in Caller /\ {Mine} \in SUBSET DocId
  BY DEF DocId, Caller, Mine
<1>3. ASSUME NEW c \in Caller, Observe(c) PROVE TodoInv'
  <2>1. CASE Step(c, Starting("sight", {Mine}, "none"), FALSE)
    BY <1>1, <1>2, <1>3, <2>1 DEF Observe
  <2>2. CASE Step(c, Starting("resolve", {Mine}, "none"), FALSE)
    BY <1>1, <1>2, <1>3, <2>2 DEF Observe
  <2>3. CASE Step(c, NoCall, FALSE)
    BY <1>3, <2>3, NoCallFacts, QuietStep DEF Observe
  <2> QED
    BY <1>3, <2>1, <2>2, <2>3 DEF Observe
<1>4. ASSUME NEW c \in Caller, CascadeResolve(c) PROVE TodoInv'
  <2>1. PICK T \in SUBSET DocId : T = {d \in DocId : board[d] \in Pending}
    OBVIOUS
  <2>2. Step(c, Starting("update", T, "RESOLVED"), FALSE) /\ board' = board
    BY <1>4, <2>1 DEF CascadeResolve
  <2>3. "RESOLVED" \in Status
    BY StatusFacts
  <2> QED
    BY <1>1, <2>2, <2>3
<1>5. ASSUME NEW d \in DocId, NEW s \in Status, OperatorSets(d, s) PROVE TodoInv'
  <2>1. {d} \in SUBSET DocId /\ s \in Status \cup {"none"}
    OBVIOUS
  <2>2. Step("loop", Starting("update", {d}, s), FALSE) /\ board' = board
    BY <1>5 DEF OperatorSets
  <2> QED
    BY <1>1, <1>2, <2>1, <2>2
<1> QED
  BY <1>3, <1>4, <1>5

\* An operator deletes a to-do, or a request creates one.
LEMMA RequestPart ==
    ASSUME TodoInv,
           (\E d \in DocId : OperatorDeletes(d)) \/ (\E r \in Request : CreateTodo(r))
    PROVE  TodoInv'
<1>1. "loop" \in Caller /\ \A r \in Request : Created(r) \in DocId
  BY DEF Caller, DocId
<1>2. Step("loop", NoCall, TRUE)
  BY DEF OperatorDeletes, CreateTodo
<1>3. board' \in [DocId -> Status \cup {"absent"}]
  BY <1>1, StatusFacts DEF OperatorDeletes, CreateTodo, TodoInv
<1> QED
  BY <1>1, <1>2, <1>3, NoCallFacts, WriteStep

\* A consolidation lists the to-dos, on request or when the server comes up.
LEMMA ListPart ==
    ASSUME TodoInv, Deduplicate \/ Restart
    PROVE  TodoInv'
<1>1. /\ "loop" \in Caller /\ "thread" \in Caller /\ board' = board
      /\ Listed \in SUBSET DocId
      /\ board \in [DocId -> Status \cup {"absent"}]
  BY DEF Caller, Deduplicate, Restart, TodoInv, Listed
<1>2. ASSUME NEW id \in CanonicalIds(Listed)
      PROVE  Formed(Merge(Listed, id)) /\ Knows(Merge(Listed, id), board)
  BY <1>1, <1>2, CanonicalIsDoc, MergeFacts
<1>3. ASSUME Deduplicate PROVE TodoInv'
  <2>1. PICK id \in CanonicalIds(Listed) : Step("loop", Merge(Listed, id), FALSE)
    BY <1>3 DEF Deduplicate
  <2>2. PICK x : x = Merge(Listed, id)
    OBVIOUS
  <2> QED
    BY <1>1, <1>2, <2>1, <2>2, QuietStep
<1>4. ASSUME Restart PROVE TodoInv'
  <2>1. PICK id \in CanonicalIds(Listed) :
          calls' = [c \in Caller |-> IF c = "loop" THEN Merge(Listed, id) ELSE NoCall]
    BY <1>4 DEF Restart
  <2>2. PICK x : x = Merge(Listed, id)
    OBVIOUS
  <2>3. Formed(x) /\ Knows(x, board) /\ Formed(NoCall) /\ Knows(NoCall, board)
    BY <1>2, <2>2, NoCallFacts
  <2>4. calls' = [c \in Caller |-> IF c = "loop" THEN x ELSE NoCall]
    BY <2>1, <2>2
  <2> QED
    BY <1>1, <2>3, <2>4 DEF TodoInv, Formed
<1> QED
  BY <1>3, <1>4

\* A consolidation writes what it keeps: open if the group was.
LEMMA SaveMergedPart ==
    ASSUME TodoInv, SaveMerged
    PROVE  /\ TodoInv'
           /\ calls["loop"].clean /\ OpenIn(board) => OpenIn(board')
<1>1. /\ "loop" \in Caller /\ Formed(calls["loop"]) /\ calls["loop"].op = "merge"
      /\ calls["loop"] \in Call
      /\ calls["loop"].at \in DocId \ calls["loop"].todo /\ calls["loop"].to \in Status
      /\ calls["loop"].clean => Knows(calls["loop"], board)
      /\ board' = [board EXCEPT ![calls["loop"].at] = calls["loop"].to]
      /\ board \in [DocId -> Status \cup {"absent"}]
  BY DEF Caller, TodoInv, SaveMerged, Formed
<1>2. /\ board' \in [DocId -> Status \cup {"absent"}]
      /\ board'[calls["loop"].at] = calls["loop"].to
      /\ \A d \in DocId : d # calls["loop"].at => board'[d] = board[d]
  BY <1>1
<1>3. PICK x : x = IF calls["loop"].todo = {} THEN NoCall ELSE [calls["loop"] EXCEPT !.op = "delete"]
  OBVIOUS
<1>4. CASE calls["loop"].todo = {}
  <2>1. TodoInv'
    BY <1>1, <1>2, <1>3, <1>4, NoCallFacts, WriteStep DEF SaveMerged
  <2>2. calls["loop"].clean /\ OpenIn(board) => OpenIn(board')
    BY <1>1, <1>2 DEF Knows, OpenIn
  <2> QED
    BY <2>1, <2>2
<1>5. CASE calls["loop"].todo # {}
  <2>1. /\ x \in Call /\ x.op = "delete" /\ x.todo = calls["loop"].todo /\ x.at = calls["loop"].at
        /\ x.clean = calls["loop"].clean
    BY <1>1, <1>3, <1>5 DEF Call
  <2>2. Formed(x)
    BY <1>1, <2>1 DEF Formed
  <2>3. x.clean => Knows(x, board')
    <3>1. ASSUME x.clean, OpenIn(board') PROVE board'[x.at] \in Open
      <4>1. PICK d \in DocId : board'[d] \in Open
        BY <3>1 DEF OpenIn
      <4>2. CASE d = calls["loop"].at
        BY <4>1, <4>2, <2>1
      <4>3. CASE d # calls["loop"].at
        <5>1. OpenIn(board)
          BY <1>2, <4>1, <4>3 DEF OpenIn
        <5> QED
          BY <1>1, <1>2, <2>1, <3>1, <5>1 DEF Knows
      <4> QED
        BY <4>2, <4>3
    <3> QED
      BY <2>1, <3>1 DEF Knows
  <2>4. TodoInv'
    BY <1>1, <1>2, <1>3, <1>5, <2>2, <2>3, WriteStep DEF SaveMerged
  <2>5. calls["loop"].clean /\ OpenIn(board) => OpenIn(board')
    BY <1>1, <1>2 DEF Knows, OpenIn
  <2> QED
    BY <2>4, <2>5
<1> QED
  BY <1>4, <1>5

\* It deletes the others, never what it keeps.
LEMMA DeleteMergedPart ==
    ASSUME TodoInv, NEW d \in DocId, DeleteMerged(d)
    PROVE  /\ TodoInv'
           /\ calls["loop"].clean /\ OpenIn(board) => OpenIn(board')
<1>1. /\ "loop" \in Caller /\ Formed(calls["loop"]) /\ calls["loop"].op = "delete"
      /\ calls["loop"] \in Call
      /\ calls["loop"].at \in DocId \ calls["loop"].todo /\ d \in calls["loop"].todo
      /\ calls["loop"].clean => Knows(calls["loop"], board)
      /\ board' = [board EXCEPT ![d] = "absent"]
      /\ board \in [DocId -> Status \cup {"absent"}]
  BY DEF Caller, TodoInv, DeleteMerged, Formed
<1>2. /\ board' \in [DocId -> Status \cup {"absent"}]
      /\ board'[calls["loop"].at] = board[calls["loop"].at]
      /\ OpenIn(board') => OpenIn(board)
  BY <1>1, StatusFacts DEF OpenIn
<1>3. PICK x : x = IF calls["loop"].todo = {d} THEN NoCall ELSE [calls["loop"] EXCEPT !.todo = @ \ {d}]
  OBVIOUS
<1>4. Formed(x) /\ (x.clean => Knows(x, board'))
  <2>1. CASE calls["loop"].todo = {d}
    BY <1>3, <2>1, NoCallFacts
  <2>2. CASE calls["loop"].todo # {d}
    <3>1. /\ x \in Call /\ x.op = "delete" /\ x.at = calls["loop"].at
          /\ x.todo = calls["loop"].todo \ {d} /\ x.clean = calls["loop"].clean
      BY <1>1, <1>3, <2>2 DEF Call
    <3> QED
      BY <1>1, <1>2, <3>1 DEF Formed, Knows
  <2> QED
    BY <2>1, <2>2
<1>5. TodoInv'
  BY <1>1, <1>2, <1>3, <1>4, WriteStep DEF DeleteMerged
<1>6. calls["loop"].clean /\ OpenIn(board) => OpenIn(board')
  BY <1>1, <1>2 DEF Knows, OpenIn
<1> QED
  BY <1>5, <1>6

LEMMA TodoInvInit == Init => TodoInv
BY StatusFacts, NoCallFacts DEF Init, TodoInv, Formed

LEMMA TodoInvStep == TodoInv /\ [Next]_vars => TodoInv'
<1> SUFFICES ASSUME TodoInv, [Next]_vars PROVE TodoInv'
  OBVIOUS
<1> USE DEF Caller
<1>1. CASE Patrol
  BY <1>1, StartPart DEF Patrol
<1>2. CASE LoopProceeds
  BY <1>2, ReadPart, SavePart, SaveMergedPart, DeleteMergedPart DEF LoopProceeds
<1>3. CASE ToolAudits
  BY <1>3, StartPart DEF ToolAudits
<1>4. CASE ThreadProceeds
  BY <1>4, ReadPart, SavePart DEF ThreadProceeds
<1>5. CASE \E d \in DocId : \/ \E s \in Status \ {"REOPENED"} : OperatorSets(d, s)
                          \/ OperatorDeletes(d)
  BY <1>5, StartPart, RequestPart
<1>6. CASE \E r \in Request : CreateTodo(r)
  BY <1>6, RequestPart
<1>7. CASE \E c \in Caller : CascadeResolve(c)
  BY <1>7, StartPart
<1>8. CASE Deduplicate \/ Restart
  BY <1>8, ListPart
<1>9. CASE WorldChanges
  BY <1>9 DEF WorldChanges, TodoInv
<1>10. CASE UNCHANGED vars
  BY <1>10 DEF vars, world, TodoInv
<1> QED
  BY <1>1, <1>2, <1>3, <1>4, <1>5, <1>6, <1>7, <1>8, <1>9, <1>10 DEF Next

-----------------------------------------------------------------------------
(* Theorems *)

\* A status that is given up and comes back open: who did it, step by step.
LEMMA DismissedStep ==
    ASSUME TodoInv, [Next]_vars, NEW d \in DocId, board[d] = "DISMISSED", board'[d] \in Open
    PROVE  \E c \in Caller :
              /\ calls[c].at = d
              /\ \/ calls[c].op = "update"
                 \/ calls[c].op = "merge" /\ \E e \in calls[c].todo : board[e] \in Open
                 \/ ~calls[c].clean
<1>1. board'[d] # board[d] /\ board \in [DocId -> Status \cup {"absent"}]
  BY StatusFacts DEF TodoInv
<1>2. \A r \in Request : CreateTodo(r) => board[Created(r)] = "absent" /\ d # Created(r)
  BY DEF CreateTodo, Present
<1>3. ASSUME NEW c \in Caller, SaveTodo(c)
      PROVE  /\ calls[c].at = d
             /\ calls[c].op = "update" \/ ~calls[c].clean
  <2>1. /\ Formed(calls[c])
        /\ calls[c].clean => Knows(calls[c], board)
        /\ calls[c].op \in {"sight", "resolve", "update"} /\ calls[c].at # NoId
    BY <1>3 DEF TodoInv, SaveTodo
  <2>2. board' = [board EXCEPT ![calls[c].at] = Written(calls[c])]
    BY <1>1, <1>3 DEF SaveTodo
  <2>3. calls[c].at = d /\ Written(calls[c]) \in Open
    BY <1>1, <2>2
  <2>4. ASSUME calls[c].op = "sight" PROVE ~calls[c].clean
    <3>1. Written(calls[c]) = Sighted(calls[c].read)
      BY <2>4 DEF Written
    <3>2. Sighted("DISMISSED") = "DISMISSED"
      BY DEF Sighted
    <3>3. ASSUME calls[c].clean PROVE FALSE
      <4>1. calls[c].read = "DISMISSED"
        BY <2>1, <2>3, <3>3 DEF Knows
      <4> QED
        BY <2>3, <3>1, <3>2, <4>1, StatusFacts
    <3> QED
      BY <3>3
  <2>5. ASSUME calls[c].op = "resolve" PROVE FALSE
    <3>1. Written(calls[c]) = "RESOLVED"
      BY <2>5 DEF Written
    <3> QED
      BY <2>3, <3>1, StatusFacts
  <2> QED
    BY <2>1, <2>3, <2>4, <2>5
<1>4. ASSUME SaveMerged
      PROVE  \E c \in Caller :
                /\ calls[c].at = d
                /\ \/ calls[c].op = "merge" /\ \E e \in calls[c].todo : board[e] \in Open
                   \/ ~calls[c].clean
  <2>1. /\ "loop" \in Caller /\ calls["loop"].op = "merge"
        /\ calls["loop"].clean => Knows(calls["loop"], board)
        /\ board' = [board EXCEPT ![calls["loop"].at] = calls["loop"].to]
    BY <1>4 DEF TodoInv, SaveMerged, Caller
  <2>2. calls["loop"].at = d /\ calls["loop"].to \in Open
    BY <1>1, <2>1
  <2>3. ASSUME calls["loop"].clean PROVE \E e \in calls["loop"].todo : board[e] \in Open
    <3>1. Knows(calls["loop"], board)
      BY <2>1, <2>3
    <3>2. PICK e \in DocId : board[e] \in Open
      BY <2>1, <2>2, <3>1 DEF Knows, OpenIn
    <3>3. e \in calls["loop"].todo \cup {d}
      BY <2>1, <2>2, <3>1, <3>2, StatusFacts DEF Knows
    <3> QED
      BY <3>2, <3>3, StatusFacts
  <2> QED
    BY <2>1, <2>2, <2>3
<1>5. ASSUME NEW e \in DocId, DeleteMerged(e) \/ OperatorDeletes(e) PROVE FALSE
  <2>1. board' = [board EXCEPT ![e] = "absent"]
    BY <1>5 DEF DeleteMerged, OperatorDeletes
  <2> QED
    BY <1>1, <2>1, StatusFacts
<1>6. ASSUME NEW r \in Request, CreateTodo(r) PROVE FALSE
  BY <1>1, <1>2, <1>6 DEF CreateTodo
<1>7. (\E c \in Caller : SaveTodo(c)) \/ SaveMerged
  BY <1>1, <1>5, <1>6
     DEF Next, vars, world, Patrol, LoopProceeds, ThreadProceeds, ToolAudits, Observe, ReadTodo,
         OperatorSets, CascadeResolve, Deduplicate, Restart, WorldChanges, Caller
<1> QED
  BY <1>3, <1>4, <1>7

\* A dismissal is undone only by those who may.
THEOREM DismissalLasts == Spec => DismissedStays
<1> DEFINE A == \A d \in DocId :
                   board[d] = "DISMISSED" /\ board'[d] \in Open =>
                      \E c \in Caller :
                         /\ calls[c].at = d
                         /\ \/ calls[c].op = "update"
                            \/ calls[c].op = "merge" /\ \E e \in calls[c].todo : board[e] \in Open
                            \/ ~calls[c].clean
<1>1. TodoInv /\ [Next]_vars => [A]_vars
  BY DismissedStep
<1> QED
  BY <1>1, TodoInvInit, TodoInvStep, PTL DEF Spec, DismissedStays

\* A consolidation that nobody overtakes keeps the group open, wherever it stops.
THEOREM NothingOpenIsMergedAway == Spec => ConsolidationKeepsOpen
<1> DEFINE A == (SaveMerged \/ \E d \in DocId : DeleteMerged(d)) /\ calls["loop"].clean
                  /\ GroupIsOpen => GroupIsOpen'
<1>1. TodoInv /\ [Next]_vars => [A]_vars
  BY SaveMergedPart, DeleteMergedPart DEF GroupIsOpen, OpenIn
<1> QED
  BY <1>1, TodoInvInit, TodoInvStep, PTL DEF Spec, ConsolidationKeepsOpen
=============================================================================
