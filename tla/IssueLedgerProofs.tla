-------------------------- MODULE IssueLedgerProofs --------------------------
(***************************************************************************)
(* What holds of the ledger for any number of calls and crashes: numbers   *)
(* never go back, whatever overlaps, and an event file is lost only to an  *)
(* event of its kind that was being written at the same time (IInv).       *)
(*                                                                         *)
(* Two more invariants rest on that one.  Whoever filled issue.yaml last   *)
(* is done or dead, and no call that is done follows it (StatusInv): the   *)
(* status in issue.yaml is then that of the last call.  And calls that     *)
(* never overlap are numbered in turn and leave an issue.yaml that holds   *)
(* what was written since the issue was opened (SerialInv).                *)
(***************************************************************************)
EXTENDS IssueLedger, FiniteSetTheorems, TLAPS

FileNames == [seq : Nat \ {0}, suffix : {e.suffix : e \in Entries}]

Size == Cardinality(DOMAIN events)

\* The state is well formed, and the directory is finite.
Typed ==
    /\ status \in Status \cup {"unknown"}
    /\ calls \in [CallId -> Call]
    /\ DOMAIN events \subseteq FileNames
    /\ IsFiniteSet(DOMAIN events)
    /\ yaml \in Yaml
    /\ crashes \in 0..MaxCrashes

\* A file holds the event of a recorded call with its name, and no number is
\* beyond the number of files: this is what makes counting them safe.
EventsInv ==
    \A f \in DOMAIN events :
        /\ events[f] \in CallId
        /\ calls[events[f]].recorded
        /\ f = FileName(calls[events[f]].seq, calls[events[f]].entry)
        /\ f.seq <= Size

\* The number of a call is given once, before its file is written.
CallInv(c) ==
    /\ calls[c].recorded =>
          /\ calls[c].phase \in {"read", "truncate", "fill", "done", "dead"}
          /\ calls[c].entry = Observed => calls[c].phase \in {"done", "dead"}
          /\ FileName(calls[c].seq, calls[c].entry) \in DOMAIN events
    /\ calls[c].phase = "event" => calls[c].seq \in 1..(Size + 1)
    /\ calls[c].phase \in {"truncate", "fill"} /\ calls[c].entry = Observed => calls[c].seq = 1
    /\ calls[c].phase = "read" => calls[c].entry # Observed
    /\ status = "unknown" => calls[c].phase = "idle" \/ calls[c].entry # Observed

\* A call with a number comes after the calls that were recorded when it began.
OrderInv(c) ==
    \A d \in calls[c].after :
        /\ calls[d].recorded
        /\ calls[c].entry # Observed /\ calls[c].seq # 0 => calls[d].seq < calls[c].seq

\* The issue is opened once.
OpenedOnce ==
    \A c, d \in CallId :
        /\ calls[c].phase # "idle" /\ calls[c].entry = Observed
        /\ calls[d].phase # "idle" /\ calls[d].entry = Observed
        => c = d

IInv ==
    /\ Typed
    /\ EventsInv
    /\ \A c \in CallId : CallInv(c) /\ OrderInv(c)
    /\ OpenedOnce

-----------------------------------------------------------------------------
(* Entries and records *)

LEMMA EntryTypes ==
    \A e \in Entries : e.status \in Status /\ e.suffix \in {x.suffix : x \in Entries}
BY DEF Entries, Observed, Claimed, ProposalCreated, Validation, Decided, Applied, Verified,
       Reopened, ResolvedAlone, OperatorRequeued, ProposalAbandoned, OperatorClosed,
       OperatorAction, Entry, Status, Reclaimable, SelfResolvable, Attention

\* Only the first entry has its suffix.
LEMMA ObservedSuffix ==
    /\ Observed \in Entries
    /\ \A e \in Entries : e.suffix = "observed" <=> e = Observed
BY DEF Entries, Observed, Claimed, ProposalCreated, Validation, Decided, Applied, Verified,
       Reopened, ResolvedAlone, OperatorRequeued, ProposalAbandoned, OperatorClosed,
       OperatorAction, Entry

\* A file that cannot be read yields a status of its own.
LEMMA UnknownIsNoStatus == "unknown" \notin Status
BY DEF Status, Reclaimable, SelfResolvable, Attention

\* What is read from or written to issue.yaml is a value of that file.
LEMMA YamlTypes ==
    /\ NoYaml \in Yaml /\ EmptyYaml \in Yaml /\ MixedYaml \in Yaml /\ OpenedYaml \in Yaml
    /\ \A data \in Yaml, e \in Entries, c \in CallId : Updated(data, e, c) \in Yaml
<1>1. NoYaml \in Yaml /\ EmptyYaml \in Yaml /\ MixedYaml \in Yaml /\ OpenedYaml \in Yaml
  BY DEF Yaml, NoYaml, EmptyYaml, MixedYaml, OpenedYaml, Status, SelfResolvable
<1>2. ASSUME NEW data \in Yaml, NEW e \in Entries, NEW c \in CallId
      PROVE  Updated(data, e, c) \in Yaml
  BY EntryTypes DEF Updated, Yaml
<1> QED BY <1>1, <1>2

\* The state of a call before it begins,
LEMMA IdleIsCall == Idle \in Call
BY YamlTypes, ObservedSuffix DEF Idle, Call, Phase

\* and of one that is done or dead, is a call.
LEMMA EndedIsCall ==
    \A x \in Call, p \in Phase :
        /\ Ended(x, p) \in Call
        /\ Ended(x, p).phase = p
        /\ Ended(x, p).entry = x.entry /\ Ended(x, p).seq = x.seq
        /\ Ended(x, p).recorded = x.recorded /\ Ended(x, p).after = x.after
BY YamlTypes DEF Ended, Call

\* A number above 0 and an entry make a file name.
LEMMA NameTypes ==
    \A s \in Nat, e \in Entries :
        /\ FileName(s, e).seq = s /\ FileName(s, e).suffix = e.suffix
        /\ s # 0 => FileName(s, e) \in FileNames
BY EntryTypes DEF FileName, FileNames

-----------------------------------------------------------------------------
(* Steps *)

LEMMA InitHolds == Init => IInv
<1> SUFFICES ASSUME Init PROVE IInv
  OBVIOUS
<1>1. DOMAIN events = {}
  BY DEF Init
<1>2. Typed
  BY <1>1, IdleIsCall, YamlTypes, CrashAssumption, FS_EmptySet DEF Init, Typed
<1>3. EventsInv
  BY <1>1 DEF EventsInv
<1>4. \A c \in CallId : calls[c] = Idle
  BY DEF Init
<1>5. \A c \in CallId : CallInv(c) /\ OrderInv(c)
  BY <1>4 DEF Idle, CallInv, OrderInv
<1>6. OpenedOnce
  BY <1>4 DEF OpenedOnce, Idle
<1> QED BY <1>2, <1>3, <1>5, <1>6 DEF IInv

\* The size of the directory is a number.
LEMMA SizeIsNat == Typed => Size \in Nat
BY FS_CardinalityType DEF Typed, Size

\* A step that writes no event file, renumbers no call and begins none keeps
\* the invariant, if phases only go where they may.
LEMMA QuietStep ==
    ASSUME IInv, Typed', UNCHANGED <<status, events>>,
           \A c \in CallId :
               /\ calls'[c].entry = calls[c].entry /\ calls'[c].seq = calls[c].seq
               /\ calls'[c].recorded = calls[c].recorded /\ calls'[c].after = calls[c].after
               /\ \/ calls'[c].phase = calls[c].phase
                  \/ /\ calls[c].phase # "idle"
                     /\ calls'[c].phase \in {"done", "dead"}
                  \/ /\ calls[c].phase \in {"read", "truncate"}
                     /\ calls'[c].phase \in {"truncate", "fill"}
                     /\ calls[c].entry = Observed => calls[c].phase = "truncate"
                  \/ /\ calls[c].phase = "fill" /\ calls'[c].phase = "event"
                     /\ calls[c].entry = Observed
    PROVE  IInv'
<1>1. EventsInv'
  BY DEF IInv, EventsInv, Size
<1>2. \A c \in CallId : CallInv(c)'
  BY SizeIsNat DEF IInv, CallInv, Size
<1>3. \A c \in CallId : OrderInv(c)'
  <2> SUFFICES ASSUME NEW c \in CallId, NEW d \in calls[c].after
               PROVE  /\ calls'[d].recorded
                      /\ calls'[c].entry # Observed /\ calls'[c].seq # 0
                            => calls'[d].seq < calls'[c].seq
    BY DEF OrderInv
  <2>1. d \in CallId
    BY DEF IInv, Typed, Call
  <2> QED BY <2>1 DEF IInv, OrderInv
<1>4. OpenedOnce'
  BY DEF IInv, OpenedOnce
<1> QED BY <1>1, <1>2, <1>3, <1>4 DEF IInv

\* The number of a recorded call is one of those counted.
LEMMA RecordedNumber ==
    ASSUME Typed, EventsInv, NEW c \in CallId, CallInv(c), calls[c].recorded
    PROVE  calls[c].seq \in Nat /\ calls[c].seq <= Size
<1>1. calls[c].seq \in Nat /\ calls[c].entry \in Entries
  BY DEF Typed, Call
<1>2. FileName(calls[c].seq, calls[c].entry) \in DOMAIN events
  BY DEF CallInv
<1>3. FileName(calls[c].seq, calls[c].entry).seq <= Size
  BY <1>2 DEF EventsInv
<1> QED BY <1>1, <1>3, NameTypes

\* A call begins with an entry; only the first one opens the ledger.
LEMMA BeginStep ==
    ASSUME IInv, NEW c \in CallId, NEW e \in Entries, NEW from, Begin(c, e, from),
           e = Observed => from = {"unknown"}
    PROVE  IInv'
<1> DEFINE new == [Idle EXCEPT !.phase    = IF e = Observed THEN "truncate" ELSE "count",
                               !.entry    = e,
                               !.seq      = IF e = Observed THEN 1 ELSE 0,
                               !.data     = IF e = Observed THEN OpenedYaml ELSE NoYaml,
                               !.after    = RecordedCalls,
                               !.followed = In("done")]
<1>1. /\ calls \in [CallId -> Call] /\ calls[c].phase = "idle"
      /\ calls' = [calls EXCEPT ![c] = new]
      /\ status' = (IF status = "unknown" /\ e # Observed THEN status ELSE e.status)
      /\ UNCHANGED <<events, yaml, crashes>>
  BY DEF Begin, IInv, Typed
<1>2. /\ new \in Call
      /\ new.phase = (IF e = Observed THEN "truncate" ELSE "count") /\ new.entry = e
      /\ new.seq = (IF e = Observed THEN 1 ELSE 0) /\ new.after = RecordedCalls
      /\ ~new.recorded
  BY IdleIsCall, YamlTypes DEF Call, Phase, RecordedCalls, In, Idle
<1> HIDE DEF new
<1>3. calls'[c] = new /\ \A d \in CallId \ {c} : calls'[d] = calls[d]
  BY <1>1
<1>4. ~calls[c].recorded
  BY <1>1 DEF IInv, CallInv
<1>5. Typed'
  BY <1>1, <1>2, EntryTypes DEF IInv, Typed
<1>6. EventsInv'
  BY <1>1, <1>3, <1>4 DEF IInv, EventsInv, Size
<1>7. \A d \in CallId : CallInv(d)'
  BY <1>1, <1>2, <1>3, EntryTypes, UnknownIsNoStatus DEF IInv, CallInv, Size
<1>8. \A d \in CallId : OrderInv(d)'
  <2> SUFFICES ASSUME NEW d \in CallId PROVE OrderInv(d)'
    OBVIOUS
  <2>1. CASE d = c
    BY <2>1, <1>2, <1>3, <1>4 DEF OrderInv, RecordedCalls
  <2>2. CASE d # c
    <3> SUFFICES ASSUME NEW b \in calls[d].after
                 PROVE  /\ calls'[b].recorded
                        /\ calls[d].entry # Observed /\ calls[d].seq # 0
                              => calls'[b].seq < calls[d].seq
      BY <2>2, <1>3 DEF OrderInv
    <3>1. b \in CallId /\ calls[b].recorded
      BY <1>1 DEF IInv, OrderInv, Call
    <3> QED BY <3>1, <1>3, <1>4 DEF IInv, OrderInv
  <2> QED BY <2>1, <2>2
<1>9. OpenedOnce'
  <2>1. e = Observed => \A d \in CallId : calls[d].phase = "idle" \/ calls[d].entry # Observed
    BY DEF Begin, MayBe, IInv, CallInv
  <2> QED BY <2>1, <1>2, <1>3 DEF IInv, OpenedOnce
<1> QED BY <1>5, <1>6, <1>7, <1>8, <1>9 DEF IInv

\* A call counts the files: its number is beyond every recorded one.
LEMMA CountStep ==
    ASSUME IInv, NEW c \in CallId, CountEvents(c)
    PROVE  IInv'
<1>1. /\ calls \in [CallId -> Call] /\ calls[c].phase = "count" /\ Size \in Nat
      /\ calls' = [calls EXCEPT ![c].phase = "event", ![c].seq = Size + 1]
      /\ UNCHANGED <<status, events, yaml, crashes>>
  BY SizeIsNat DEF CountEvents, NextSequence, IInv, Typed, Size
<1>2. /\ calls'[c].phase = "event" /\ calls'[c].seq = Size + 1
      /\ calls'[c].entry = calls[c].entry /\ calls'[c].after = calls[c].after
      /\ calls'[c].recorded = calls[c].recorded
      /\ calls' \in [CallId -> Call]
      /\ \A d \in CallId \ {c} : calls'[d] = calls[d]
  <2>1. calls[c] \in Call
    BY <1>1
  <2>2. calls'[c] = [calls[c] EXCEPT !.phase = "event", !.seq = Size + 1]
    BY <1>1
  <2>3. /\ calls'[c] \in Call
        /\ calls'[c].phase = "event" /\ calls'[c].seq = Size + 1
        /\ calls'[c].entry = calls[c].entry /\ calls'[c].after = calls[c].after
        /\ calls'[c].recorded = calls[c].recorded
    <3>1. Size + 1 \in Nat
      BY <1>1
    <3> QED BY <3>1, <2>1, <2>2 DEF Call, Phase
  <2>4. DOMAIN calls' = CallId /\ \A d \in CallId \ {c} : calls'[d] = calls[d]
    BY <1>1
  <2>5. calls' \in [CallId -> Call]
    BY <1>1, <2>3, <2>4
  <2> QED BY <2>3, <2>4, <2>5
<1>3. ~calls[c].recorded
  BY <1>1 DEF IInv, CallInv
<1>4. Typed'
  BY <1>1, <1>2 DEF IInv, Typed
<1>5. EventsInv'
  BY <1>1, <1>2, <1>3 DEF IInv, EventsInv, Size
<1>6. \A d \in CallId : CallInv(d)'
  BY <1>1, <1>2, <1>3 DEF IInv, CallInv, Size
<1>7. \A d \in CallId : OrderInv(d)'
  <2> SUFFICES ASSUME NEW d \in CallId, NEW b \in calls'[d].after
               PROVE  /\ calls'[b].recorded
                      /\ calls'[d].entry # Observed /\ calls'[d].seq # 0
                            => calls'[b].seq < calls'[d].seq
    BY DEF OrderInv
  <2>1. b \in calls[d].after /\ b \in CallId /\ calls[b].recorded /\ b # c
    BY <1>1, <1>2, <1>3 DEF IInv, OrderInv, Call
  <2>2. calls[b].seq <= Size /\ calls[b].seq \in Nat
    BY <2>1, RecordedNumber DEF IInv
  <2>3. CASE d = c
    BY <2>1, <2>2, <2>3, <1>1, <1>2
  <2>4. CASE d # c
    BY <2>1, <2>4, <1>2 DEF IInv, OrderInv
  <2> QED BY <2>3, <2>4
<1>8. OpenedOnce'
  BY <1>1, <1>2 DEF IInv, OpenedOnce
<1> QED BY <1>4, <1>5, <1>6, <1>7, <1>8 DEF IInv

\* A call writes its event, over a file of the same name if there is one.
LEMMA WriteStep ==
    ASSUME IInv, NEW c \in CallId, WriteEvent(c)
    PROVE  IInv'
<1> DEFINE file  == FileName(calls[c].seq, calls[c].entry)
           phase == IF calls[c].entry = Observed THEN "done" ELSE "read"
<1>1. /\ calls \in [CallId -> Call] /\ calls[c] \in Call /\ calls[c].phase = "event"
      /\ calls' = [calls EXCEPT ![c].phase = phase, ![c].recorded = TRUE]
      /\ events' = [f \in DOMAIN events \cup {file} |-> IF f = file THEN c ELSE events[f]]
      /\ UNCHANGED <<status, yaml, crashes>>
  BY DEF WriteEvent, IInv, Typed
<1>2. /\ calls' \in [CallId -> Call]
      /\ calls'[c].phase = phase /\ calls'[c].recorded
      /\ calls'[c].entry = calls[c].entry /\ calls'[c].after = calls[c].after
      /\ calls'[c].seq = calls[c].seq
      /\ \A d \in CallId \ {c} : calls'[d] = calls[d]
  <2>1. calls'[c] = [calls[c] EXCEPT !.phase = phase, !.recorded = TRUE]
    BY <1>1
  <2>2. /\ calls'[c] \in Call
        /\ calls'[c].phase = phase /\ calls'[c].recorded
        /\ calls'[c].entry = calls[c].entry /\ calls'[c].after = calls[c].after
        /\ calls'[c].seq = calls[c].seq
    BY <1>1, <2>1 DEF Call, Phase
  <2>3. DOMAIN calls' = CallId /\ \A d \in CallId \ {c} : calls'[d] = calls[d]
    BY <1>1
  <2>4. calls' \in [CallId -> Call]
    BY <1>1, <2>2, <2>3
  <2> QED BY <2>2, <2>3, <2>4
<1>3. /\ ~calls[c].recorded
      /\ Size \in Nat /\ calls[c].seq \in 1..(Size + 1) /\ calls[c].entry \in Entries
  BY <1>1, SizeIsNat DEF IInv, CallInv, Call
<1>4. file \in FileNames /\ file.seq = calls[c].seq
  BY <1>3, NameTypes
<1> HIDE DEF file
<1>5. /\ DOMAIN events' = DOMAIN events \cup {file}
      /\ events'[file] = c
      /\ \A f \in DOMAIN events \ {file} : events'[f] = events[f]
  BY <1>1
<1>6. /\ Size' \in Nat /\ Size <= Size' /\ file.seq <= Size'
      /\ IsFiniteSet(DOMAIN events')
  <2>1. /\ IsFiniteSet(DOMAIN events')
        /\ Size' = IF file \in DOMAIN events THEN Size ELSE Size + 1
    BY <1>5, FS_AddElement DEF IInv, Typed, Size
  <2>2. file \in DOMAIN events => file.seq <= Size
    BY DEF IInv, EventsInv
  <2> QED BY <2>1, <2>2, <1>3, <1>4
<1>7. Typed'
  BY <1>1, <1>2, <1>4, <1>5, <1>6 DEF IInv, Typed
<1>8. EventsInv'
  <2> SUFFICES ASSUME NEW f \in DOMAIN events'
               PROVE  /\ events'[f] \in CallId
                      /\ calls'[events'[f]].recorded
                      /\ f = FileName(calls'[events'[f]].seq, calls'[events'[f]].entry)
                      /\ f.seq <= Size'
    BY DEF EventsInv
  <2>1. CASE f = file
    BY <2>1, <1>2, <1>5, <1>6 DEF file
  <2>2. CASE f # file
    <3>1. /\ f \in DOMAIN events /\ events'[f] = events[f] /\ events[f] \in CallId
          /\ calls[events[f]].recorded /\ f.seq <= Size
          /\ f = FileName(calls[events[f]].seq, calls[events[f]].entry)
      BY <2>2, <1>5 DEF IInv, EventsInv
    <3>2. events[f] # c
      BY <3>1, <1>3
    <3>3. f.seq \in Nat
      BY <3>1 DEF IInv, Typed, FileNames
    <3> QED BY <3>1, <3>2, <3>3, <1>2, <1>3, <1>6
  <2> QED BY <2>1, <2>2
<1>9. \A d \in CallId : CallInv(d)'
  <2> SUFFICES ASSUME NEW d \in CallId PROVE CallInv(d)'
    OBVIOUS
  <2>1. CASE d = c
    BY <2>1, <1>1, <1>2, <1>5 DEF IInv, CallInv, file
  <2>2. CASE d # c
    <3>1. calls'[d] = calls[d] /\ CallInv(d)
      BY <2>2, <1>2 DEF IInv
    <3>2. calls[d].phase = "event" => calls[d].seq \in 1..(Size' + 1)
      BY <3>1, <1>3, <1>6 DEF CallInv
    <3> QED BY <3>1, <3>2, <1>1, <1>5 DEF CallInv
  <2> QED BY <2>1, <2>2
<1>10. \A d \in CallId : OrderInv(d)'
  <2> SUFFICES ASSUME NEW d \in CallId, NEW b \in calls'[d].after
               PROVE  /\ calls'[b].recorded
                      /\ calls'[d].entry # Observed /\ calls'[d].seq # 0
                            => calls'[b].seq < calls'[d].seq
    BY DEF OrderInv
  <2>1. b \in calls[d].after /\ b \in CallId /\ calls[b].recorded /\ b # c
    BY <1>1, <1>2, <1>3 DEF IInv, OrderInv, Call
  <2> QED BY <2>1, <1>2 DEF IInv, OrderInv
<1>11. OpenedOnce'
  BY <1>1, <1>2 DEF IInv, OpenedOnce
<1> QED BY <1>7, <1>8, <1>9, <1>10, <1>11 DEF IInv

\* A call reads issue.yaml.
LEMMA ReadStep ==
    ASSUME IInv, NEW c \in CallId, ReadYaml(c)
    PROVE  IInv'
<1>1. /\ calls \in [CallId -> Call] /\ calls[c] \in Call /\ calls[c].phase = "read"
      /\ yaml \in Yaml /\ UNCHANGED <<status, events, yaml, crashes>>
  BY DEF ReadYaml, IInv, Typed
<1>2. /\ calls[c].entry = Observed => ~calls[c].recorded
      /\ "done" \in Phase /\ "truncate" \in Phase
  BY <1>1 DEF IInv, CallInv, Phase
<1>3. CASE calls' = [calls EXCEPT ![c] = Ended(@, "done")]
  <2>1. /\ calls'[c] = Ended(calls[c], "done") /\ calls' \in [CallId -> Call]
        /\ \A d \in CallId \ {c} : calls'[d] = calls[d]
    BY <1>1, <1>2, <1>3, EndedIsCall
  <2>2. Typed'
    BY <1>1, <2>1 DEF IInv, Typed
  <2> QED BY <1>1, <1>2, <2>1, <2>2, EndedIsCall, QuietStep
<1>4. CASE calls' = [calls EXCEPT ![c].phase = "truncate", ![c].data = yaml]
  <2>1. calls'[c] = [calls[c] EXCEPT !.phase = "truncate", !.data = yaml]
    BY <1>1, <1>4
  <2>2. /\ calls'[c] \in Call
        /\ calls'[c].phase = "truncate" /\ calls'[c].recorded = calls[c].recorded
        /\ calls'[c].entry = calls[c].entry /\ calls'[c].after = calls[c].after
        /\ calls'[c].seq = calls[c].seq
    BY <1>1, <1>2, <2>1 DEF Call
  <2>3. DOMAIN calls' = CallId /\ \A d \in CallId \ {c} : calls'[d] = calls[d]
    BY <1>1, <1>4
  <2>4. calls' \in [CallId -> Call]
    BY <1>1, <1>4, <2>2, <2>3
  <2>5. Typed'
    BY <1>1, <2>4 DEF IInv, Typed
  <2>6. calls[c].entry # Observed
    BY <1>1 DEF IInv, CallInv
  <2> QED BY <1>1, <2>2, <2>3, <2>5, <2>6, QuietStep
<1> QED BY <1>3, <1>4 DEF ReadYaml

\* A call truncates issue.yaml, which drops what others fill in later,
LEMMA TruncateStep ==
    ASSUME IInv, NEW c \in CallId, TruncateYaml(c)
    PROVE  IInv'
<1>1. /\ calls \in [CallId -> Call] /\ calls[c] \in Call /\ calls[c].phase = "truncate"
      /\ calls' = [calls EXCEPT ![c].phase = "fill"]
      /\ yaml' \in Yaml /\ UNCHANGED <<status, events, crashes>>
  BY YamlTypes DEF TruncateYaml, IInv, Typed
<1>2. /\ calls' \in [CallId -> Call]
      /\ calls'[c].phase = "fill" /\ calls'[c].recorded = calls[c].recorded
      /\ calls'[c].entry = calls[c].entry /\ calls'[c].after = calls[c].after
      /\ calls'[c].seq = calls[c].seq
      /\ \A d \in CallId \ {c} : calls'[d] = calls[d]
  BY <1>1 DEF Call, Phase
<1>3. Typed'
  BY <1>1, <1>2 DEF IInv, Typed
<1> QED BY <1>1, <1>2, <1>3, QuietStep

\* and fills it in.
LEMMA FillStep ==
    ASSUME IInv, NEW c \in CallId, FillYaml(c)
    PROVE  IInv'
<1> DEFINE next == IF calls[c].entry = Observed THEN "event" ELSE "done"
<1>1. /\ calls \in [CallId -> Call] /\ calls[c] \in Call /\ calls[c].phase = "fill"
      /\ calls' = [calls EXCEPT ![c] = Ended(@, next)]
      /\ next \in Phase /\ UNCHANGED <<status, events, crashes>>
  BY DEF FillYaml, IInv, Typed, Phase
<1>2. yaml' \in Yaml
  BY <1>1, YamlTypes DEF FillYaml, Call
<1>3. /\ calls'[c] = Ended(calls[c], next) /\ calls' \in [CallId -> Call]
      /\ \A d \in CallId \ {c} : calls'[d] = calls[d]
  BY <1>1, EndedIsCall
<1>4. Typed'
  BY <1>1, <1>2, <1>3 DEF IInv, Typed
<1> QED BY <1>1, <1>3, <1>4, EndedIsCall, QuietStep

\* A crash ends every call in progress and touches no file.
LEMMA CrashStep ==
    ASSUME IInv, Crash
    PROVE  IInv'
<1>1. /\ calls \in [CallId -> Call] /\ crashes' \in 0..MaxCrashes
      /\ calls' = [c \in CallId |->
                      IF c \in InProgress THEN Ended(calls[c], "dead") ELSE calls[c]]
      /\ "dead" \in Phase /\ UNCHANGED <<status, events, yaml>>
  BY CrashAssumption DEF Crash, IInv, Typed, Phase
<1>2. \A c \in InProgress : c \in CallId /\ calls[c].phase # "idle"
  BY DEF InProgress, In
<1>3. \A c \in CallId : calls'[c] = calls[c] \/ (c \in InProgress /\ calls'[c] = Ended(calls[c], "dead"))
  BY <1>1
<1>4. calls' \in [CallId -> Call]
  BY <1>1, <1>3, EndedIsCall
<1>5. Typed'
  BY <1>1, <1>4 DEF IInv, Typed
<1> QED BY <1>1, <1>2, <1>3, <1>5, EndedIsCall, QuietStep

\* A call that begins makes some entry; only an issue that is not known is opened.
Begins(c) ==
    \E e \in Entries : \E from : Begin(c, e, from) /\ (e = Observed => from = {"unknown"})

\* Every call of the life cycle begins with an entry; only the first opens the
\* issue.
LEMMA LifeCycleBegins ==
    ASSUME NEW c \in CallId, LifeCycle(c)
    PROVE  Begins(c)
<1>1. ASSUME NEW e \in Entries, NEW from, Begin(c, e, from),
             e = Observed => from = {"unknown"}
      PROVE  Begins(c)
  BY <1>1 DEF Begins
<1>2. /\ {Observed, Claimed, ProposalCreated, Applied, Verified, Reopened, ResolvedAlone,
          OperatorRequeued, ProposalAbandoned, OperatorClosed} \subseteq Entries
      /\ \A b \in BOOLEAN : Validation(b) \in Entries /\ Decided(b) \in Entries
  BY DEF Entries
<1>3. \A e \in Entries : e.suffix # "observed" => e # Observed
  BY ObservedSuffix
<1>4. /\ \A e \in {Claimed, ProposalCreated, Applied, Verified, Reopened, ResolvedAlone,
                     OperatorRequeued, ProposalAbandoned, OperatorClosed} : e # Observed
      /\ \A b \in BOOLEAN : Validation(b) # Observed /\ Decided(b) # Observed
  <2>1. \A e \in {Claimed, ProposalCreated, Applied, Verified, Reopened, ResolvedAlone,
                   OperatorRequeued, ProposalAbandoned, OperatorClosed} : e.suffix # "observed"
    BY DEF Claimed, ProposalCreated, Applied, Verified, Reopened, ResolvedAlone,
           OperatorRequeued, ProposalAbandoned, OperatorClosed, OperatorAction, Entry
  <2>2. \A b \in BOOLEAN : Validation(b).suffix # "observed" /\ Decided(b).suffix # "observed"
    BY DEF Validation, Decided, Entry
  <2> QED BY <2>1, <2>2, <1>2, <1>3
<1>5. CASE OpenIssue(c)
  <2>1. CASE Begin(c, Observed, {"unknown"})
    BY <2>1, <1>1, <1>2
  <2>2. CASE Begin(c, Reopened, {"CLOSED"})
    BY <2>2, <1>1, <1>2, <1>4
  <2> QED BY <1>5, <2>1, <2>2 DEF OpenIssue
<1>6. CASE ClaimIssue(c)
  BY <1>6, <1>1, <1>2, <1>4 DEF ClaimIssue
<1>7. CASE SubmitProposal(c)
  BY <1>7, <1>1, <1>2, <1>4 DEF SubmitProposal
<1>8. CASE RecordValidation(c)
  BY <1>8, <1>1, <1>2, <1>4 DEF RecordValidation
<1>9. CASE DecideIssue(c)
  BY <1>9, <1>1, <1>2, <1>4 DEF DecideIssue
<1>10. CASE ApplyChange(c)
  BY <1>10, <1>1, <1>2, <1>4 DEF ApplyChange
<1>11. CASE VerifyAndClose(c)
  BY <1>11, <1>1, <1>2, <1>4 DEF VerifyAndClose
<1>12. CASE ResolveWithoutChange(c)
  BY <1>12, <1>1, <1>2, <1>4 DEF ResolveWithoutChange
<1>13. CASE RequeueIssue(c)
  BY <1>13, <1>1, <1>2, <1>4 DEF RequeueIssue
<1>14. CASE AbandonApprovedChange(c)
  BY <1>14, <1>1, <1>2, <1>4 DEF AbandonApprovedChange
<1>15. CASE CloseIssueManually(c)
  BY <1>15, <1>1, <1>2, <1>4 DEF CloseIssueManually
<1> QED BY <1>5, <1>6, <1>7, <1>8, <1>9, <1>10, <1>11, <1>12, <1>13, <1>14, <1>15
        DEF LifeCycle

\* The beginning of a call keeps the invariant.
LEMMA LifeCycleStep ==
    ASSUME IInv, NEW c \in CallId, LifeCycle(c)
    PROVE  IInv'
<1>1. ASSUME NEW e \in Entries, NEW from, Begin(c, e, from),
             e = Observed => from = {"unknown"}
      PROVE  IInv'
  BY <1>1, BeginStep
<1> QED BY <1>1, LifeCycleBegins DEF Begins

\* One case for each action.
LEMMA StepHolds ==
    ASSUME IInv, [Next]_vars
    PROVE  IInv'
<1>1. CASE UNCHANGED vars
  BY <1>1 DEF vars, IInv, Typed, EventsInv, CallInv, OrderInv, OpenedOnce, Size
<1>2. CASE Crash
  BY <1>2, CrashStep
<1>3. ASSUME NEW c \in CallId, LifeCycle(c) PROVE IInv'
  BY <1>3, LifeCycleStep
<1>4. ASSUME NEW c \in CallId, MakeEntry(c) PROVE IInv'
  BY <1>4, CountStep, WriteStep, ReadStep, TruncateStep, FillStep DEF MakeEntry
<1> QED BY <1>1, <1>2, <1>3, <1>4 DEF Next

\* So the invariant holds throughout.
LEMMA Invariance == Spec => []IInv
<1>1. Init => IInv
  BY InitHolds
<1>2. IInv /\ [Next]_vars => IInv'
  BY StepHolds
<1> QED BY <1>1, <1>2, PTL DEF Spec

-----------------------------------------------------------------------------
(* Results *)

\* Whatever calls of the life cycle overlap or die, the ledger is well formed:
\* a recorded call finds a file of its name.
THEOREM LedgerTypeCorrect == Spec => []LedgerTypeOK
<1>1. IInv => LedgerTypeOK
  BY DEF IInv, Typed, EventsInv, CallInv, LedgerTypeOK, RecordedCalls, FileNames
<1> QED BY <1>1, Invariance, PTL

\* However many writers count at once, a call that began when an event was on
\* record is numbered after it.
THEOREM HistoryIsOrdered == Spec => []HistoryInOrder
<1>1. IInv => HistoryInOrder
  <2> SUFFICES ASSUME IInv, NEW c \in RecordedCalls, NEW d \in RecordedCalls,
                      c \in calls[d].after, calls[d].entry # Observed
               PROVE  calls[c].seq < calls[d].seq
    BY DEF HistoryInOrder
  <2>1. /\ d \in CallId /\ calls[d].recorded
        /\ FileName(calls[d].seq, calls[d].entry) \in DOMAIN events
    BY DEF RecordedCalls, IInv, CallInv
  <2>2. calls[d].seq # 0
    <3>1. FileName(calls[d].seq, calls[d].entry).seq \in Nat \ {0}
      BY <2>1 DEF IInv, Typed, FileNames
    <3> QED BY <3>1, <2>1 DEF FileName
  <2> QED BY <2>1, <2>2 DEF IInv, OrderInv
<1> QED BY <1>1, Invariance, PTL

\* An event file is lost only to an event of its kind whose call overlapped.
THEOREM EventsAreNotLost == Spec => []EventsAreKept
<1>1. IInv => EventsAreKept
  <2> SUFFICES ASSUME IInv, NEW c \in RecordedCalls, NEW d,
                      d = events[FileName(calls[c].seq, calls[c].entry)], d # c
               PROVE  /\ calls[d].entry.suffix = calls[c].entry.suffix
                      /\ c \notin calls[d].after
                      /\ d \notin calls[c].after
    BY DEF EventsAreKept
  <2>1. /\ c \in CallId /\ calls[c].recorded
        /\ FileName(calls[c].seq, calls[c].entry) \in DOMAIN events
    BY DEF RecordedCalls, IInv, CallInv
  <2>2. /\ d \in CallId /\ calls[d].recorded
        /\ FileName(calls[c].seq, calls[c].entry) = FileName(calls[d].seq, calls[d].entry)
    BY <2>1 DEF IInv, EventsInv
  <2>3. calls[c].seq = calls[d].seq /\ calls[c].entry.suffix = calls[d].entry.suffix
    BY <2>2 DEF FileName
  <2>4. /\ calls[c].entry \in Entries /\ calls[d].entry \in Entries
        /\ calls[c].seq \in Nat
    BY <2>1, <2>2 DEF IInv, Typed, Call
  <2>5. calls[c].seq # 0
    <3>1. FileName(calls[c].seq, calls[c].entry).seq \in Nat \ {0}
      BY <2>1 DEF IInv, Typed, FileNames
    <3> QED BY <3>1 DEF FileName
  <2>6. calls[c].entry # Observed /\ calls[d].entry # Observed
    <3>1. calls[c].entry = Observed <=> calls[d].entry = Observed
      BY <2>3, <2>4, ObservedSuffix
    <3>2. calls[c].phase # "idle" /\ calls[d].phase # "idle"
      BY <2>1, <2>2 DEF IInv, CallInv
    <3> QED BY <2>1, <2>2, <3>1, <3>2 DEF IInv, OpenedOnce
  <2>7. c \notin calls[d].after /\ d \notin calls[c].after
    <3>0. OrderInv(c) /\ OrderInv(d) /\ calls[d].seq # 0
      BY <2>1, <2>2, <2>3, <2>5 DEF IInv
    <3>1. c \in calls[d].after => calls[c].seq < calls[d].seq
      BY <3>0, <2>6 DEF OrderInv
    <3>2. d \in calls[c].after => calls[d].seq < calls[c].seq
      BY <3>0, <2>5, <2>6 DEF OrderInv
    <3>3. ~(calls[c].seq < calls[d].seq) /\ ~(calls[d].seq < calls[c].seq)
      <4>1. \A m, n \in Nat : m = n => ~(m < n) /\ ~(n < m)
        OBVIOUS
      <4>2. calls[d].seq \in Nat
        BY <2>2 DEF IInv, Typed, Call
      <4> QED BY <4>1, <4>2, <2>3, <2>4
    <3> QED BY <3>1, <3>2, <3>3
  <2> QED BY <2>3, <2>7
<1> QED BY <1>1, Invariance, PTL

-----------------------------------------------------------------------------
(* What a step does to its call *)

Began == CallId \ In("idle")

\* A call that is under way goes on from one phase to another, and leaves the
\* others alone.
Moves(c, from, to) ==
    /\ calls[c].phase = from /\ calls'[c].phase = to
    /\ calls'[c].entry = calls[c].entry /\ calls'[c].followed = calls[c].followed
    /\ \A d \in CallId \ {c} : calls'[d] = calls[d]

\* The five steps of an entry.
Counts(c) ==
    /\ Moves(c, "count", "event") /\ UNCHANGED <<status, events, yaml>>
    /\ calls'[c].seq = Size + 1 /\ calls'[c].recorded = calls[c].recorded

Records(c) ==
    /\ Moves(c, "event", IF calls[c].entry = Observed THEN "done" ELSE "read")
    /\ calls'[c].seq = calls[c].seq /\ calls'[c].recorded
    /\ UNCHANGED <<status, yaml>>

Reads(c) ==
    /\ \/ Moves(c, "read", "done") /\ yaml.state \in {"absent", "mixed"}
       \/ /\ Moves(c, "read", "truncate") /\ calls'[c].data = yaml
          /\ yaml.state \notin {"absent", "mixed"}
    /\ calls'[c].seq = calls[c].seq /\ calls'[c].recorded = calls[c].recorded
    /\ UNCHANGED <<status, events, yaml>>

Truncates(c) ==
    /\ Moves(c, "truncate", "fill") /\ yaml' = EmptyYaml
    /\ calls'[c].seq = calls[c].seq /\ calls'[c].recorded = calls[c].recorded
    /\ calls'[c].data = calls[c].data
    /\ UNCHANGED <<status, events>>

Fills(c) ==
    /\ Moves(c, "fill", IF calls[c].entry = Observed THEN "event" ELSE "done")
    /\ \/ yaml' = IF calls[c].entry = Observed THEN calls[c].data
                  ELSE Updated(calls[c].data, calls[c].entry, c)
       \/ yaml.state # "empty" /\ yaml' = MixedYaml
    /\ calls'[c].seq = calls[c].seq /\ calls'[c].recorded = calls[c].recorded
    /\ UNCHANGED <<status, events>>

\* A step of MakeEntry is one of these five,
LEMMA EntrySteps ==
    ASSUME Typed, NEW c \in CallId, MakeEntry(c)
    PROVE  Counts(c) \/ Records(c) \/ Reads(c) \/ Truncates(c) \/ Fills(c)
<1>1. calls \in [CallId -> Call] /\ calls[c] \in Call
  BY DEF Typed
<1>2. ASSUME CountEvents(c) PROVE Counts(c)
  <2>1. calls'[c] = [calls[c] EXCEPT !.phase = "event", !.seq = Size + 1]
    BY <1>1, <1>2 DEF CountEvents, NextSequence, Size
  <2>2. \A d \in CallId \ {c} : calls'[d] = calls[d]
    BY <1>1, <1>2 DEF CountEvents
  <2> QED BY <1>1, <1>2, <2>1, <2>2 DEF CountEvents, Counts, Moves, Call
<1>3. ASSUME WriteEvent(c) PROVE Records(c)
  <2>1. PICK ph : ph = IF calls[c].entry = Observed THEN "done" ELSE "read"
    OBVIOUS
  <2>2. calls' = [calls EXCEPT ![c].phase = ph, ![c].recorded = TRUE]
    BY <1>3, <2>1 DEF WriteEvent
  <2>3. calls'[c] = [calls[c] EXCEPT !.phase = ph, !.recorded = TRUE]
    BY <1>1, <2>2
  <2>4. \A d \in CallId \ {c} : calls'[d] = calls[d]
    BY <1>1, <2>2
  <2> QED BY <1>1, <1>3, <2>1, <2>3, <2>4 DEF WriteEvent, Records, Moves, Call
<1>4. ASSUME ReadYaml(c) PROVE Reads(c)
  <2>1. CASE calls' = [calls EXCEPT ![c] = Ended(@, "done")] /\ yaml.state \in {"absent", "mixed"}
    <3>1. calls'[c] = Ended(calls[c], "done") /\ \A d \in CallId \ {c} : calls'[d] = calls[d]
      BY <1>1, <2>1
    <3> QED BY <1>1, <1>4, <2>1, <3>1 DEF ReadYaml, Reads, Moves, Call, Ended
  <2>2. CASE /\ calls' = [calls EXCEPT ![c].phase = "truncate", ![c].data = yaml]
             /\ yaml.state \notin {"absent", "mixed"}
    <3>1. /\ calls'[c] = [calls[c] EXCEPT !.phase = "truncate", !.data = yaml]
          /\ \A d \in CallId \ {c} : calls'[d] = calls[d]
      BY <1>1, <2>2
    <3> QED BY <1>1, <1>4, <2>2, <3>1 DEF ReadYaml, Reads, Moves, Call
  <2> QED BY <1>4, <2>1, <2>2 DEF ReadYaml
<1>5. ASSUME TruncateYaml(c) PROVE Truncates(c)
  <2>1. /\ calls'[c] = [calls[c] EXCEPT !.phase = "fill"]
        /\ \A d \in CallId \ {c} : calls'[d] = calls[d]
    BY <1>1, <1>5 DEF TruncateYaml
  <2> QED BY <1>1, <1>5, <2>1 DEF TruncateYaml, Truncates, Moves, Call
<1>6. ASSUME FillYaml(c) PROVE Fills(c)
  <2>1. PICK ph : ph = IF calls[c].entry = Observed THEN "event" ELSE "done"
    OBVIOUS
  <2>2. calls' = [calls EXCEPT ![c] = Ended(@, ph)]
    BY <1>6, <2>1 DEF FillYaml
  <2>3. calls'[c] = Ended(calls[c], ph) /\ \A d \in CallId \ {c} : calls'[d] = calls[d]
    BY <1>1, <2>2
  <2> QED BY <1>1, <1>6, <2>1, <2>3 DEF FillYaml, Fills, Moves, Call, Ended
<1> QED BY <1>2, <1>3, <1>4, <1>5, <1>6 DEF MakeEntry

\* What a call that begins looks like.
Opens(c, e) ==
    /\ calls[c].phase = "idle"
    /\ calls'[c].phase = (IF e = Observed THEN "truncate" ELSE "count")
    /\ calls'[c].entry = e
    /\ calls'[c].seq = (IF e = Observed THEN 1 ELSE 0)
    /\ calls'[c].data = (IF e = Observed THEN OpenedYaml ELSE NoYaml)
    /\ ~calls'[c].recorded
    /\ calls'[c].followed = In("done")
    /\ \A d \in CallId \ {c} : calls'[d] = calls[d]
    /\ status' = (IF status = "unknown" /\ e # Observed THEN status ELSE e.status)
    /\ UNCHANGED <<events, yaml>>
    /\ e = Observed => status = "unknown"

\* a life-cycle call begins with one of the entries,
LEMMA BeginningSteps ==
    ASSUME Typed, NEW c \in CallId, LifeCycle(c)
    PROVE  \E e \in Entries : Opens(c, e)
<1>1. ASSUME NEW e \in Entries, NEW from, Begin(c, e, from),
             e = Observed => from = {"unknown"}
      PROVE  Opens(c, e)
  <2>1. calls \in [CallId -> Call] /\ calls[c] \in Call
    BY DEF Typed
  <2>2. e = Observed => status = "unknown"
    <3>1. "unknown" \notin {"EXECUTING", "AVAILABLE", "NEEDS_HUMAN"}
          /\ "unknown" \notin Reclaimable \cup {"VALIDATING"}
      BY DEF Reclaimable
    <3> QED BY <1>1, <3>1 DEF Begin, MayBe
  <2>3. PICK new : new = [Idle EXCEPT !.phase    = IF e = Observed THEN "truncate" ELSE "count",
                                      !.entry    = e,
                                      !.seq      = IF e = Observed THEN 1 ELSE 0,
                                      !.data     = IF e = Observed THEN OpenedYaml ELSE NoYaml,
                                      !.after    = RecordedCalls,
                                      !.followed = In("done")]
    OBVIOUS
  <2>4. calls' = [calls EXCEPT ![c] = new]
    BY <1>1, <2>3 DEF Begin
  <2>5. calls'[c] = new /\ \A d \in CallId \ {c} : calls'[d] = calls[d]
    BY <2>1, <2>4
  <2>6. /\ new.phase = (IF e = Observed THEN "truncate" ELSE "count")
        /\ new.entry = e /\ new.seq = (IF e = Observed THEN 1 ELSE 0)
        /\ new.data = (IF e = Observed THEN OpenedYaml ELSE NoYaml)
        /\ ~new.recorded /\ new.followed = In("done")
    BY <2>3 DEF Idle
  <2> QED BY <1>1, <2>2, <2>5, <2>6 DEF Opens, Begin
<1> QED BY <1>1, LifeCycleBegins DEF Begins

\* What a crash does to the calls.
Dies(c) ==
    /\ calls'[c].entry = calls[c].entry /\ calls'[c].followed = calls[c].followed
    /\ \/ calls'[c] = calls[c] /\ c \notin InProgress
       \/ calls'[c].phase = "dead" /\ c \in InProgress

\* and a crash turns every call in progress into a dead one.
LEMMA CrashSteps ==
    ASSUME Typed, Crash
    PROVE  \A c \in CallId : Dies(c)
<1> SUFFICES ASSUME NEW c \in CallId PROVE Dies(c)
  OBVIOUS
<1>1. calls[c] \in Call
  BY DEF Typed
<1>2. calls'[c] = IF c \in InProgress THEN Ended(calls[c], "dead") ELSE calls[c]
  BY DEF Crash
<1> QED BY <1>1, <1>2 DEF Dies, Ended, Call

-----------------------------------------------------------------------------
(* The status in issue.yaml *)

\* Calls are followed only after they are done; the opening writes the issue as it
\* was opened, and until then there is no issue.yaml and nobody writes one.
Steady ==
    /\ \A c \in CallId :
        /\ calls[c].followed \subseteq In("done")
        /\ calls[c].entry = Observed /\ calls[c].phase \in {"truncate", "fill"}
              => calls[c].data = OpenedYaml
        /\ \/ calls[c].phase \in {"read", "done"}
           \/ calls[c].phase \in {"truncate", "fill"} /\ calls[c].entry # Observed
           => calls[c].recorded
    /\ status = "unknown" => /\ yaml = NoYaml
                             /\ \A c \in CallId : calls[c].phase \notin {"truncate", "fill"}
    /\ status # "unknown" => \E o \in Began : calls[o].entry = Observed

\* The call that filled issue.yaml last: it does not precede the opening, and a
\* call that followed it has still to fill it, or died.
FilledBy(w) ==
    /\ \/ calls[w].phase \in {"done", "dead"}
       \/ calls[w].phase = "event" /\ calls[w].entry = Observed
    /\ yaml.status = calls[w].entry.status
    /\ \A d \in In("done") : w \notin calls[d].followed
    /\ \A d \in Began : calls[d].entry = Observed => w \notin calls[d].followed

YamlInv == yaml.state = "filled" => \E w \in CallId : FilledBy(w)

StatusInv == Steady /\ YamlInv

\* What issue.yaml says after it was filled.
LEMMA FilledFacts ==
    /\ OpenedYaml.state = "filled" /\ OpenedYaml.status = Observed.status
    /\ EmptyYaml.state = "empty" /\ MixedYaml.state = "mixed"
    /\ \A data \in Yaml, e \in Entries, c \in CallId :
          /\ Updated(data, e, c).state = "filled" /\ Updated(data, e, c).status = e.status
          /\ Updated(data, e, c).whole = data.whole
          /\ Updated(data, e, c).proposal = IF e.pointer = "proposal" THEN c ELSE data.proposal
          /\ Updated(data, e, c).change = IF e.pointer = "change" THEN c ELSE data.change
<1>1. NoYaml \in Yaml
  BY YamlTypes
<1>2. /\ OpenedYaml.state = "filled" /\ OpenedYaml.status = Observed.status
      /\ EmptyYaml.state = "empty" /\ MixedYaml.state = "mixed"
  BY DEF OpenedYaml, EmptyYaml, MixedYaml, NoYaml, Observed, Entry
<1>3. ASSUME NEW data \in Yaml, NEW e \in Entries, NEW c \in CallId
      PROVE  /\ Updated(data, e, c).state = "filled" /\ Updated(data, e, c).status = e.status
             /\ Updated(data, e, c).whole = data.whole
             /\ Updated(data, e, c).proposal = IF e.pointer = "proposal" THEN c ELSE data.proposal
             /\ Updated(data, e, c).change = IF e.pointer = "change" THEN c ELSE data.change
  BY <1>3 DEF Updated, Yaml
<1> QED BY <1>2, <1>3

\* The phases of calls under way.
LEMMA OfPhase ==
    \A ph : \A c \in CallId : c \in In(ph) <=> calls[c].phase = ph
BY DEF In

\* A call that goes on keeps what it follows, and all that follow it.
LEMMA MoveKeepsSteady ==
    ASSUME IInv, Steady, NEW c \in CallId,
           Counts(c) \/ Records(c) \/ Reads(c) \/ Truncates(c) \/ Fills(c)
    PROVE  Steady'
<1>1. PICK to : /\ calls'[c].phase = to /\ to # "idle" /\ calls[c].phase \notin {"idle", "done"}
                /\ calls'[c].entry = calls[c].entry /\ calls'[c].followed = calls[c].followed
                /\ (\A d \in CallId \ {c} : calls'[d] = calls[d]) /\ UNCHANGED status
  BY DEF Counts, Records, Reads, Truncates, Fills, Moves
<1>2. In("done") \subseteq In("done")' /\ Began = Began'
  BY <1>1 DEF In, Began
<1>3. ASSUME NEW d \in CallId
      PROVE  calls'[d].followed \subseteq In("done")'
  BY <1>1, <1>2 DEF Steady
<1>4. /\ calls'[c].entry = Observed /\ calls'[c].phase \in {"truncate", "fill"}
            => calls'[c].data = OpenedYaml
      /\ \/ calls'[c].phase \in {"read", "done"}
         \/ calls'[c].phase \in {"truncate", "fill"} /\ calls'[c].entry # Observed
         => calls'[c].recorded
  <2>1. CallInv(c)
    BY DEF IInv
  <2>2. CASE Counts(c) \/ Records(c)
    BY <2>2 DEF Counts, Records, Moves
  <2>3. CASE Reads(c)
    BY <2>1, <2>3 DEF Reads, Moves, Steady, CallInv
  <2>4. CASE Truncates(c) \/ Fills(c)
    BY <2>4 DEF Truncates, Fills, Moves, Steady
  <2> QED BY <2>2, <2>3, <2>4
<1>5. ASSUME NEW d \in CallId \ {c}
      PROVE  /\ calls'[d].entry = Observed /\ calls'[d].phase \in {"truncate", "fill"}
                   => calls'[d].data = OpenedYaml
             /\ \/ calls'[d].phase \in {"read", "done"}
                \/ calls'[d].phase \in {"truncate", "fill"} /\ calls'[d].entry # Observed
                => calls'[d].recorded
  BY <1>1 DEF Steady
<1>6. status' # "unknown" => \E o \in Began' : calls'[o].entry = Observed
  BY <1>1, <1>2 DEF Steady, Began
<1>7. ASSUME status' = "unknown"
      PROVE  yaml' = NoYaml /\ \A d \in CallId : calls'[d].phase \notin {"truncate", "fill"}
  <2>1. status = "unknown" /\ yaml = NoYaml /\ NoYaml.state = "absent"
    BY <1>1, <1>7 DEF Steady, NoYaml
  <2>2. \A d \in CallId : calls[d].phase \notin {"truncate", "fill"}
    BY <2>1 DEF Steady
  <2>3. CASE Counts(c) \/ Records(c) \/ Reads(c)
    BY <1>1, <2>1, <2>2, <2>3 DEF Counts, Records, Reads, Moves
  <2>4. CASE Truncates(c) \/ Fills(c)
    BY <2>2, <2>4 DEF Truncates, Fills, Moves
  <2> QED BY <2>3, <2>4
<1> QED BY <1>3, <1>4, <1>5, <1>6, <1>7 DEF Steady

\* A call that reads issue.yaml while it is filled goes on to fill it.
LEMMA MoveKeepsYaml ==
    ASSUME IInv, StatusInv, NEW c \in CallId,
           Counts(c) \/ Records(c) \/ Reads(c) \/ Truncates(c) \/ Fills(c)
    PROVE  YamlInv'
<1>1. ASSUME NEW w \in CallId, FilledBy(w), UNCHANGED yaml, yaml.state = "filled",
             Counts(c) \/ Records(c) \/ Reads(c)
      PROVE  FilledBy(w)'
  <2>1. /\ calls'[c].entry = calls[c].entry /\ calls'[c].followed = calls[c].followed
        /\ \A d \in CallId \ {c} : calls'[d] = calls[d]
    BY <1>1 DEF Counts, Records, Reads, Moves
  <2>2. /\ calls'[c].phase = "done" => calls[c].entry = Observed
        /\ calls[c].phase \notin {"done", "dead"}
        /\ calls[c].phase = "event" /\ calls[c].entry = Observed => calls'[c].phase = "done"
    BY <1>1 DEF Counts, Records, Reads, Moves
  <2>3. ASSUME NEW d \in CallId, calls'[d].phase = "done", w \in calls'[d].followed
        PROVE  FALSE
    <3>1. CASE d = c
      BY <1>1, <2>1, <2>2, <2>3, <3>1 DEF FilledBy, Began, In, Counts, Records, Reads, Moves
    <3>2. CASE d # c
      BY <1>1, <2>1, <2>3, <3>2 DEF FilledBy, In
    <3> QED BY <3>1, <3>2
  <2>4. \/ calls'[w].phase \in {"done", "dead"}
        \/ calls'[w].phase = "event" /\ calls'[w].entry = Observed
    BY <1>1, <2>1, <2>2 DEF FilledBy
  <2>5. yaml'.status = calls'[w].entry.status
    BY <1>1, <2>1 DEF FilledBy
  <2>6. \A d \in In("done")' : w \notin calls'[d].followed
    BY <2>3 DEF In
  <2>7. \A d \in Began' : calls'[d].entry = Observed => w \notin calls'[d].followed
    <3>1. Began' = Began
      BY <1>1, <2>1 DEF Counts, Records, Reads, Moves, Began, In
    <3>2. \A d \in CallId : calls'[d].entry = calls[d].entry /\ calls'[d].followed = calls[d].followed
      BY <2>1
    <3>3. \A d \in Began : d \in CallId
      BY DEF Began
    <3> QED BY <1>1, <3>1, <3>2, <3>3 DEF FilledBy
  <2> QED BY <2>4, <2>5, <2>6, <2>7 DEF FilledBy
<1>2. CASE Counts(c) \/ Records(c) \/ Reads(c)
  BY <1>1, <1>2 DEF Counts, Records, Reads, StatusInv, YamlInv
<1>3. CASE Truncates(c)
  BY <1>3, FilledFacts DEF Truncates, YamlInv
<1>4. CASE Fills(c)
  <2>1. CASE yaml' = MixedYaml
    BY <2>1, FilledFacts DEF YamlInv
  <2>2. CASE yaml' = IF calls[c].entry = Observed THEN calls[c].data
                     ELSE Updated(calls[c].data, calls[c].entry, c)
    <3>1. calls[c] \in Call
      BY DEF IInv, Typed
    <3>2. yaml'.status = calls[c].entry.status
      BY <1>4, <2>2, <3>1, FilledFacts DEF StatusInv, Steady, Fills, Moves, Call
    <3>3. \A d \in CallId : c \notin calls'[d].followed
      <4>1. c \notin In("done")
        BY <1>4 DEF Fills, Moves, In
      <4>2. \A d \in CallId : calls'[d].followed = calls[d].followed
        BY <1>4 DEF Fills, Moves
      <4> QED BY <4>1, <4>2 DEF StatusInv, Steady
    <3>4. FilledBy(c)'
      BY <1>4, <3>2, <3>3 DEF Fills, Moves, FilledBy, In, Began
    <3> QED BY <3>4 DEF YamlInv
  <2> QED BY <1>4, <2>1, <2>2 DEF Fills
<1> QED BY <1>2, <1>3, <1>4

\* A call that begins follows the one that filled issue.yaml, and has yet to fill it.
LEMMA OpeningKeepsStatus ==
    ASSUME IInv, StatusInv, NEW c \in CallId, NEW e \in Entries, Opens(c, e)
    PROVE  StatusInv'
<1>1. /\ \A d \in CallId \ {c} : calls'[d] = calls[d]
      /\ calls[c].phase = "idle"
      /\ calls'[c].phase = (IF e = Observed THEN "truncate" ELSE "count")
      /\ calls'[c].followed = In("done") /\ calls'[c].entry = e /\ UNCHANGED yaml
      /\ status' = (IF status = "unknown" /\ e # Observed THEN status ELSE e.status)
      /\ e = Observed => status = "unknown"
  BY DEF Opens
<1>2. In("done") = In("done")' /\ Began' = Began \cup {c} /\ c \notin Began
  BY <1>1 DEF In, Began
<1>3. Steady'
  <2>1. ASSUME NEW d \in CallId
        PROVE  /\ calls'[d].followed \subseteq In("done")'
               /\ calls'[d].entry = Observed /\ calls'[d].phase \in {"truncate", "fill"}
                     => calls'[d].data = OpenedYaml
               /\ \/ calls'[d].phase \in {"read", "done"}
                  \/ calls'[d].phase \in {"truncate", "fill"} /\ calls'[d].entry # Observed
                  => calls'[d].recorded
    <3>1. CASE d = c
      BY <1>1, <1>2, <3>1 DEF Opens
    <3>2. CASE d # c
      BY <1>1, <1>2, <3>2 DEF StatusInv, Steady
    <3> QED BY <3>1, <3>2
  <2>2. status' = "unknown" => status = "unknown" /\ e # Observed
    BY <1>1, EntryTypes, UnknownIsNoStatus
  <2>3. status' = "unknown" => /\ yaml' = NoYaml
                               /\ \A d \in CallId : calls'[d].phase \notin {"truncate", "fill"}
    BY <1>1, <2>2 DEF StatusInv, Steady
  <2>4. status' # "unknown" => \E o \in Began' : calls'[o].entry = Observed
    <3>1. CASE e = Observed
      BY <1>1, <1>2, <3>1
    <3>2. CASE e # Observed
      <4>1. ASSUME status' # "unknown"
            PROVE  \E o \in Began : calls[o].entry = Observed
        BY <1>1, <3>2, <4>1 DEF StatusInv, Steady
      <4> QED BY <1>1, <1>2, <4>1 DEF Began
    <3> QED BY <3>1, <3>2
  <2> QED BY <2>1, <2>3, <2>4 DEF Steady
<1>4. ASSUME NEW w \in CallId, FilledBy(w), yaml.state = "filled" PROVE FilledBy(w)'
  <2>1. w # c /\ calls'[w] = calls[w]
    BY <1>1, <1>4 DEF FilledBy
  <2>2. \A d \in In("done") : d # c /\ d \in CallId /\ w \notin calls'[d].followed
    BY <1>1, <1>4 DEF FilledBy, In
  <2>3. e # Observed
    BY <1>1, <1>4 DEF StatusInv, Steady, NoYaml
  <2>4. \A d \in Began' : calls'[d].entry = Observed => w \notin calls'[d].followed
    BY <1>1, <1>2, <1>4, <2>3 DEF FilledBy, Began
  <2> QED BY <1>1, <1>2, <1>4, <2>1, <2>2, <2>4 DEF FilledBy
<1>5. YamlInv'
  BY <1>1, <1>4 DEF StatusInv, YamlInv
<1> QED BY <1>3, <1>5 DEF StatusInv

\* After a crash somebody is dead, or nobody was in progress.
LEMMA CrashKeepsStatus ==
    ASSUME IInv, StatusInv, Crash
    PROVE  StatusInv'
<1>1. (\A d \in CallId : Dies(d)) /\ UNCHANGED <<status, yaml>>
  BY CrashSteps DEF IInv, Crash
<1>2. In("done") = In("done")' /\ Began = Began'
  BY <1>1 DEF Dies, In, Began, InProgress
<1>3. Steady'
  <2>1. ASSUME NEW d \in CallId
        PROVE  /\ calls'[d].followed \subseteq In("done")'
               /\ calls'[d].entry = Observed /\ calls'[d].phase \in {"truncate", "fill"}
                     => calls'[d].data = OpenedYaml
               /\ \/ calls'[d].phase \in {"read", "done"}
                  \/ calls'[d].phase \in {"truncate", "fill"} /\ calls'[d].entry # Observed
                  => calls'[d].recorded
    <3>1. Dies(d)
      BY <1>1
    <3> QED BY <1>2, <3>1 DEF Dies, StatusInv, Steady
  <2>2. status' = "unknown" => /\ yaml' = NoYaml
                               /\ \A d \in CallId : calls'[d].phase \notin {"truncate", "fill"}
    BY <1>1 DEF Dies, StatusInv, Steady
  <2>3. status' # "unknown" => \E o \in Began' : calls'[o].entry = Observed
    BY <1>1, <1>2 DEF Dies, StatusInv, Steady, Began
  <2> QED BY <2>1, <2>2, <2>3 DEF Steady
<1>4. ASSUME NEW w \in CallId, FilledBy(w) PROVE FilledBy(w)'
  <2>1. \A d \in CallId : calls'[d].followed = calls[d].followed /\ calls'[d].entry = calls[d].entry
    BY <1>1 DEF Dies
  <2>2. calls'[w].phase \in {"done", "dead", "event"}
        /\ (calls'[w].phase = "event" => calls[w].entry = Observed)
    BY <1>1, <1>4 DEF FilledBy, Dies
  <2>3. In("done") \subseteq CallId /\ Began \subseteq CallId
    BY DEF In, Began
  <2>4. \A d \in Began' : calls'[d].entry = Observed => w \notin calls'[d].followed
    BY <1>2, <1>4, <2>1, <2>3 DEF FilledBy
  <2> QED BY <1>1, <1>2, <1>4, <2>1, <2>2, <2>3, <2>4 DEF FilledBy
<1>5. YamlInv'
  BY <1>1, <1>4 DEF StatusInv, YamlInv
<1> QED BY <1>3, <1>5 DEF StatusInv

\* One case for each action.
LEMMA StatusStep == IInv /\ StatusInv /\ [Next]_vars => StatusInv'
<1> SUFFICES ASSUME IInv, StatusInv, [Next]_vars PROVE StatusInv'
  OBVIOUS
<1>1. CASE UNCHANGED vars
  BY <1>1 DEF vars, StatusInv, Steady, YamlInv, FilledBy, In, Began
<1>2. CASE Crash
  BY <1>2, CrashKeepsStatus
<1>3. ASSUME NEW c \in CallId, LifeCycle(c) PROVE StatusInv'
  BY <1>3, BeginningSteps, OpeningKeepsStatus DEF IInv
<1>4. ASSUME NEW c \in CallId, MakeEntry(c) PROVE StatusInv'
  <2>1. Counts(c) \/ Records(c) \/ Reads(c) \/ Truncates(c) \/ Fills(c)
    BY <1>4, EntrySteps DEF IInv
  <2> QED BY <2>1, MoveKeepsSteady, MoveKeepsYaml DEF StatusInv
<1> QED BY <1>1, <1>2, <1>3, <1>4 DEF Next

\* Nobody has called at first.
LEMMA StatusInit == Init => StatusInv
<1> SUFFICES ASSUME Init PROVE StatusInv
  OBVIOUS
<1>1. \A c \in CallId : calls[c] = Idle
  BY DEF Init
<1>2. \A c \in CallId : calls[c].phase = "idle" /\ calls[c].followed = {}
  BY <1>1 DEF Idle
<1>3. Steady
  BY <1>2 DEF Init, Steady
<1>4. YamlInv
  BY DEF Init, NoYaml, YamlInv
<1> QED BY <1>3, <1>4 DEF StatusInv

\* So the status of issue.yaml is accounted for throughout.
LEMMA StatusInvariant == Spec => []StatusInv
BY StatusInit, StatusStep, Invariance, PTL DEF Spec

\* However many writers truncate and fill issue.yaml at once: when they are done
\* and it can be read, its status is that of a call that no completed call has
\* followed.  Who follows the last to fill it has read it while it was there, and
\* has still to fill it.
THEOREM StatusIsUpToDate == Spec => []YamlIsUpToDate
<1>1. StatusInv => YamlIsUpToDate
  <2> SUFFICES ASSUME StatusInv, InProgress = {}, yaml.state = "filled"
               PROVE  \E w \in In("done") \cup In("dead") :
                         /\ yaml.status = calls[w].entry.status
                         /\ \A d \in In("done") : w \notin calls[d].followed
    BY DEF YamlIsUpToDate
  <2>1. PICK w \in CallId : FilledBy(w)
    BY DEF StatusInv, YamlInv
  <2>2. w \in In("done") \cup In("dead")
    BY <2>1 DEF FilledBy, In, InProgress
  <2> QED BY <2>1, <2>2 DEF FilledBy
<1> QED BY <1>1, StatusInvariant, PTL

-----------------------------------------------------------------------------
(* Calls that neither overlap nor die *)

\* So far nobody died, and of two calls one began when the other was done.
Serial ==
    /\ In("dead") = {}
    /\ \A c, d \in Began : c = d \/ c \in calls[d].followed \/ d \in calls[c].followed

Points(value, pointer) ==
    IF LastToSet(pointer) = {} THEN value = NoCall ELSE value \in LastToSet(pointer)

\* issue.yaml with the description and the pointers that the calls so far left.
Exact(y) ==
    /\ y.state = "filled" /\ y.whole
    /\ Points(y.proposal, "proposal") /\ Points(y.change, "change")

\* The call under way: the opening has written the issue by the time of its event;
\* another finds an exact issue.yaml, or none if the issue is not open.
Working(c) ==
    /\ calls[c].entry = Observed =>
          /\ calls[c].phase \in {"truncate", "fill", "event"}
          /\ calls[c].phase = "event" => yaml = OpenedYaml
    /\ calls[c].entry # Observed /\ status # "unknown" =>
          /\ calls[c].phase \in {"count", "event", "read", "truncate"} => Exact(yaml)
          /\ calls[c].phase \in {"truncate", "fill"} => Exact(calls[c].data)
    /\ calls[c].phase = "fill" => yaml.state = "empty"

\* A call has its number from the time it counts; the opening is born with one.
Numbered(c) ==
    calls[c].phase \notin {"idle", "count"} => calls[c].seq = SerialNumber(c)

\* issue.yaml has the status of the call that is done after all the others.
AtRest ==
    /\ Exact(yaml)
    /\ \E w \in In("done") : /\ yaml.status = calls[w].entry.status
                             /\ In("done") \ {w} \subseteq calls[w].followed

SerialInv ==
    Serial =>
        /\ Size = Cardinality(RecordedCalls)
        /\ \A c \in CallId : Numbered(c)
        /\ \A c \in InProgress : Working(c)
        /\ InProgress = {} /\ status # "unknown" => AtRest

\* Of calls that do not overlap one is under way at a time, after all the others.
LEMMA OneAtATime ==
    ASSUME Steady, Serial, NEW c \in InProgress
    PROVE  /\ InProgress = {c} /\ c \in CallId /\ c \notin In("done")
           /\ calls[c].followed = In("done")
<1>1. /\ c \in CallId /\ c \in Began /\ c \notin In("done")
      /\ \A d \in CallId : d \in Began <=> d \in InProgress \cup In("done") \cup In("dead")
  BY DEF InProgress, Began, In
<1>2. ASSUME NEW d \in Began, d # c PROVE d \in calls[c].followed
  <2>1. c \notin calls[d].followed
    BY <1>1, <1>2 DEF Steady, Began
  <2> QED BY <1>1, <1>2, <2>1 DEF Serial
<1>3. calls[c].followed \subseteq In("done")
  BY <1>1 DEF Steady
<1>4. \A d \in InProgress : d \in CallId /\ d \notin In("done")
  BY DEF InProgress
<1>5. \A d \in In("done") : d \in CallId
  BY DEF In
<1> QED BY <1>1, <1>2, <1>3, <1>4, <1>5

\* A pointer that no further call has set stays right.
LEMMA ExactStays ==
    ASSUME In("done")' = In("done"), NEW y, Exact(y),
           \A d \in In("done") : calls'[d] = calls[d]
    PROVE  Exact(y)'
<1>1. Openings' = Openings /\ \A o \in Openings : calls'[o].followed = calls[o].followed
  BY DEF Openings
<1>2. Early' = Early
  BY <1>1 DEF Early
<1>3. ASSUME NEW pointer PROVE LastToSet(pointer)' = LastToSet(pointer)
  BY <1>2 DEF LastToSet
<1> QED BY <1>3 DEF Exact, Points

\* A call that is done after all the others has set its pointer last.
LEMMA ExactGrows ==
    ASSUME Steady, NEW c \in CallId, c \notin In("done"), calls[c].followed = In("done"),
           In("done")' = In("done") \cup {c}, calls[c].entry # Observed,
           calls'[c].entry = calls[c].entry, calls'[c].followed = calls[c].followed,
           \A d \in CallId \ {c} : calls'[d] = calls[d],
           NEW pointer
    PROVE  LastToSet(pointer)' = IF calls[c].entry.pointer = pointer THEN {c}
                                 ELSE LastToSet(pointer)
<1>1. /\ \A d \in CallId : calls'[d].entry = calls[d].entry /\ calls'[d].followed = calls[d].followed
      /\ \A d \in CallId : c \notin calls[d].followed
      /\ In("done") \subseteq CallId
  BY DEF Steady, In
<1>2. Openings' = Openings /\ Openings \subseteq CallId
  BY <1>1 DEF Openings
<1>3. Early' = Early /\ c \notin Early
  BY <1>1, <1>2 DEF Early
<1>4. CASE calls[c].entry.pointer = pointer
  BY <1>1, <1>3, <1>4 DEF LastToSet
<1>5. CASE calls[c].entry.pointer # pointer
  BY <1>1, <1>3, <1>5 DEF LastToSet
<1> QED BY <1>4, <1>5

\* What a call fills in when it is done keeps issue.yaml exact.
LEMMA FillingIsExact ==
    ASSUME Steady, NEW c \in CallId, c \notin In("done"), calls[c].followed = In("done"),
           In("done")' = In("done") \cup {c},
           calls'[c].entry = calls[c].entry, calls'[c].followed = calls[c].followed,
           \A d \in CallId \ {c} : calls'[d] = calls[d],
           NEW y \in Yaml, Exact(y), NEW e \in Entries, e = calls[c].entry, e # Observed,
           NEW z, z = Updated(y, e, c)
    PROVE  Exact(z)'
<1>1. /\ z.state = "filled" /\ z.whole = y.whole
      /\ z.proposal = (IF e.pointer = "proposal" THEN c ELSE y.proposal)
      /\ z.change = (IF e.pointer = "change" THEN c ELSE y.change)
  BY FilledFacts
<1>2. /\ LastToSet("proposal")' = IF e.pointer = "proposal" THEN {c} ELSE LastToSet("proposal")
      /\ LastToSet("change")' = IF e.pointer = "change" THEN {c} ELSE LastToSet("change")
  BY ExactGrows
<1>3. Points(z.proposal, "proposal")'
  BY <1>1, <1>2 DEF Exact, Points
<1>4. Points(z.change, "change")'
  BY <1>1, <1>2 DEF Exact, Points
<1> QED BY <1>1, <1>3, <1>4 DEF Exact

\* The issue as it was opened has no pointers, whatever was entered before.
LEMMA OpenedIsExact ==
    ASSUME NEW o \in CallId, In("done")' \ {o} \subseteq calls'[o].followed,
           o \in In("done")', calls'[o].entry = Observed
    PROVE  Exact(OpenedYaml)'
<1>1. /\ OpenedYaml.whole /\ OpenedYaml.proposal = NoCall /\ OpenedYaml.change = NoCall
      /\ Observed.pointer = "none"
  BY DEF OpenedYaml, NoYaml, Observed, Entry
<1>2. In("done")' \ {o} \subseteq Early'
  BY DEF Early, Openings
<1>3. LastToSet("proposal")' = {} /\ LastToSet("change")' = {}
  BY <1>1, <1>2 DEF LastToSet
<1> QED BY <1>1, <1>3, FilledFacts DEF Exact, Points

\* Calls that do not overlap after a step did not before it.
LEMMA SerialBefore ==
    ASSUME Serial', Steady,
           \A d \in CallId : /\ calls[d].phase # "idle" =>
                                  calls'[d].followed = calls[d].followed /\ calls'[d].phase # "idle"
                             /\ calls[d].phase = "dead" => calls'[d].phase = "dead"
    PROVE  Serial
BY DEF Serial, Began, In

\* The state before a step of a call, and who is under way after it.
LEMMA SerialMove ==
    ASSUME IInv, StatusInv, SerialInv, Serial', NEW c \in CallId, NEW from, NEW to,
           Moves(c, from, to), from \notin {"idle", "done", "dead"}, to \notin {"idle", "dead"},
           UNCHANGED status
    PROVE  /\ Steady /\ Working(c) /\ c \notin In("done") /\ calls[c].followed = In("done")
           /\ Size = Cardinality(RecordedCalls)
           /\ (\A d \in CallId : Numbered(d)) /\ UNCHANGED status
           /\ to # "done" => InProgress' = {c} /\ In("done")' = In("done")
           /\ to = "done" => InProgress' = {} /\ In("done")' = In("done") \cup {c}
           /\ calls'[c].entry = calls[c].entry /\ calls'[c].followed = calls[c].followed
           /\ (\A d \in CallId \ {c} : calls'[d] = calls[d])
           /\ calls'[c].phase = to
<1>1. /\ calls'[c].entry = calls[c].entry /\ calls'[c].followed = calls[c].followed
      /\ calls[c].phase = from /\ calls'[c].phase = to
      /\ \A d \in CallId \ {c} : calls'[d] = calls[d]
  BY DEF Moves
<1>2. Serial
  BY <1>1, SerialBefore DEF StatusInv
<1>3. c \in InProgress
  BY <1>1 DEF InProgress, In
<1>4. InProgress = {c} /\ c \notin In("done") /\ calls[c].followed = In("done")
  BY <1>2, <1>3, OneAtATime DEF StatusInv
<1>5. \A d \in CallId \ {c} : calls[d].phase \in {"idle", "done", "dead"}
  BY <1>4 DEF InProgress, In
<1>6. to # "done" => InProgress' = {c} /\ In("done")' = In("done")
  BY <1>1, <1>5 DEF InProgress, In
<1>7. to = "done" => InProgress' = {} /\ In("done")' = In("done") \cup {c}
  BY <1>1, <1>5 DEF InProgress, In
<1> QED BY <1>1, <1>2, <1>3, <1>4, <1>6, <1>7 DEF SerialInv, StatusInv

\* No event is written.
LEMMA SameFiles ==
    ASSUME NEW c \in CallId, UNCHANGED events, calls'[c].recorded = calls[c].recorded,
           \A d \in CallId \ {c} : calls'[d] = calls[d]
    PROVE  Size' = Size /\ RecordedCalls' = RecordedCalls
BY DEF Size, RecordedCalls

\* A number is that of the calls it followed, which do not change.
LEMMA SameNumber ==
    ASSUME NEW c \in CallId, Numbered(c), calls'[c].seq = calls[c].seq,
           calls'[c].entry = calls[c].entry, calls'[c].followed = calls[c].followed,
           calls[c].phase \notin {"idle", "count"}
    PROVE  Numbered(c)'
BY DEF Numbered, SerialNumber

\* If the others are done when a call is yet to record its event, they are those
\* that are recorded.
LEMMA RecordedAreDone ==
    ASSUME IInv, Steady, NEW c \in InProgress, InProgress = {c}, In("dead") = {},
           ~calls[c].recorded
    PROVE  RecordedCalls = In("done")
<1>1. ASSUME NEW d \in CallId PROVE calls[d].recorded <=> calls[d].phase = "done"
  <2>1. CallInv(d) /\ (calls[d].phase = "done" => calls[d].recorded)
    BY DEF IInv, Steady
  <2>2. calls[d].phase = "idle" => ~calls[d].recorded
    BY <2>1 DEF CallInv
  <2> QED BY <2>1, <2>2 DEF InProgress, In
<1> QED BY <1>1 DEF RecordedCalls, In

\* The event of the only call under way is one file more: the opening has a suffix
\* of its own, and the number of another is beyond all that are there.
LEMMA OneFileMore ==
    ASSUME IInv, Steady, NEW c \in CallId, WriteEvent(c), Records(c), Numbered(c),
           InProgress = {c}, In("dead") = {}, calls[c].followed = In("done"),
           Size = Cardinality(RecordedCalls)
    PROVE  Size' = Cardinality(RecordedCalls)'
<1>1. PICK file : file = FileName(calls[c].seq, calls[c].entry)
  OBVIOUS
<1>2. /\ Size \in Nat /\ calls[c] \in Call /\ ~calls[c].recorded /\ calls[c].phase = "event"
  BY SizeIsNat DEF IInv, Typed, CallInv, Records, Moves
<1>3. file.seq = calls[c].seq /\ file.suffix = calls[c].entry.suffix
  BY <1>1, <1>2 DEF FileName
<1>4. DOMAIN events' = DOMAIN events \cup {file}
  BY <1>1 DEF WriteEvent
<1>5. file \notin DOMAIN events
  <2>1. CASE calls[c].entry = Observed
    <3> SUFFICES ASSUME file \in DOMAIN events PROVE FALSE
      OBVIOUS
    <3>1. PICK d \in CallId : /\ d = events[file] /\ calls[d].recorded
                              /\ file = FileName(calls[d].seq, calls[d].entry)
      BY DEF IInv, EventsInv
    <3>2. calls[d].entry.suffix = calls[c].entry.suffix /\ calls[d].entry \in Entries
      BY <1>3, <3>1 DEF FileName, IInv, Typed, Call
    <3>3. calls[d].entry = Observed
      BY <2>1, <3>2, ObservedSuffix
    <3>4. calls[d].phase # "idle"
      BY <3>1 DEF IInv, CallInv
    <3> QED BY <1>2, <2>1, <3>1, <3>3, <3>4 DEF IInv, OpenedOnce
  <2>2. CASE calls[c].entry # Observed
    <3>1. RecordedCalls = In("done")
      BY <1>2, RecordedAreDone DEF InProgress
    <3>2. calls[c].seq = Size + 1
      BY <1>2, <2>2, <3>1 DEF Numbered, SerialNumber
    <3> QED BY <1>2, <1>3, <3>2 DEF IInv, Typed, EventsInv, FileNames
  <2> QED BY <2>1, <2>2
<1>6. Size' = Size + 1
  BY <1>4, <1>5, FS_AddElement DEF IInv, Typed, Size
<1>7. RecordedCalls' = RecordedCalls \cup {c} /\ c \notin RecordedCalls
  BY <1>2 DEF RecordedCalls, Records, Moves
<1>8. IsFiniteSet(RecordedCalls)
  BY CallAssumption, FS_Subset DEF RecordedCalls
<1>9. Cardinality(RecordedCalls') = Size + 1
  BY <1>7, <1>8, FS_AddElement
<1> QED BY <1>6, <1>9

\* The step of the call under way.
LEMMA CountKeepsSerial ==
    ASSUME IInv, StatusInv, SerialInv, Serial', NEW c \in CallId, Counts(c) \/ Reads(c)
    PROVE  SerialInv'
<1>1. /\ UNCHANGED <<status, events, yaml>> /\ calls'[c].recorded = calls[c].recorded
      /\ calls[c].phase \in {"count", "read"}
      /\ Reads(c) => calls'[c].seq = calls[c].seq
  BY DEF Counts, Reads, Moves
<1>2. PICK to : Moves(c, calls[c].phase, to) /\ to \in {"event", "truncate", "done"}
  BY DEF Counts, Reads, Moves
<1>3. /\ Steady /\ Working(c) /\ c \notin In("done") /\ calls[c].followed = In("done")
      /\ Size = Cardinality(RecordedCalls)
      /\ \A d \in CallId : Numbered(d)
      /\ to # "done" => InProgress' = {c} /\ In("done")' = In("done")
      /\ to = "done" => InProgress' = {}
      /\ calls'[c].entry = calls[c].entry /\ calls'[c].followed = calls[c].followed
      /\ \A d \in CallId \ {c} : calls'[d] = calls[d]
      /\ calls'[c].phase = to
  BY <1>1, <1>2, SerialMove
<1>4. Size' = Size /\ RecordedCalls' = RecordedCalls
  BY <1>1, <1>3, SameFiles
<1>5. calls[c].entry # Observed
  BY <1>1, <1>3 DEF Working
<1>6. \A d \in CallId : Numbered(d)'
  <2>1. ASSUME NEW d \in CallId, d # c PROVE Numbered(d)'
    BY <1>3, <2>1 DEF Numbered, SerialNumber
  <2>2. CASE Reads(c)
    <3>1. calls[c].phase = "read"
      BY <2>2 DEF Reads, Moves
    <3> QED BY <1>1, <1>3, <2>1, <2>2, <3>1, SameNumber
  <2>3. CASE Counts(c)
    <3>1. calls[c].phase = "count" /\ calls'[c].seq = Size + 1 /\ ~calls[c].recorded
      BY <2>3 DEF Counts, Moves, IInv, CallInv
    <3>2. Serial
      BY <1>1, <1>2, SerialBefore DEF Moves, StatusInv
    <3>3. c \in InProgress
      BY <3>1 DEF InProgress, In
    <3>4. InProgress = {c} /\ In("dead") = {}
      BY <1>3, <3>2, <3>3, OneAtATime DEF Serial
    <3>5. RecordedCalls = In("done")
      BY <1>3, <3>1, <3>3, <3>4, RecordedAreDone
    <3>6. Numbered(c)'
      BY <1>3, <1>5, <3>1, <3>5 DEF Numbered, SerialNumber
    <3> QED BY <2>1, <3>6
  <2> QED BY <2>2, <2>3
<1>7. CASE status = "unknown"
  <2>1. to # "done" => Working(c)'
    <3>1. to # "truncate"
      BY <1>1, <1>7, <1>2 DEF Counts, Reads, Moves, StatusInv, Steady, NoYaml
    <3> QED BY <1>1, <1>2, <1>3, <1>5, <1>7, <3>1 DEF Working
  <2> QED BY <1>1, <1>3, <1>4, <1>6, <1>7, <2>1 DEF SerialInv
<1>8. CASE status # "unknown"
  <2>1. PICK y : y = yaml /\ Exact(y) /\ y.state = "filled"
    BY <1>1, <1>3, <1>5, <1>8 DEF Working, Exact
  <2>2. to # "done"
    BY <1>1, <1>2, <2>1 DEF Counts, Reads, Moves
  <2>3. Exact(y)'
    <3>1. \A d \in In("done") : calls'[d] = calls[d]
      BY <1>3 DEF In
    <3> QED BY <1>3, <2>1, <2>2, <3>1, ExactStays
  <2>4. Working(c)'
    <3>1. CASE Counts(c)
      BY <1>1, <1>3, <1>5, <2>1, <2>3, <3>1 DEF Counts, Moves, Working
    <3>2. CASE Reads(c)
      BY <1>1, <1>2, <1>3, <1>5, <2>1, <2>2, <2>3, <3>2 DEF Reads, Moves, Working
    <3> QED BY <3>1, <3>2
  <2> QED BY <1>3, <1>4, <1>6, <2>2, <2>4 DEF SerialInv
<1> QED BY <1>7, <1>8

\* The only call under way writes an event of its own,
LEMMA RecordKeepsSerial ==
    ASSUME IInv, StatusInv, SerialInv, Serial', NEW c \in CallId, WriteEvent(c), Records(c)
    PROVE  SerialInv'
<1>1. PICK to : /\ to = IF calls[c].entry = Observed THEN "done" ELSE "read"
                /\ Moves(c, "event", to) /\ calls[c].phase = "event" /\ calls'[c].phase = to
                /\ calls'[c].seq = calls[c].seq /\ UNCHANGED <<status, yaml>>
  BY DEF Records, Moves
<1>2. /\ Steady /\ Working(c) /\ c \notin In("done") /\ calls[c].followed = In("done")
      /\ Size = Cardinality(RecordedCalls)
      /\ \A d \in CallId : Numbered(d)
      /\ to # "done" => InProgress' = {c} /\ In("done")' = In("done")
      /\ to = "done" => InProgress' = {} /\ In("done")' = In("done") \cup {c}
      /\ calls'[c].entry = calls[c].entry /\ calls'[c].followed = calls[c].followed
      /\ \A d \in CallId \ {c} : calls'[d] = calls[d]
  BY <1>1, SerialMove
<1>3. Serial /\ c \in InProgress
  <2>1. Serial
    BY <1>1, SerialBefore DEF Moves, StatusInv
  <2> QED BY <1>1, <2>1 DEF InProgress, In
<1>4. Size' = Cardinality(RecordedCalls)'
  <2>1. InProgress = {c} /\ In("dead") = {}
    BY <1>2, <1>3, OneAtATime DEF Serial
  <2> QED BY <1>2, <2>1, OneFileMore
<1>5. \A d \in CallId : Numbered(d)'
  <2>1. Numbered(c)'
    BY <1>1, <1>2, SameNumber
  <2>2. ASSUME NEW d \in CallId, d # c PROVE Numbered(d)'
    BY <1>2, <2>2 DEF Numbered, SerialNumber
  <2> QED BY <2>1, <2>2
<1>6. CASE calls[c].entry = Observed
  <2>1. /\ yaml' = OpenedYaml /\ In("done")' = In("done") \cup {c} /\ InProgress' = {}
        /\ calls'[c].entry = Observed /\ calls'[c].followed = In("done")
    BY <1>1, <1>2, <1>6 DEF Working
  <2>2. Exact(OpenedYaml)'
    BY <2>1, OpenedIsExact
  <2>3. yaml'.status = calls'[c].entry.status
    BY <2>1, FilledFacts
  <2>4. AtRest'
    BY <2>1, <2>2, <2>3 DEF AtRest
  <2> QED BY <1>4, <1>5, <2>1, <2>4 DEF SerialInv
<1>7. CASE calls[c].entry # Observed
  <2>1. PICK y : y = yaml
    OBVIOUS
  <2>2. status # "unknown" => Exact(y)'
    <3>1. \A d \in In("done") : calls'[d] = calls[d]
      BY <1>2 DEF In
    <3>2. status # "unknown" => Exact(y)
      BY <1>1, <1>2, <1>7, <2>1 DEF Working
    <3> QED BY <1>1, <1>2, <1>7, <3>1, <3>2, ExactStays
  <2>3. Working(c)'
    BY <1>1, <1>2, <1>7, <2>1, <2>2 DEF Working
  <2> QED BY <1>1, <1>2, <1>4, <1>5, <1>7, <2>3 DEF SerialInv
<1> QED BY <1>6, <1>7

\* truncates issue.yaml,
LEMMA TruncateKeepsSerial ==
    ASSUME IInv, StatusInv, SerialInv, Serial', NEW c \in CallId, Truncates(c)
    PROVE  SerialInv'
<1>1. /\ UNCHANGED <<status, events>> /\ calls'[c].recorded = calls[c].recorded
      /\ calls'[c].seq = calls[c].seq /\ calls'[c].data = calls[c].data
      /\ yaml' = EmptyYaml /\ calls[c].phase = "truncate" /\ calls'[c].phase = "fill"
      /\ Moves(c, "truncate", "fill")
  BY DEF Truncates, Moves
<1>2. /\ Working(c)
      /\ Size = Cardinality(RecordedCalls)
      /\ \A d \in CallId : Numbered(d)
      /\ InProgress' = {c} /\ In("done")' = In("done")
      /\ calls'[c].entry = calls[c].entry /\ c \notin In("done")
      /\ calls'[c].followed = calls[c].followed
      /\ \A d \in CallId \ {c} : calls'[d] = calls[d]
  BY <1>1, SerialMove
<1>3. Size' = Size /\ RecordedCalls' = RecordedCalls
  BY <1>1, <1>2, SameFiles
<1>4. PICK y : y = calls[c].data
  OBVIOUS
<1>5. Exact(y) => Exact(y)'
  <2>1. \A d \in In("done") : calls'[d] = calls[d]
    BY <1>2 DEF In
  <2> QED BY <1>2, <2>1, ExactStays
<1>6. Working(c)'
  BY <1>1, <1>2, <1>3, <1>4, <1>5, FilledFacts DEF Working
<1>7. \A d \in CallId : Numbered(d)'
  <2>1. Numbered(c)'
    BY <1>1, <1>2, SameNumber
  <2>2. ASSUME NEW d \in CallId, d # c PROVE Numbered(d)'
    BY <1>2, <2>2 DEF Numbered, SerialNumber
  <2> QED BY <2>1, <2>2
<1> QED BY <1>2, <1>3, <1>6, <1>7 DEF SerialInv

\* and fills in what makes it exact for all that is done.
LEMMA FillKeepsSerial ==
    ASSUME IInv, StatusInv, SerialInv, Serial', NEW c \in CallId, Fills(c)
    PROVE  SerialInv'
<1>1. PICK to : /\ to = IF calls[c].entry = Observed THEN "event" ELSE "done"
                /\ Moves(c, "fill", to) /\ calls[c].phase = "fill" /\ calls'[c].phase = to
                /\ calls'[c].seq = calls[c].seq /\ calls'[c].recorded = calls[c].recorded
                /\ UNCHANGED <<status, events>>
  BY DEF Fills, Moves
<1>2. /\ Steady /\ Working(c) /\ c \notin In("done") /\ calls[c].followed = In("done")
      /\ Size = Cardinality(RecordedCalls)
      /\ \A d \in CallId : Numbered(d)
      /\ to # "done" => InProgress' = {c} /\ In("done")' = In("done")
      /\ to = "done" => InProgress' = {} /\ In("done")' = In("done") \cup {c}
      /\ calls'[c].entry = calls[c].entry /\ calls'[c].followed = calls[c].followed
      /\ \A d \in CallId \ {c} : calls'[d] = calls[d]
  BY <1>1, SerialMove
<1>3. Size' = Size /\ RecordedCalls' = RecordedCalls
  BY <1>1, <1>2, SameFiles
<1>4. \A d \in CallId : Numbered(d)'
  <2>1. Numbered(c)'
    BY <1>1, <1>2, SameNumber
  <2>2. ASSUME NEW d \in CallId, d # c PROVE Numbered(d)'
    BY <1>2, <2>2 DEF Numbered, SerialNumber
  <2> QED BY <2>1, <2>2
<1>5. yaml' = IF calls[c].entry = Observed THEN calls[c].data
              ELSE Updated(calls[c].data, calls[c].entry, c)
  BY <1>1, <1>2 DEF Fills, Working
<1>6. CASE calls[c].entry = Observed
  <2>1. yaml' = OpenedYaml
    BY <1>1, <1>2, <1>5, <1>6 DEF Steady
  <2>2. Working(c)'
    BY <1>1, <1>2, <1>6, <2>1 DEF Working
  <2> QED BY <1>1, <1>2, <1>3, <1>4, <1>6, <2>2 DEF SerialInv
<1>7. CASE calls[c].entry # Observed
  <2>0. status # "unknown"
    BY <1>1, <1>2 DEF Steady
  <2>1. PICK y \in Yaml, e \in Entries : /\ y = calls[c].data /\ e = calls[c].entry
                                         /\ Exact(y) /\ e # Observed
    BY <1>1, <1>2, <1>7, <2>0 DEF IInv, Typed, Call, Working
  <2>2. PICK z : z = Updated(y, e, c)
    OBVIOUS
  <2>3. Exact(z)'
    BY <1>1, <1>2, <1>7, <2>1, <2>2, FillingIsExact
  <2>4. yaml' = z /\ z.status = e.status
    BY <1>5, <1>7, <2>1, <2>2, FilledFacts
  <2>5. c \in In("done")' /\ InProgress' = {} /\ In("done")' \ {c} \subseteq calls'[c].followed
    BY <1>1, <1>2, <1>7
  <2>6. yaml'.status = calls'[c].entry.status
    BY <1>2, <2>1, <2>4
  <2>7. AtRest'
    BY <2>3, <2>4, <2>5, <2>6 DEF AtRest
  <2> QED BY <1>3, <1>4, <2>5, <2>7, <1>2 DEF SerialInv
<1> QED BY <1>6, <1>7

\* A call that begins when all the others are done finds an exact issue.yaml, or
\* the issue is not open.
LEMMA OpeningKeepsSerial ==
    ASSUME IInv, StatusInv, SerialInv, Serial', NEW c \in CallId, NEW e \in Entries, Opens(c, e)
    PROVE  SerialInv'
<1>1. /\ \A d \in CallId \ {c} : calls'[d] = calls[d]
      /\ calls[c].phase = "idle" /\ calls'[c].phase = (IF e = Observed THEN "truncate" ELSE "count")
      /\ calls'[c].followed = In("done") /\ calls'[c].entry = e /\ ~calls'[c].recorded
      /\ calls'[c].seq = (IF e = Observed THEN 1 ELSE 0)
      /\ UNCHANGED <<events, yaml>>
      /\ status' = (IF status = "unknown" /\ e # Observed THEN status ELSE e.status)
  BY DEF Opens
<1>2. Serial
  BY <1>1, SerialBefore DEF StatusInv
<1>3. ASSUME NEW d \in Began PROVE d \in In("done")
  <2>1. d # c /\ d \in CallId /\ d \in Began' /\ c \in Began'
    BY <1>1 DEF Began, In
  <2>2. c \notin calls'[d].followed
    <3>1. calls'[d].followed = calls[d].followed /\ c \notin In("done")
      BY <1>1, <2>1 DEF In
    <3> QED BY <2>1, <3>1 DEF StatusInv, Steady
  <2>3. d \in calls'[c].followed
    BY <2>1, <2>2 DEF Serial
  <2> QED BY <1>1, <2>3
<1>4. InProgress = {} /\ InProgress' = {c} /\ In("done")' = In("done")
  BY <1>1, <1>3 DEF Began, InProgress, In
<1>5. RecordedCalls' = RecordedCalls /\ Size' = Size
  <2>1. ~calls[c].recorded
    BY <1>1 DEF IInv, CallInv
  <2> QED BY <1>1, <2>1 DEF RecordedCalls, Size
<1>6. Working(c)'
  <2>1. CASE e = Observed
    BY <1>1, <2>1 DEF Working
  <2>2. CASE e # Observed
    <3>1. status' # "unknown" => status # "unknown"
      BY <1>1, <2>2
    <3>2. PICK y : y = yaml
      OBVIOUS
    <3>3. status # "unknown" => Exact(y)
      BY <1>2, <1>4, <3>2 DEF SerialInv, AtRest
    <3>4. status # "unknown" => Exact(y)'
      <4>1. \A d \in In("done") : calls'[d] = calls[d]
        BY <1>1 DEF In
      <4> QED BY <1>4, <3>3, <4>1, ExactStays
    <3> QED BY <1>1, <2>2, <3>1, <3>2, <3>4 DEF Working
  <2> QED BY <2>1, <2>2
<1>7. \A d \in CallId : Numbered(d)'
  <2>1. Numbered(c)'
    BY <1>1 DEF Numbered, SerialNumber
  <2>2. ASSUME NEW d \in CallId, d # c PROVE Numbered(d)'
    BY <1>1, <1>2, <2>2 DEF SerialInv, Numbered, SerialNumber
  <2> QED BY <2>1, <2>2
<1>8. Size' = Cardinality(RecordedCalls')
  BY <1>2, <1>5 DEF SerialInv
<1> QED BY <1>4, <1>6, <1>7, <1>8 DEF SerialInv

\* One case for each action.
LEMMA SerialStep == IInv /\ StatusInv /\ SerialInv /\ [Next]_vars => SerialInv'
<1> SUFFICES ASSUME IInv, StatusInv, SerialInv, [Next]_vars, Serial' PROVE SerialInv'
  BY DEF SerialInv
<1>1. CASE UNCHANGED vars
  <2>1. calls' = calls /\ events' = events /\ yaml' = yaml /\ status' = status
    BY <1>1 DEF vars
  <2>2. /\ In("done")' = In("done") /\ InProgress' = InProgress
        /\ RecordedCalls' = RecordedCalls /\ Size' = Size
    BY <2>1 DEF In, InProgress, RecordedCalls, Size
  <2>3. Serial
    <3>1. In("dead")' = In("dead") /\ Began' = Began
      BY <2>1 DEF In, Began
    <3> QED BY <2>1, <3>1 DEF Serial
  <2>4. ASSUME NEW y, Exact(y) PROVE Exact(y)'
    <3>1. \A d \in In("done") : calls'[d] = calls[d]
      BY <2>1
    <3> QED BY <2>2, <2>4, <3>1, ExactStays
  <2>5. \A c \in CallId : Numbered(c)'
    BY <2>1, <2>3 DEF SerialInv, Numbered, SerialNumber
  <2>6. \A c \in InProgress : Working(c)'
    BY <2>1, <2>3, <2>4 DEF SerialInv, Working
  <2>7. InProgress = {} /\ status # "unknown" => AtRest'
    BY <2>1, <2>2, <2>3, <2>4 DEF SerialInv, AtRest
  <2> QED BY <2>1, <2>2, <2>3, <2>5, <2>6, <2>7 DEF SerialInv
<1>2. CASE Crash
  <2>1. \A d \in CallId : Dies(d)
    BY <1>2, CrashSteps DEF IInv
  <2>2. PICK d \in InProgress : calls'[d].phase = "dead" /\ d \in CallId
    BY <1>2, <2>1 DEF Crash, Dies, InProgress
  <2> QED BY <2>2 DEF Serial, In
<1>3. ASSUME NEW c \in CallId, LifeCycle(c) PROVE SerialInv'
  BY <1>3, BeginningSteps, OpeningKeepsSerial DEF IInv
<1>4. ASSUME NEW c \in CallId, MakeEntry(c) PROVE SerialInv'
  <2>1. Counts(c) \/ Records(c) \/ Reads(c) \/ Truncates(c) \/ Fills(c)
    BY <1>4, EntrySteps DEF IInv
  <2>2. CASE Records(c)
    <3>1. WriteEvent(c)
      BY <1>4, <2>2 DEF MakeEntry, CountEvents, ReadYaml, TruncateYaml, FillYaml, Records, Moves
    <3> QED BY <2>2, <3>1, RecordKeepsSerial
  <2> QED BY <2>1, <2>2, CountKeepsSerial, TruncateKeepsSerial, FillKeepsSerial
<1> QED BY <1>1, <1>2, <1>3, <1>4 DEF Next

\* There is no file and no call at first.
LEMMA SerialInit == Init => SerialInv
<1> SUFFICES ASSUME Init PROVE SerialInv
  OBVIOUS
<1>1. DOMAIN events = {} /\ \A c \in CallId : calls[c].phase = "idle" /\ ~calls[c].recorded
  BY DEF Init, Idle
<1>2. RecordedCalls = {} /\ InProgress = {}
  BY <1>1 DEF RecordedCalls, InProgress, In
<1>3. Size = 0 /\ Cardinality(RecordedCalls) = 0
  BY <1>1, <1>2, FS_EmptySet DEF Size
<1>4. \A c \in CallId : Numbered(c)
  BY <1>1 DEF Numbered
<1> QED BY <1>2, <1>3, <1>4 DEF SerialInv, Init

\* So the ledger of calls that do not overlap is exact throughout.
LEMMA SerialInvariant == Spec => []SerialInv
BY SerialInit, SerialStep, StatusInvariant, Invariance, PTL DEF Spec

\* Any number of calls that neither overlap nor die leave one event each, numbered
\* by the calls they followed, and no issue.yaml as long as the issue is not open.
\* Once it is, issue.yaml has its description, the status of the last call and the
\* pointers that were set last since the opening.
THEOREM SerialLedgersAreExact == Spec => []SerialLedgerIsExact
<1>1. IInv /\ StatusInv /\ SerialInv => SerialLedgerIsExact
  <2> SUFFICES ASSUME IInv, StatusInv, SerialInv,
                      InProgress = {}, In("dead") = {},
                      \A c, d \in In("done") :
                         c = d \/ c \in calls[d].followed \/ d \in calls[c].followed
               PROVE  /\ Cardinality(DOMAIN events) = Cardinality(In("done"))
                      /\ \A c \in In("done") : calls[c].seq = SerialNumber(c)
                      /\ Openings = {} => yaml = NoYaml
                      /\ Openings # {} =>
                            /\ yaml.state = "filled" /\ yaml.whole
                            /\ \E w \in In("done") : /\ yaml.status = calls[w].entry.status
                                                     /\ In("done") \ {w} \subseteq calls[w].followed
                            /\ Points(yaml.proposal, "proposal")
                            /\ Points(yaml.change, "change")
    BY DEF SerialLedgerIsExact, Points
  <2>1. Began = In("done")
    BY DEF Began, InProgress, In
  <2>2. Serial
    BY <2>1 DEF Serial
  <2>3. RecordedCalls = In("done")
    <3>1. \A c \in CallId : calls[c].recorded => calls[c].phase # "idle"
      BY DEF IInv, CallInv
    <3> QED BY <2>1, <3>1 DEF RecordedCalls, Began, In, StatusInv, Steady
  <2>4. Cardinality(DOMAIN events) = Cardinality(In("done"))
    BY <2>2, <2>3 DEF SerialInv, Size
  <2>5. \A c \in In("done") : calls[c].seq = SerialNumber(c)
    BY <2>2 DEF SerialInv, Numbered, In
  <2>6. Openings = {} => yaml = NoYaml
    BY <2>1 DEF Openings, StatusInv, Steady
  <2>7. Openings # {} => AtRest
    <3>1. Openings # {} => status # "unknown"
      BY DEF Openings, In, IInv, CallInv
    <3> QED BY <2>2, <3>1 DEF SerialInv
  <2> QED BY <2>4, <2>5, <2>6, <2>7 DEF AtRest, Exact
<1> QED BY <1>1, Invariance, StatusInvariant, SerialInvariant, PTL
=============================================================================
