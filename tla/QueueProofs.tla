---------------------------- MODULE QueueProofs ----------------------------
(***************************************************************************)
(* Proofs about the work queue, the local one (WorkQueue, the first part)  *)
(* and the one shared by several servers (FirestoreQueue, the second), for *)
(* any issues, agents, proposals, callers and bounds.                      *)
(*                                                                         *)
(* The argument about WorkQueue: as far as the lease is concerned every    *)
(* operation does one of four things to an issue (keep, drop, grant or let *)
(* lapse: the operators below), which the lemma Effects establishes action *)
(* by action.  Each theorem is then a case analysis over the four.         *)
(*                                                                         *)
(* The argument about FirestoreQueue: every operation, the second requests *)
(* included, makes of a sound issue a sound issue (Sound, below), however  *)
(* stale what it has read is; and it writes one issue.                     *)
(***************************************************************************)
EXTENDS FirestoreQueue, SequenceTheorems, TLAPS


-----------------------------------------------------------------------------
(* What a step can do to the lease of one issue *)

Keeps(id) ==
    /\ issues'[id].lease = issues[id].lease
    /\ issues'[id].generation = issues[id].generation
    /\ issues'[id].claimed_by = issues[id].claimed_by
    /\ issues'[id].status = "AVAILABLE" => issues[id].status = "AVAILABLE"
    /\ granted'[id] = granted[id]

Drops(id) ==
    /\ issues'[id].lease = NoLease
    /\ issues'[id].generation = LastGeneration(issues[id])
    /\ issues'[id].status = "AVAILABLE" => issues'[id].claimed_by = NoAgent
    /\ granted'[id] = granted[id]

Grants(id, a) ==
    /\ issues[id].lease.live => issues[id].lease.owner = a
    /\ issues'[id].lease = [owner |-> a,
                            generation |-> LastGeneration(issues[id]) + 1,
                            live |-> TRUE]
    /\ issues'[id].generation = LastGeneration(issues[id]) + 1
    /\ issues'[id].claimed_by = a
    /\ issues'[id].status = "LEASED"
    /\ granted'[id] = Append(granted[id], a)

Lapses(id) ==
    /\ issues[id].lease.live
    /\ issues'[id].lease = [owner |-> issues[id].lease.owner,
                            generation |-> issues[id].lease.generation,
                            live |-> FALSE]
    /\ issues'[id].generation = issues[id].generation
    /\ issues'[id].claimed_by = issues[id].claimed_by
    /\ issues'[id].status = issues[id].status
    /\ granted'[id] = granted[id]

-----------------------------------------------------------------------------
(* Lemmas about the operators of SOCIssue *)

\* A lease on record has an owner, so it differs from NoLease; a live lease is
\* on record.
LEMMA LeaseFacts ==
    ASSUME NEW i \in Issue
    PROVE  /\ HasLease(i) <=> i.lease.owner \in Agent
           /\ HasLease(i) <=> i.lease.owner # NoAgent
           /\ HasLease(i) => i.lease \in Lease
           /\ i.lease.live => HasLease(i)
           /\ ~HasLease(i) => i.lease = NoLease
           /\ i.lease.live \in BOOLEAN
           /\ LastGeneration(i) \in Nat
<1>1. i.lease \in Lease \cup {NoLease} /\ i.generation \in Nat
  BY DEF Issue
<1>2. NoLease.owner = NoAgent /\ NoLease.live = FALSE
  BY DEF NoLease
<1>3. ASSUME i.lease \in Lease
      PROVE  /\ i.lease.owner \in Agent
             /\ i.lease.generation \in Nat
             /\ i.lease.live \in BOOLEAN
  BY <1>3 DEF Lease
<1>4. CASE i.lease = NoLease
  BY <1>1, <1>2, <1>4, NullAssumption DEF HasLease, LastGeneration
<1>5. CASE i.lease # NoLease
  BY <1>1, <1>3, <1>5, NullAssumption DEF HasLease, LastGeneration
<1> QED
  BY <1>4, <1>5

\* A newly observed issue is well formed.
LEMMA NewIssueType == NewIssue \in Issue
BY DEF NewIssue, Issue, Status, Reclaimable, SelfResolvable, Attention, PostWork

\* Recording an attempt touches nothing but the count of failures.
LEMMA FailedType ==
    ASSUME NEW i \in Issue
    PROVE  /\ Failed(i) \in Issue
           /\ Failed(i).lease = i.lease
           /\ Failed(i).generation = i.generation
           /\ Failed(i).status = i.status
           /\ Failed(i).claimed_by = i.claimed_by
           /\ FreshBudget(i) \in Issue
           /\ FreshBudget(i).lease = i.lease
           /\ FreshBudget(i).generation = i.generation
           /\ FreshBudget(i).status = i.status
           /\ FreshBudget(i).claimed_by = i.claimed_by
BY DEF Failed, FreshBudget, Issue

\* A release clears the lease, keeps the count of leases, and returns an issue to
\* the pool unclaimed.
LEMMA ReleasedType ==
    ASSUME NEW i \in Issue, NEW s \in Status
    PROVE  /\ Released(i, s) \in Issue
           /\ Released(i, s).lease = NoLease
           /\ Released(i, s).generation = LastGeneration(i)
           /\ Released(i, s).status = s
           /\ s = "AVAILABLE" => Released(i, s).claimed_by = NoAgent
<1> DEFINE g == LastGeneration(i)
           c == IF s = "AVAILABLE" THEN NoAgent ELSE i.claimed_by
<1>1. g \in Nat
  BY LeaseFacts
<1>2. c \in Agent \cup {NoAgent}
  BY DEF Issue
<1>3. Released(i, s) = [i EXCEPT !.generation = g, !.lease = NoLease,
                                 !.status = s, !.claimed_by = c]
  BY DEF Released, Issue
<1>4. s = "AVAILABLE" => c = NoAgent
  OBVIOUS
<1> HIDE DEF g, c
<1>5. /\ Released(i, s) \in Issue
      /\ Released(i, s).lease = NoLease
      /\ Released(i, s).generation = g
      /\ Released(i, s).status = s
      /\ Released(i, s).claimed_by = c
  BY <1>1, <1>2, <1>3 DEF Issue
<1> QED
  BY <1>4, <1>5 DEF g

\* An acquired issue is well formed and its lease has the next generation.
LEMMA LeasedType ==
    ASSUME NEW i \in Issue, NEW a \in Agent
    PROVE  /\ Leased(i, a) \in Issue
           /\ Leased(i, a).lease = [owner |-> a,
                                    generation |-> LastGeneration(i) + 1,
                                    live |-> TRUE]
           /\ Leased(i, a).generation = LastGeneration(i) + 1
           /\ Leased(i, a).claimed_by = a
           /\ Leased(i, a).status = "LEASED"
<1> DEFINE g == LastGeneration(i) + 1
           l == [owner |-> a, generation |-> g, live |-> TRUE]
           j == IF IsReclaimable(i) THEN Failed(i) ELSE i
<1>1. l \in Lease
  BY LeaseFacts DEF Lease
<1>2. j \in Issue
  BY DEF Failed, Issue
<1>3. "LEASED" \in Status
  BY DEF Status, Reclaimable
<1>4. g \in Nat
  BY LeaseFacts
<1>5. Leased(i, a) = [j EXCEPT !.lease = l, !.generation = g,
                               !.status = "LEASED", !.claimed_by = a]
  BY DEF Leased
<1> HIDE DEF l, j, g
<1>6. /\ Leased(i, a) \in Issue
      /\ Leased(i, a).lease = l
      /\ Leased(i, a).generation = g
      /\ Leased(i, a).claimed_by = a
      /\ Leased(i, a).status = "LEASED"
  BY <1>1, <1>2, <1>3, <1>4, <1>5 DEF Issue
<1> QED
  BY <1>6 DEF g, l

\* Reopening drops the lease and keeps the count; a refresh changes nothing.
LEMMA ReobservedType ==
    ASSUME NEW i \in Issue
    PROVE  /\ Reobserved(i) \in Issue
           /\ i.status # "CLOSED" => Reobserved(i) = i
           /\ i.status = "CLOSED" =>
                 /\ Reobserved(i).lease = NoLease
                 /\ Reobserved(i).generation = LastGeneration(i)
                 /\ Reobserved(i).claimed_by = NoAgent
<1>1. "AVAILABLE" \in Status
  BY DEF Status, SelfResolvable
<1>2. CASE i.status # "CLOSED"
  BY <1>2 DEF Reobserved
<1>3. CASE i.status = "CLOSED"
  <2> DEFINE r == FreshBudget(Released(i, "AVAILABLE"))
  <2>1. /\ r \in Issue
        /\ r.lease = NoLease
        /\ r.generation = LastGeneration(i)
        /\ r.claimed_by = NoAgent
    BY <1>1, ReleasedType, FailedType
  <2>2. Reobserved(i) = [r EXCEPT !.proposal = NoProposal]
    BY <1>3 DEF Reobserved
  <2> HIDE DEF r
  <2> QED
    BY <1>3, <2>1, <2>2 DEF Issue
<1> QED
  BY <1>2, <1>3

\* The clock makes an issue no less well formed.
LEMMA LapsedType ==
    ASSUME NEW i \in Issue, i.lease.live
    PROVE  /\ Lapsed(i) \in Issue
           /\ Lapsed(i).lease = [owner |-> i.lease.owner,
                                 generation |-> i.lease.generation,
                                 live |-> FALSE]
           /\ Lapsed(i).generation = i.generation
           /\ Lapsed(i).claimed_by = i.claimed_by
           /\ Lapsed(i).status = i.status
<1>1. i.lease \in Lease
  BY LeaseFacts
<1> QED
  BY <1>1 DEF Lapsed, Lease, Issue

\* A renewed issue is well formed.
LEMMA RenewedType ==
    ASSUME NEW i \in Issue, i.lease.live
    PROVE  Renewed(i) = i
<1>1. i.lease \in Lease
  BY LeaseFacts
<1> QED
  BY <1>1 DEF Renewed, Lease, Issue

-----------------------------------------------------------------------------
(* Every step does one of the four things to every issue *)

Effect(id) ==
    \/ Keeps(id)
    \/ Drops(id)
    \/ \E a \in Agent : Grants(id, a)
    \/ Lapses(id)

\* A step grants or lapses at most one lease; a sweep may drop several.
StepEffect ==
    \/ \A o \in IssueId : Keeps(o) \/ Drops(o)
    \/ \E id \in IssueId :
          /\ Lapses(id) \/ \E a \in Agent : Grants(id, a)
          /\ \A o \in IssueId \ {id} : Keeps(o)

\* The effect of a step, read for one issue.
LEMMA StepEffectByIssue == StepEffect => \A o \in IssueId : Effect(o)
BY DEF StepEffect, Effect

\* The frame: a step that stores x at id and hands out no lease elsewhere has its
\* effect on id alone.
LEMMA Frame ==
    ASSUME TypeOK, NEW id \in IssueId, NEW x \in Issue, Store(id, x),
           published' = published \cup {id},
           granted' \in [IssueId -> Seq(Agent)],
           \A o \in IssueId \ {id} : granted'[o] = granted[o]
    PROVE  /\ TypeOK'
           /\ issues'[id] = x
           /\ \A o \in IssueId \ {id} : Keeps(o)
<1>1. issues' \in [IssueId -> Issue] /\ issues'[id] = x
  BY DEF TypeOK, Store
<1>2. \A o \in IssueId \ {id} : issues'[o] = issues[o]
  BY DEF TypeOK, Store
<1>3. TypeOK'
  BY <1>1, <1>2 DEF TypeOK
<1> QED
  BY <1>1, <1>2, <1>3 DEF Keeps

\* Operations that leave granted alone, on a published issue.
LEMMA QuietFrame ==
    ASSUME TypeOK, NEW id \in published, NEW x \in Issue, Store(id, x),
           UNCHANGED <<published, granted>>
    PROVE  /\ TypeOK'
           /\ issues'[id] = x
           /\ granted'[id] = granted[id]
           /\ \A o \in IssueId \ {id} : Keeps(o)
<1>1. id \in IssueId /\ published' = published \cup {id}
  BY DEF TypeOK
<1>2. granted' \in [IssueId -> Seq(Agent)] /\ granted' = granted
  BY DEF TypeOK
<1> QED
  BY <1>1, <1>2, Frame

\* A refresh or an unpublished issue keeps the lease, a reopening drops it.
LEMMA UpsertEffect ==
    ASSUME TypeOK, NEW id \in IssueId, UpsertObserved(id)
    PROVE  TypeOK' /\ StepEffect
<1> DEFINE x == IF id \in published THEN Reobserved(issues[id]) ELSE NewIssue
<1>1. issues[id] \in Issue /\ (id \notin published => issues[id] = NewIssue)
  BY DEF TypeOK
<1>2. x \in Issue
  BY <1>1, ReobservedType, NewIssueType
<1>3. /\ Store(id, x)
      /\ published' = published \cup {id}
      /\ granted' \in [IssueId -> Seq(Agent)]
      /\ granted' = granted
  BY DEF UpsertObserved, TypeOK
<1>4. CASE id \in published /\ issues[id].status = "CLOSED"
  <2>1. x.lease = NoLease /\ x.generation = LastGeneration(issues[id]) /\ x.claimed_by = NoAgent
    BY <1>1, <1>4, ReobservedType
  <2> HIDE DEF x
  <2>2. TypeOK' /\ issues'[id] = x /\ \A o \in IssueId \ {id} : Keeps(o)
    BY <1>2, <1>3, Frame
  <2>3. Drops(id)
    BY <2>1, <2>2, <1>3 DEF Drops
  <2> QED
    BY <2>2, <2>3 DEF StepEffect
<1>5. CASE ~(id \in published /\ issues[id].status = "CLOSED")
  <2>1. x = issues[id]
    BY <1>1, <1>5, ReobservedType
  <2> HIDE DEF x
  <2>2. TypeOK' /\ issues'[id] = x /\ \A o \in IssueId \ {id} : Keeps(o)
    BY <1>2, <1>3, Frame
  <2>3. Keeps(id)
    BY <2>1, <2>2, <1>3 DEF Keeps
  <2> QED
    BY <2>2, <2>3 DEF StepEffect
<1> QED
  BY <1>4, <1>5

\* acquire_lease hands out a lease, to an agent that may have it.
LEMMA AcquireEffect ==
    ASSUME TypeOK, NEW id \in IssueId, NEW a \in Agent, AcquireLease(id, a)
    PROVE  TypeOK' /\ StepEffect
<1> DEFINE x == Leased(issues[id], a)
<1>1. issues[id] \in Issue /\ granted[id] \in Seq(Agent) /\ id \in published
  BY DEF TypeOK, AcquireLease
<1>2. /\ x \in Issue
      /\ x.lease = [owner |-> a, generation |-> LastGeneration(issues[id]) + 1, live |-> TRUE]
      /\ x.generation = LastGeneration(issues[id]) + 1
      /\ x.claimed_by = a
      /\ x.status = "LEASED"
  BY <1>1, LeasedType
<1>3. /\ Store(id, x)
      /\ published' = published \cup {id}
      /\ granted' = [granted EXCEPT ![id] = Append(granted[id], a)]
  BY <1>1 DEF AcquireLease
<1>4. /\ granted' \in [IssueId -> Seq(Agent)]
      /\ granted'[id] = Append(granted[id], a)
      /\ \A o \in IssueId \ {id} : granted'[o] = granted[o]
  <2>1. Append(granted[id], a) \in Seq(Agent)
    BY <1>1
  <2> QED
    BY <1>3, <2>1 DEF TypeOK
<1>5. issues[id].lease.live => issues[id].lease.owner = a
  BY DEF AcquireLease, MayAcquire
<1> HIDE DEF x
<1>6. TypeOK' /\ issues'[id] = x /\ \A o \in IssueId \ {id} : Keeps(o)
  BY <1>2, <1>3, <1>4, Frame
<1>7. Grants(id, a)
  BY <1>2, <1>4, <1>5, <1>6 DEF Grants
<1> QED
  BY <1>6, <1>7 DEF StepEffect

\* A release, forced or not, drops the lease.
LEMMA ReleaseEffect ==
    ASSUME TypeOK, NEW id \in published, NEW s \in Status,
           Store(id, Released(issues[id], s)), UNCHANGED <<published, granted>>
    PROVE  TypeOK' /\ StepEffect
<1> DEFINE x == Released(issues[id], s)
<1>1. issues[id] \in Issue
  BY DEF TypeOK
<1>2. /\ x \in Issue
      /\ x.lease = NoLease
      /\ x.generation = LastGeneration(issues[id])
      /\ x.status = "AVAILABLE" => x.claimed_by = NoAgent
  BY <1>1, ReleasedType
<1>3. Store(id, x)
  OBVIOUS
<1> HIDE DEF x
<1>4. /\ TypeOK' /\ issues'[id] = x /\ granted'[id] = granted[id]
      /\ \A o \in IssueId \ {id} : Keeps(o)
  BY <1>2, <1>3, QuietFrame
<1>5. Drops(id)
  BY <1>2, <1>4 DEF Drops
<1> QED
  BY <1>4, <1>5 DEF StepEffect

\* Status writes, attempt records and heartbeats keep the lease.
LEMMA KeepEffect ==
    ASSUME TypeOK, NEW id \in published, NEW x \in Issue, Store(id, x),
           x.lease = issues[id].lease, x.generation = issues[id].generation,
           x.claimed_by = issues[id].claimed_by,
           x.status = "AVAILABLE" => issues[id].status = "AVAILABLE",
           UNCHANGED <<published, granted>>
    PROVE  TypeOK' /\ StepEffect
<1>1. /\ TypeOK' /\ issues'[id] = x /\ granted'[id] = granted[id]
      /\ \A o \in IssueId \ {id} : Keeps(o)
  BY QuietFrame
<1>2. Keeps(id)
  BY <1>1 DEF Keeps
<1> QED
  BY <1>1, <1>2 DEF StepEffect

\* The sweep drops the lease of each issue it reclaims and keeps the others.
LEMMA ReclaimEffect ==
    ASSUME TypeOK, ReclaimExpiredLeases
    PROVE  TypeOK' /\ StepEffect
<1>1. "AVAILABLE" \in Status
  BY DEF Status, SelfResolvable
<1>2. ASSUME NEW o \in IssueId
      PROVE  /\ issues'[o] \in Issue
             /\ o \notin published => issues'[o] = issues[o]
             /\ Keeps(o) \/ Drops(o)
  <2> DEFINE x == Reclaimed(issues[o])
  <2>1. issues[o] \in Issue
    BY DEF TypeOK
  <2>2. /\ x \in Issue
        /\ x.lease = NoLease
        /\ x.generation = LastGeneration(issues[o])
        /\ x.claimed_by = NoAgent
    BY <1>1, <2>1, ReleasedType, FailedType DEF Reclaimed
  <2>3. /\ issues'[o] = IF o \in published /\ IsReclaimable(issues[o])
                        THEN x ELSE issues[o]
        /\ granted'[o] = granted[o]
    BY DEF ReclaimExpiredLeases
  <2> HIDE DEF x
  <2>4. CASE o \in published /\ IsReclaimable(issues[o])
    BY <2>2, <2>3, <2>4 DEF Drops
  <2>5. CASE ~(o \in published /\ IsReclaimable(issues[o]))
    BY <2>1, <2>3, <2>5 DEF Keeps
  <2> QED
    BY <2>4, <2>5
<1>3. issues' \in [IssueId -> Issue]
  <2>1. DOMAIN issues' = IssueId /\ issues' = [o \in IssueId |-> issues'[o]]
    BY DEF ReclaimExpiredLeases
  <2> QED
    BY <1>2, <2>1
<1>4. published' = published /\ granted' = granted
  BY DEF ReclaimExpiredLeases
<1> QED
  BY <1>2, <1>3, <1>4 DEF TypeOK, StepEffect

\* The clock keeps the lease and makes it lapsed.
LEMMA LapseEffect ==
    ASSUME TypeOK, NEW id \in IssueId, Lapse(id)
    PROVE  TypeOK' /\ StepEffect
<1> DEFINE x == Lapsed(issues[id])
<1>1. issues[id] \in Issue /\ issues[id].lease.live
  BY DEF TypeOK, Lapse
<1>2. /\ x \in Issue
      /\ x.lease = [owner |-> issues[id].lease.owner,
                    generation |-> issues[id].lease.generation, live |-> FALSE]
      /\ x.generation = issues[id].generation
      /\ x.claimed_by = issues[id].claimed_by
      /\ x.status = issues[id].status
  BY <1>1, LapsedType
<1>3. id \in published
  BY <1>1 DEF TypeOK, NewIssue, NoLease
<1>4. Store(id, x) /\ UNCHANGED <<published, granted>>
  BY DEF Lapse
<1> HIDE DEF x
<1>5. /\ TypeOK' /\ issues'[id] = x /\ granted'[id] = granted[id]
      /\ \A o \in IssueId \ {id} : Keeps(o)
  BY <1>2, <1>3, <1>4, QuietFrame
<1>6. Lapses(id)
  BY <1>1, <1>2, <1>5 DEF Lapses
<1> QED
  BY <1>5, <1>6 DEF StepEffect

\* The classification of every step of the queue.
LEMMA Effects ==
    ASSUME TypeOK, [Next]_vars
    PROVE  TypeOK' /\ StepEffect
<1>1. WorkerRelease \subseteq Status /\ ForcedRelease \subseteq Status
  BY DEF WorkerRelease, ForcedRelease, Status, SelfResolvable, Attention, PostWork
<1>2. WrittenStatus \subseteq Status \ {"AVAILABLE"}
  BY DEF WrittenStatus, Status, Reclaimable, SelfResolvable, Attention, PostWork
<1>3. ASSUME NEW id \in IssueId, UpsertObserved(id)
      PROVE  TypeOK' /\ StepEffect
  BY <1>3, UpsertEffect
<1>4. ASSUME NEW id \in IssueId, NEW a \in Agent, AcquireLease(id, a)
      PROVE  TypeOK' /\ StepEffect
  BY <1>4, AcquireEffect
<1>5. ASSUME NEW id \in IssueId, NEW a \in Agent, RenewLease(id, a)
      PROVE  TypeOK' /\ StepEffect
  <2>1. issues[id] \in Issue /\ id \in published /\ Renewed(issues[id]) = issues[id]
    BY <1>5, RenewedType DEF RenewLease, MayRenew, TypeOK
  <2>2. Store(id, issues[id]) /\ UNCHANGED <<published, granted>>
    BY <1>5, <2>1 DEF RenewLease
  <2> QED
    BY <2>1, <2>2, KeepEffect
<1>6. ASSUME NEW id \in IssueId, NEW a \in Agent, NEW s \in WorkerRelease,
             ReleaseLease(id, a, s)
      PROVE  TypeOK' /\ StepEffect
  BY <1>1, <1>6, ReleaseEffect DEF ReleaseLease
<1>7. ASSUME NEW id \in IssueId, NEW s \in ForcedRelease, ForceRelease(id, s)
      PROVE  TypeOK' /\ StepEffect
  BY <1>1, <1>7, ReleaseEffect DEF ForceRelease
<1>8. ASSUME NEW id \in IssueId, NEW s \in WrittenStatus, UpdateStatus(id, s)
      PROVE  TypeOK' /\ StepEffect
  <2> DEFINE x == WithStatus(issues[id], s)
  <2>1. /\ id \in published /\ issues[id] \in Issue
        /\ Store(id, x) /\ UNCHANGED <<published, granted>>
    BY <1>8 DEF UpdateStatus, TypeOK
  <2>2. /\ x \in Issue
        /\ x.lease = issues[id].lease /\ x.generation = issues[id].generation
        /\ x.claimed_by = issues[id].claimed_by /\ x.status # "AVAILABLE"
    BY <1>2, <2>1 DEF WithStatus, Issue
  <2> HIDE DEF x
  <2> QED
    BY <2>1, <2>2, KeepEffect
<1>9. ASSUME NEW id \in IssueId, NEW p \in Proposal, LinkProposal(id, p)
      PROVE  TypeOK' /\ StepEffect
  <2> DEFINE x == WithProposal(issues[id], p)
  <2>1. /\ id \in published /\ issues[id] \in Issue
        /\ Store(id, x) /\ UNCHANGED <<published, granted>>
    BY <1>9 DEF LinkProposal, TypeOK
  <2>2. "VALIDATING" \in Status
    BY DEF Status, PostWork
  <2>3. /\ x \in Issue
        /\ x.lease = issues[id].lease /\ x.generation = issues[id].generation
        /\ x.claimed_by = issues[id].claimed_by /\ x.status # "AVAILABLE"
    BY <2>1, <2>2 DEF WithProposal, Issue
  <2> HIDE DEF x
  <2> QED
    BY <2>1, <2>3, KeepEffect
<1>10. ASSUME NEW id \in IssueId, NEW p \in Proposal, LinkChange(id, p)
       PROVE  TypeOK' /\ StepEffect
  <2> DEFINE x == WithChange(issues[id], p)
  <2>1. /\ id \in published /\ issues[id] \in Issue
        /\ Store(id, x) /\ UNCHANGED <<published, granted>>
    BY <1>10 DEF LinkChange, TypeOK
  <2>2. "APPLIED" \in Status
    BY DEF Status, PostWork
  <2>3. /\ x \in Issue
        /\ x.lease = issues[id].lease /\ x.generation = issues[id].generation
        /\ x.claimed_by = issues[id].claimed_by /\ x.status # "AVAILABLE"
    BY <2>1, <2>2 DEF WithChange, Issue
  <2> HIDE DEF x
  <2> QED
    BY <2>1, <2>3, KeepEffect
<1>11. ASSUME NEW id \in IssueId, RecordFailure(id) \/ RecordRequeue(id)
       PROVE  TypeOK' /\ StepEffect
  <2>1. id \in published /\ issues[id] \in Issue /\ UNCHANGED <<published, granted>>
    BY <1>11 DEF RecordFailure, RecordRequeue, TypeOK
  <2>2. PICK x \in {Failed(issues[id]), FreshBudget(issues[id])} : Store(id, x)
    BY <1>11 DEF RecordFailure, RecordRequeue
  <2>3. /\ x \in Issue
        /\ x.lease = issues[id].lease /\ x.generation = issues[id].generation
        /\ x.claimed_by = issues[id].claimed_by /\ x.status = issues[id].status
    BY <2>1, FailedType
  <2> QED
    BY <2>1, <2>2, <2>3, KeepEffect
<1>12. ASSUME UNCHANGED vars
       PROVE  TypeOK' /\ StepEffect
  BY <1>12 DEF vars, TypeOK, StepEffect, Keeps
<1> QED
  BY <1>3, <1>4, <1>5, <1>6, <1>7, <1>8, <1>9, <1>10, <1>11, <1>12,
     ReclaimEffect, LapseEffect DEF Next, Operation

-----------------------------------------------------------------------------
(* Type correctness *)

\* Every operation of the queue, from any stored state, leaves well-formed issues.
THEOREM TypeCorrect == Spec => []TypeOK
<1>1. Init => TypeOK
  <2> SUFFICES ASSUME Init PROVE TypeOK
    OBVIOUS
  <2>1. \A id \in IssueId : <<>> \in Seq(Agent)
    OBVIOUS
  <2> QED
    BY <2>1, NewIssueType DEF Init, TypeOK
<1>2. TypeOK /\ [Next]_vars => TypeOK'
  BY Effects
<1> QED
  BY <1>1, <1>2, PTL DEF Spec

-----------------------------------------------------------------------------
(* Safety: the invariant *)

\* FencingTokens is not inductive alone: that the last lease is the one on record
\* needs the type of the issue, and the pool and claim facts are preserved by
\* the release, which resets the claim exactly when it returns to the pool.
QueueInv ==
    /\ TypeOK
    /\ FencingTokens
    /\ PoolIsUnleased
    /\ ClaimMatchesLease

\* QueueInv, issue by issue.
Fenced(id) ==
    /\ LastGeneration(issues[id]) = Len(granted[id])
    /\ HasLease(issues[id]) => issues[id].lease.owner = granted[id][Len(granted[id])]

Pooled(id) ==
    issues[id].status = "AVAILABLE" =>
        ~HasLease(issues[id]) /\ issues[id].claimed_by = NoAgent

Claimed(id) ==
    HasLease(issues[id]) =>
        /\ issues[id].claimed_by = issues[id].lease.owner
        /\ issues[id].generation = issues[id].lease.generation

\* Each of the four effects preserves the three facts about the issue.
LEMMA EffectPreserves ==
    ASSUME TypeOK, TypeOK', NEW id \in IssueId,
           Fenced(id), Pooled(id), Claimed(id), Effect(id)
    PROVE  Fenced(id)' /\ Pooled(id)' /\ Claimed(id)'
<1>1. /\ issues[id] \in Issue /\ issues'[id] \in Issue
      /\ granted[id] \in Seq(Agent)
  BY DEF TypeOK
<1>2. CASE Keeps(id)
  BY <1>2 DEF Keeps, Fenced, Pooled, Claimed, HasLease, LastGeneration
<1>3. CASE Drops(id)
  BY <1>1, <1>3 DEF Drops, Fenced, Pooled, Claimed, HasLease, LastGeneration
<1>4. ASSUME NEW a \in Agent, Grants(id, a)
      PROVE  Fenced(id)' /\ Pooled(id)' /\ Claimed(id)'
  <2>1. /\ Len(granted'[id]) = Len(granted[id]) + 1
        /\ granted'[id][Len(granted'[id])] = a
    BY <1>1, <1>4 DEF Grants
  <2>2. /\ issues'[id].lease.owner = a
        /\ issues'[id].lease.generation = LastGeneration(issues[id]) + 1
        /\ issues'[id].lease # NoLease
    BY <1>4, NullAssumption DEF Grants, NoLease
  <2> QED
    BY <1>4, <2>1, <2>2 DEF Grants, Fenced, Pooled, Claimed, HasLease, LastGeneration
<1>5. CASE Lapses(id)
  <2>1. HasLease(issues[id]) /\ issues[id].lease \in Lease
    BY <1>1, <1>5, LeaseFacts DEF Lapses
  <2>2. /\ issues'[id].lease.owner = issues[id].lease.owner
        /\ issues'[id].lease.generation = issues[id].lease.generation
        /\ issues'[id].lease # NoLease
    BY <1>5, <2>1, NullAssumption DEF Lapses, NoLease, Lease
  <2> QED
    BY <1>5, <2>1, <2>2 DEF Lapses, Fenced, Pooled, Claimed, HasLease, LastGeneration
<1> QED
  BY <1>2, <1>3, <1>4, <1>5 DEF Effect

\* The invariant, read for one issue.
LEMMA QueueInvByIssue ==
    QueueInv <=> TypeOK /\ \A id \in IssueId : Fenced(id) /\ Pooled(id) /\ Claimed(id)
BY DEF QueueInv, FencingTokens, PoolIsUnleased, ClaimMatchesLease, Fenced, Pooled, Claimed

\* Every step preserves the invariant, issue by issue.
LEMMA QueueInvStep == QueueInv /\ [Next]_vars => QueueInv'
<1> SUFFICES ASSUME QueueInv, [Next]_vars PROVE QueueInv'
  OBVIOUS
<1>1. TypeOK /\ \A id \in IssueId : Fenced(id) /\ Pooled(id) /\ Claimed(id)
  BY QueueInvByIssue
<1>2. TypeOK' /\ \A id \in IssueId : Effect(id)
  BY <1>1, Effects, StepEffectByIssue
<1>3. \A id \in IssueId : Fenced(id)' /\ Pooled(id)' /\ Claimed(id)'
  BY <1>1, <1>2, EffectPreserves
<1> QED
  BY <1>2, <1>3 DEF QueueInv, FencingTokens, PoolIsUnleased, ClaimMatchesLease,
                    Fenced, Pooled, Claimed

\* The empty queue satisfies the invariant.
LEMMA QueueInvInit == Init => QueueInv
<1> SUFFICES ASSUME Init PROVE QueueInv
  OBVIOUS
<1>1. TypeOK
  <2>1. <<>> \in Seq(Agent)
    OBVIOUS
  <2> QED
    BY <2>1, NewIssueType DEF Init, TypeOK
<1>2. ~HasLease(NewIssue) /\ NewIssue.claimed_by = NoAgent /\ NewIssue.generation = 0
  BY DEF NewIssue, HasLease
<1>3. Len(<<>>) = 0
  OBVIOUS
<1> QED
  BY <1>1, <1>2, <1>3 DEF Init, QueueInv, FencingTokens, PoolIsUnleased,
                          ClaimMatchesLease, LastGeneration

\* The invariant holds in every reachable state.
LEMMA QueueInvariant == Spec => []QueueInv
BY QueueInvInit, QueueInvStep, PTL DEF Spec

\* Generations are fencing tokens: across every interleaving of acquire, renew,
\* release, reclaim and reopen, no two leases of an issue share a generation and
\* the lease on record is the last one handed out.
THEOREM GenerationsFence == Spec => []FencingTokens
<1>1. QueueInv => FencingTokens
  BY DEF QueueInv
<1> QED
  BY <1>1, QueueInvariant, PTL

\* An AVAILABLE issue has neither lease nor claim.
THEOREM PoolUnleased == Spec => []PoolIsUnleased
<1>1. QueueInv => PoolIsUnleased
  BY DEF QueueInv
<1> QED
  BY <1>1, QueueInvariant, PTL

\* routing.claimed_by and references["lease_generation"] agree with the lease.
THEOREM ClaimAgrees == Spec => []ClaimMatchesLease
<1>1. QueueInv => ClaimMatchesLease
  BY DEF QueueInv
<1> QED
  BY <1>1, QueueInvariant, PTL

-----------------------------------------------------------------------------
(* Safety: what a step never does *)

\* A lapsed lease is never revived under its generation: a grant takes the next
\* number, and nothing else makes a lease live.
THEOREM LapsedIsFinal == Spec => LapsedStaysLapsed
<1> DEFINE StaysLapsed(id) ==
       /\ HasLease(issues[id]) /\ ~issues[id].lease.live
       /\ LastGeneration(issues'[id]) = LastGeneration(issues[id])
       => ~issues'[id].lease.live
<1>1. ASSUME TypeOK, [Next]_vars, NEW id \in IssueId
      PROVE  StaysLapsed(id)
  <2>1. issues[id] \in Issue /\ Effect(id)
    BY <1>1, Effects, StepEffectByIssue DEF TypeOK
  <2>2. LastGeneration(issues[id]) \in Nat
    BY <2>1, LeaseFacts
  <2>3. CASE Keeps(id)
    BY <2>3 DEF Keeps
  <2>4. CASE Drops(id)
    BY <2>4 DEF Drops, NoLease
  <2>5. ASSUME NEW a \in Agent, Grants(id, a)
        PROVE  StaysLapsed(id)
    <3>1. HasLease(issues'[id])
      BY <2>5, NullAssumption DEF Grants, HasLease, NoLease
    <3>2. LastGeneration(issues'[id]) = LastGeneration(issues[id]) + 1
      BY <2>5, <3>1 DEF Grants, LastGeneration
    <3> QED
      BY <2>2, <3>2
  <2>6. CASE Lapses(id)
    BY <2>6 DEF Lapses
  <2> QED
    BY <2>1, <2>3, <2>4, <2>5, <2>6 DEF Effect
<1>2. TypeOK /\ [Next]_vars => [\A id \in IssueId : StaysLapsed(id)]_vars
  BY <1>1
<1> QED
  BY <1>2, TypeCorrect, PTL DEF Spec, LapsedStaysLapsed

\* A live lease is never lost to another agent's acquire, to a heartbeat or to the
\* sweep: only its owner's release, a forced release or a reopening end it.
THEOREM LiveLeaseKept == Spec => LiveLeaseIsSafe
<1> DEFINE Allowed(id) ==
       \/ issues[id].status = "CLOSED" /\ UpsertObserved(id)
       \/ \E s \in ForcedRelease : ForceRelease(id, s)
       \/ \E s \in WorkerRelease : ReleaseLease(id, issues[id].lease.owner, s)
     Safe(id) ==
       /\ issues[id].lease.live
       /\ issues'[id].lease.owner # issues[id].lease.owner
       => Allowed(id)
<1>1. ASSUME TypeOK, [Next]_vars, NEW id \in IssueId, issues[id].lease.live,
             issues'[id].lease.owner # issues[id].lease.owner
      PROVE  Allowed(id)
  <2>1. /\ issues[id] \in Issue /\ id \in published
        /\ HasLease(issues[id]) /\ issues[id].lease \in Lease
    BY <1>1, LeaseFacts DEF TypeOK, NewIssue, NoLease
  <2>2. \A o \in IssueId : \A x : Store(o, x) /\ o # id => issues'[id] = issues[id]
    BY <1>1 DEF Store, TypeOK
  <2>3. \A x : Store(id, x) => issues'[id] = x
    BY <1>1 DEF Store, TypeOK
  <2>4. ASSUME NEW o \in IssueId, UpsertObserved(o)
        PROVE  Allowed(id)
    BY <1>1, <2>1, <2>2, <2>3, <2>4, ReobservedType DEF UpsertObserved
  <2>5. ASSUME NEW o \in IssueId, NEW a \in Agent, AcquireLease(o, a)
        PROVE  FALSE
    <3>1. o = id
      BY <1>1, <2>2, <2>5 DEF AcquireLease
    <3>2. issues'[id] = Leased(issues[id], a)
      BY <2>3, <2>5, <3>1 DEF AcquireLease
    <3>3. issues[id].lease.owner = a
      BY <1>1, <2>5, <3>1 DEF AcquireLease, MayAcquire
    <3>4. Leased(issues[id], a).lease =
             [owner |-> a, generation |-> LastGeneration(issues[id]) + 1, live |-> TRUE]
      BY <2>1, LeasedType
    <3>5. issues'[id].lease.owner = a
      BY <3>2, <3>4
    <3> QED
      BY <1>1, <3>3, <3>5
  <2>6. ASSUME NEW o \in IssueId, NEW a \in Agent, RenewLease(o, a)
        PROVE  FALSE
    BY <1>1, <2>1, <2>2, <2>3, <2>6, RenewedType DEF RenewLease
  <2>7. ASSUME NEW o \in IssueId, NEW a \in Agent, NEW s \in WorkerRelease,
               ReleaseLease(o, a, s)
        PROVE  Allowed(id)
    BY <1>1, <2>1, <2>2, <2>7 DEF ReleaseLease, MayRelease
  <2>8. ASSUME NEW o \in IssueId, NEW s \in ForcedRelease, ForceRelease(o, s)
        PROVE  Allowed(id)
    BY <1>1, <2>2, <2>8 DEF ForceRelease
  <2>9. ASSUME NEW o \in IssueId, NEW s \in WrittenStatus, UpdateStatus(o, s)
        PROVE  FALSE
    <3>1. WithStatus(issues[id], s).lease = issues[id].lease
      BY <2>1 DEF WithStatus, Issue
    <3> QED
      BY <1>1, <2>2, <2>3, <2>9, <3>1 DEF UpdateStatus
  <2>10. ASSUME NEW o \in IssueId, NEW p \in Proposal, LinkProposal(o, p) \/ LinkChange(o, p)
         PROVE  FALSE
    <3>1. /\ WithProposal(issues[id], p).lease = issues[id].lease
          /\ WithChange(issues[id], p).lease = issues[id].lease
      BY <2>1 DEF WithProposal, WithChange, Issue
    <3> QED
      BY <1>1, <2>2, <2>3, <2>10, <3>1 DEF LinkProposal, LinkChange
  <2>11. ASSUME NEW o \in IssueId, RecordFailure(o) \/ RecordRequeue(o)
         PROVE  FALSE
    BY <1>1, <2>1, <2>2, <2>3, <2>11, FailedType DEF RecordFailure, RecordRequeue
  <2>12. ASSUME ReclaimExpiredLeases
         PROVE  FALSE
    BY <1>1, <2>12 DEF ReclaimExpiredLeases, IsReclaimable
  <2>13. ASSUME NEW o \in IssueId, Lapse(o)
         PROVE  FALSE
    <3>1. o = id
      BY <1>1, <2>2, <2>13 DEF Lapse
    <3>2. issues'[id] = Lapsed(issues[id])
      BY <2>3, <2>13, <3>1 DEF Lapse
    <3>3. Lapsed(issues[id]).lease = [owner |-> issues[id].lease.owner,
                                      generation |-> issues[id].lease.generation,
                                      live |-> FALSE]
      BY <1>1, <2>1, LapsedType
    <3>4. issues'[id].lease.owner = issues[id].lease.owner
      BY <3>2, <3>3
    <3> QED
      BY <1>1, <3>4
  <2>14. ~UNCHANGED vars
    BY <1>1 DEF vars
  <2> QED
    BY <1>1, <2>4, <2>5, <2>6, <2>7, <2>8, <2>9, <2>10, <2>11, <2>12, <2>13, <2>14
       DEF Next, Operation
<1>2. TypeOK /\ [Next]_vars => [\A id \in IssueId : Safe(id)]_vars
  BY <1>1
<1> QED
  BY <1>2, TypeCorrect, PTL DEF Spec, LiveLeaseIsSafe

-----------------------------------------------------------------------------
(* Refinement: the queue implements the fenced lease *)

\* The empty queue maps to a fence that has issued no lease.
LEMMA FenceInit == Init => Fence!Init
<1> SUFFICES ASSUME Init PROVE Fence!Init
  OBVIOUS
<1>1. \A id \in IssueId : /\ issues[id].lease.owner = NoAgent
                           /\ issues[id].lease.live = FALSE
                           /\ LastGeneration(issues[id]) = 0
  BY DEF Init, NewIssue, NoLease, LastGeneration, HasLease
<1> QED
  BY <1>1 DEF Init, Fence!Init

\* Every step of the queue maps to a step of the fence, or to a stutter.
LEMMA FenceStep ==
    ASSUME TypeOK, [Next]_vars
    PROVE  [Fence!Next]_(Fence!vars)
<1>1. /\ TypeOK' /\ StepEffect
      /\ \A o \in IssueId : Effect(o)
      /\ granted \in [IssueId -> Seq(Agent)] /\ granted' \in [IssueId -> Seq(Agent)]
  BY Effects, StepEffectByIssue DEF TypeOK
<1>2. CASE \A o \in IssueId : Keeps(o) \/ Drops(o)
  <2> DEFINE R == {o \in IssueId : issues'[o].lease = NoLease}
  <2>1. NoLease.owner = NoAgent /\ NoLease.live = FALSE
    BY DEF NoLease
  <2>2. \A o \in IssueId : LastGeneration(issues'[o]) = LastGeneration(issues[o])
    BY <1>2 DEF Keeps, Drops, LastGeneration, HasLease
  <2>3. \A o \in IssueId : granted'[o] = granted[o]
    BY <1>2 DEF Keeps, Drops
  <2>4. granted' = granted
    BY <1>1, <2>3
  <2>5. \A o \in IssueId \ R : issues'[o].lease = issues[o].lease
    BY <1>2 DEF Keeps, Drops
  <2>6. \A o \in R : issues'[o].lease.owner = NoAgent /\ issues'[o].lease.live = FALSE
    BY <2>1
  <2>7. R \in SUBSET IssueId
    OBVIOUS
  <2> HIDE DEF R
  <2>8. Fence!Revoke(R)
    BY <2>2, <2>4, <2>5, <2>6, <2>7 DEF Fence!Revoke
  <2> QED
    BY <2>7, <2>8 DEF Fence!Next, Fence!Revoke
<1>3. ASSUME NEW id \in IssueId, NEW a \in Agent, Grants(id, a),
             \A o \in IssueId \ {id} : Keeps(o)
      PROVE  Fence!Grant(id, a)
  <2>1. /\ issues[id].lease.live => issues[id].lease.owner = a
        /\ issues'[id].lease.owner = a
        /\ LastGeneration(issues'[id]) = LastGeneration(issues[id]) + 1
        /\ issues'[id].lease.live = TRUE
        /\ granted'[id] = Append(granted[id], a)
    BY <1>3, NullAssumption DEF Grants, LastGeneration, HasLease, NoLease
  <2>2. \A o \in IssueId \ {id} :
           /\ issues'[o].lease.owner = issues[o].lease.owner
           /\ LastGeneration(issues'[o]) = LastGeneration(issues[o])
           /\ issues'[o].lease.live = issues[o].lease.live
           /\ granted'[o] = granted[o]
    BY <1>3 DEF Keeps, LastGeneration, HasLease
  <2>3. granted' = [granted EXCEPT ![id] = Append(@, a)]
    BY <1>1, <2>1, <2>2
  <2> QED
    BY <2>1, <2>2, <2>3 DEF Fence!Grant
<1>4. ASSUME NEW id \in IssueId, Lapses(id), \A o \in IssueId \ {id} : Keeps(o)
      PROVE  Fence!Expire(id)
  <2>1. issues[id] \in Issue
    BY DEF TypeOK
  <2>2. HasLease(issues[id]) /\ issues[id].lease \in Lease
    BY <1>4, <2>1, LeaseFacts DEF Lapses
  <2>3. /\ issues[id].lease.live
        /\ issues'[id].lease.owner = issues[id].lease.owner
        /\ issues'[id].lease.generation = issues[id].lease.generation
        /\ issues'[id].lease.live = FALSE
        /\ issues'[id].lease # NoLease
        /\ granted'[id] = granted[id]
    BY <1>4, <2>2, NullAssumption DEF Lapses, NoLease, Lease
  <2>4. LastGeneration(issues'[id]) = LastGeneration(issues[id])
    BY <2>2, <2>3 DEF LastGeneration, HasLease
  <2>5. \A o \in IssueId \ {id} :
           /\ issues'[o].lease.owner = issues[o].lease.owner
           /\ LastGeneration(issues'[o]) = LastGeneration(issues[o])
           /\ issues'[o].lease.live = issues[o].lease.live
           /\ granted'[o] = granted[o]
    BY <1>4 DEF Keeps, LastGeneration, HasLease
  <2>6. granted' = granted
    BY <1>1, <2>3, <2>5
  <2> QED
    BY <2>3, <2>4, <2>5, <2>6 DEF Fence!Expire
<1> QED
  BY <1>1, <1>2, <1>3, <1>4 DEF StepEffect, Fence!Next

\* The local work queue implements the fenced lease: whatever its clients do, it
\* hands out consecutive tokens, never over another agent's live lease, and the
\* lease on record is the last one handed out.
THEOREM QueueImplementsFence == Spec => ImplementsFencedLease
<1>1. Init => Fence!Init
  BY FenceInit
<1>2. TypeOK /\ [Next]_vars => [Fence!Next]_(Fence!vars)
  BY FenceStep
<1> QED
  BY <1>1, <1>2, TypeCorrect, PTL DEF Spec, ImplementsFencedLease, Fence!Spec


-----------------------------------------------------------------------------
(* The invariant *)

GhostLapsed == [GhostLease EXCEPT !.live = FALSE]

CloudLease == Lease \cup {NoLease, GhostLease, GhostLapsed}

\* An issue, with a ghost for its lease perhaps.
CloudIssue == [status     : Status,
               lease      : CloudLease,
               generation : Nat,
               claimed_by : Agent \cup {NoAgent},
               failures   : Nat,
               proposal   : Proposal \cup {NoProposal},
               change     : Proposal \cup {NoProposal}]

\* Issue i, whose leases went to the agents holders in turn, is sound.
Sound(i, holders) ==
    /\ i \in CloudIssue
    /\ i.lease # NoLease /\ ~IsGhost(i.lease) =>
          /\ i.lease.owner = holders[Len(holders)]
          /\ i.claimed_by = i.lease.owner
    /\ i.status = "AVAILABLE" => i.claimed_by = NoAgent

CloudInv ==
    /\ published \in SUBSET IssueId
    /\ DOMAIN issues = IssueId /\ issues = [id \in IssueId |-> issues[id]]
    /\ granted \in [IssueId -> Seq(Agent)]
    /\ calls \in [Caller -> Call \cup {NoCall}]
    /\ candidates \subseteq published
    /\ \A id \in IssueId : Sound(issues[id], granted[id])

-----------------------------------------------------------------------------
(* Leases and ghosts *)

\* Leases, ghosts and NoLease alike.
AnyLease == [owner : Agent \cup {NoAgent}, generation : Nat, live : BOOLEAN]

\* A lease is known by its fields.
LEMMA SameLease ==
    ASSUME NEW l \in AnyLease, NEW m \in AnyLease,
           l.owner = m.owner, l.generation = m.generation, l.live = m.live
    PROVE  l = m
BY DEF AnyLease

\* The clock of a lease is set.
LEMMA LeaseAt ==
    ASSUME NEW l \in AnyLease, NEW v \in BOOLEAN
    PROVE  /\ [l EXCEPT !.live = v] \in AnyLease
           /\ [l EXCEPT !.live = v].owner = l.owner
           /\ [l EXCEPT !.live = v].generation = l.generation
           /\ [l EXCEPT !.live = v].live = v
BY DEF AnyLease

\* Nobody owns a ghost, whose generation is 1, or NoLease, whose generation is 0;
\* every other lease is an agent's.
LEMMA GhostFacts ==
    /\ NoLease \in AnyLease /\ GhostLease \in AnyLease /\ GhostLapsed \in AnyLease
    /\ NoLease.owner = NoAgent /\ NoLease.generation = 0 /\ NoLease.live = FALSE
    /\ \A l \in AnyLease :
          /\ l = NoLease <=> l.owner = NoAgent /\ l.generation = 0 /\ l.live = FALSE
          /\ IsGhost(l) <=> l.owner = NoAgent /\ l.generation = 1
          /\ l \in Lease <=> l.owner \in Agent /\ l.generation # 0
          /\ l \in CloudLease <=> l = NoLease \/ l \in Lease \/ IsGhost(l)
    /\ CloudLease \subseteq AnyLease
<1>1. /\ NoLease \in AnyLease /\ GhostLease \in AnyLease
      /\ NoLease.owner = NoAgent /\ NoLease.generation = 0 /\ NoLease.live = FALSE
      /\ GhostLease.owner = NoAgent /\ GhostLease.generation = 1 /\ GhostLease.live = TRUE
  BY DEF NoLease, GhostLease, AnyLease
<1>2. /\ GhostLapsed \in AnyLease
      /\ GhostLapsed.owner = NoAgent /\ GhostLapsed.generation = 1 /\ GhostLapsed.live = FALSE
  BY <1>1, LeaseAt DEF GhostLapsed
<1>3. \A l : IsGhost(l) <=> l = GhostLease \/ l = GhostLapsed
  BY DEF IsGhost, GhostLapsed
<1>4. Lease \subseteq AnyLease
  BY DEF Lease, AnyLease
<1>5. ASSUME NEW l \in AnyLease
      PROVE  /\ l = NoLease <=> l.owner = NoAgent /\ l.generation = 0 /\ l.live = FALSE
             /\ IsGhost(l) <=> l.owner = NoAgent /\ l.generation = 1
             /\ l \in Lease <=> l.owner \in Agent /\ l.generation # 0
             /\ l \in CloudLease <=> l = NoLease \/ l \in Lease \/ IsGhost(l)
  <2>1. l = NoLease <=> l.owner = NoAgent /\ l.generation = 0 /\ l.live = FALSE
    BY <1>1, SameLease
  <2>2. IsGhost(l) <=> l.owner = NoAgent /\ l.generation = 1
    <3>1. l.live \in BOOLEAN
      BY DEF AnyLease
    <3> QED
      BY <1>1, <1>2, <1>3, <3>1, SameLease
  <2>3. l \in Lease <=> l.owner \in Agent /\ l.generation # 0
    BY DEF AnyLease, Lease
  <2> QED
    BY <1>3, <2>1, <2>2, <2>3 DEF CloudLease
<1>6. CloudLease \subseteq AnyLease
  BY <1>1, <1>2, <1>4 DEF CloudLease
<1> QED
  BY <1>1, <1>2, <1>5, <1>6

\* What the queue may read of a lease, and what the clock makes of it.
LEMMA CloudLeaseFacts ==
    ASSUME NEW l \in CloudLease
    PROVE  /\ l.generation \in Nat
           /\ l.live \in BOOLEAN
           /\ l.owner \in Agent => l \in Lease
           /\ l # NoLease /\ ~IsGhost(l) => l \in Lease
           /\ \A v \in BOOLEAN :
                 /\ l # NoLease \/ ~v => [l EXCEPT !.live = v] \in CloudLease
                 /\ [l EXCEPT !.live = v].owner = l.owner
                 /\ l = NoLease /\ ~v => [l EXCEPT !.live = v] = NoLease
                 /\ IsGhost(l) => IsGhost([l EXCEPT !.live = v])
<1>1. l \in AnyLease
  BY GhostFacts
<1>2. ASSUME NEW v \in BOOLEAN
      PROVE  /\ l # NoLease \/ ~v => [l EXCEPT !.live = v] \in CloudLease
             /\ [l EXCEPT !.live = v].owner = l.owner
             /\ l = NoLease /\ ~v => [l EXCEPT !.live = v] = NoLease
             /\ IsGhost(l) => IsGhost([l EXCEPT !.live = v])
  <2>1. PICK m \in AnyLease : /\ m = [l EXCEPT !.live = v]
                              /\ m.owner = l.owner /\ m.generation = l.generation /\ m.live = v
    BY <1>1, LeaseAt
  <2>2. /\ l # NoLease \/ ~v => m \in CloudLease
        /\ l = NoLease /\ ~v => m = NoLease
        /\ IsGhost(l) => IsGhost(m)
    BY <1>1, <2>1, GhostFacts
  <2> QED
    BY <2>1, <2>2
<1>3. l.generation \in Nat /\ l.live \in BOOLEAN
  BY <1>1 DEF AnyLease
<1> QED
  BY <1>1, <1>2, <1>3, GhostFacts, NullAssumption

-----------------------------------------------------------------------------
(* Every operation makes a sound issue of a sound issue *)

\* Status writes, pointers and attempts.
LEMMA WritesAreSound ==
    ASSUME NEW i, NEW h, Sound(i, h)
    PROVE  /\ \A s \in WrittenStatus : Sound(WithStatus(i, s), h)
           /\ \A p \in Proposal : Sound(WithProposal(i, p), h) /\ Sound(WithChange(i, p), h)
           /\ Sound(Failed(i), h) /\ Sound(FreshBudget(i), h)
<1>1. i \in CloudIssue
  BY DEF Sound
<1>2. /\ WrittenStatus \subseteq Status \ {"AVAILABLE"}
      /\ "VALIDATING" \in Status /\ "APPLIED" \in Status
  BY DEF WrittenStatus, Status, Reclaimable, SelfResolvable, Attention, PostWork
<1>3. ASSUME NEW s \in Status \ {"AVAILABLE"}
      PROVE  Sound([i EXCEPT !.status = s], h)
  BY <1>1 DEF Sound, CloudIssue
<1>4. ASSUME NEW s \in Status \ {"AVAILABLE"}, NEW p \in Proposal
      PROVE  /\ Sound([i EXCEPT !.status = s, !.proposal = p], h)
             /\ Sound([i EXCEPT !.status = s, !.change = p], h)
  BY <1>1 DEF Sound, CloudIssue
<1>5. Sound(Failed(i), h) /\ Sound(FreshBudget(i), h)
  BY <1>1 DEF Sound, CloudIssue, Failed, FreshBudget
<1> QED
  BY <1>2, <1>3, <1>4, <1>5 DEF WithStatus, WithProposal, WithChange

\* A release, whatever lease it has read.
LEMMA ReleasesAreSound ==
    ASSUME NEW i, NEW h, Sound(i, h), NEW l \in CloudLease, NEW s \in Status
    PROVE  Sound(ReleasedFrom(i, l, s), h)
<1>1. i \in CloudIssue
  BY DEF Sound
<1>2. PICK g \in Nat : g = IF l # NoLease THEN l.generation ELSE i.generation
  BY <1>1, CloudLeaseFacts DEF CloudIssue
<1>3. PICK c \in Agent \cup {NoAgent} : c = IF s = "AVAILABLE" THEN NoAgent ELSE i.claimed_by
  BY <1>1 DEF CloudIssue
<1>4. ReleasedFrom(i, l, s) = [i EXCEPT !.generation = g, !.lease = NoLease, !.status = s,
                                        !.claimed_by = c]
  BY <1>1, <1>2, <1>3 DEF ReleasedFrom, CloudIssue
<1>5. /\ ReleasedFrom(i, l, s) \in CloudIssue
      /\ ReleasedFrom(i, l, s).lease = NoLease
      /\ ReleasedFrom(i, l, s).status = s
      /\ ReleasedFrom(i, l, s).claimed_by = c
  BY <1>1, <1>4 DEF CloudIssue, CloudLease
<1> QED
  BY <1>3, <1>5 DEF Sound

\* The sweep and a reopening.
LEMMA ReturnsAreSound ==
    ASSUME NEW i, NEW h, Sound(i, h)
    PROVE  Sound(Reclaimed(i), h) /\ Sound(Reobserved(i), h)
<1>1. i \in CloudIssue /\ "AVAILABLE" \in Status
  BY DEF Sound, Status, SelfResolvable
<1>2. Released(i, "AVAILABLE") = ReleasedFrom(i, i.lease, "AVAILABLE")
  BY <1>1 DEF Released, ReleasedFrom, LastGeneration, HasLease, CloudIssue
<1>3. Sound(Released(i, "AVAILABLE"), h)
  BY <1>1, <1>2, ReleasesAreSound DEF CloudIssue
<1>4. Sound(Failed(Released(i, "AVAILABLE")), h) /\ Sound(FreshBudget(Released(i, "AVAILABLE")), h)
  BY <1>3, WritesAreSound
<1>5. ASSUME NEW j, Sound(j, h)
      PROVE  Sound([j EXCEPT !.proposal = NoProposal], h)
  BY <1>5 DEF Sound, CloudIssue
<1> QED
  BY <1>4, <1>5 DEF Reclaimed, Reobserved

\* A lease is handed out.
LEMMA GrantsAreSound ==
    ASSUME NEW i, NEW h \in Seq(Agent), Sound(i, h), NEW a \in Agent
    PROVE  Sound(Leased(i, a), Append(h, a))
<1>1. PICK j : j = (IF IsReclaimable(i) THEN Failed(i) ELSE i) /\ Sound(j, h)
  BY WritesAreSound
<1>2. PICK g \in Nat : g = LastGeneration(i) + 1 /\ g # 0
  <2>1. i.lease.generation \in Nat /\ i.generation \in Nat
    BY CloudLeaseFacts DEF Sound, CloudIssue
  <2> QED
    BY <2>1 DEF LastGeneration
<1>3. PICK l : l = [owner |-> a, generation |-> g, live |-> TRUE]
  OBVIOUS
<1>4. l \in Lease /\ l.owner = a
  BY <1>2, <1>3 DEF Lease
<1>5. Leased(i, a) = [j EXCEPT !.lease = l, !.generation = g, !.status = "LEASED", !.claimed_by = a]
  BY <1>1, <1>2, <1>3 DEF Leased
<1>6. "LEASED" \in Status
  BY DEF Status, Reclaimable
<1>7. /\ Leased(i, a) \in CloudIssue
      /\ Leased(i, a).lease = l
      /\ Leased(i, a).status = "LEASED"
      /\ Leased(i, a).claimed_by = a
  BY <1>1, <1>2, <1>4, <1>5, <1>6 DEF Sound, CloudIssue, CloudLease
<1>8. Append(h, a)[Len(Append(h, a))] = a
  OBVIOUS
<1> QED
  BY <1>4, <1>7, <1>8 DEF Sound

\* Time and heartbeats.
LEMMA ClocksAreSound ==
    ASSUME NEW i, NEW h, Sound(i, h)
    PROVE  /\ Sound(Lapsed(i), h)
           /\ HasLease(i) => Sound(Renewed(i), h)
           /\ ~HasLease(i) => Sound([i EXCEPT !.lease = GhostLease], h)
<1>1. i \in CloudIssue /\ i.lease \in CloudLease
  BY DEF Sound, CloudIssue
<1>2. PICK lapsed : lapsed = [i.lease EXCEPT !.live = FALSE]
  OBVIOUS
<1>3. PICK renewed : renewed = [i.lease EXCEPT !.live = TRUE]
  OBVIOUS
<1>4. /\ lapsed \in CloudLease /\ lapsed.owner = i.lease.owner
      /\ IsGhost(i.lease) => IsGhost(lapsed)
      /\ i.lease # NoLease => renewed \in CloudLease
      /\ renewed.owner = i.lease.owner
      /\ IsGhost(i.lease) => IsGhost(renewed)
  BY <1>1, <1>2, <1>3, CloudLeaseFacts
<1>5. i.lease = NoLease => lapsed = NoLease
  BY <1>1, <1>2, CloudLeaseFacts
<1>6. /\ Lapsed(i) = [i EXCEPT !.lease = lapsed]
      /\ Renewed(i) = [i EXCEPT !.lease = renewed]
  BY <1>1, <1>2, <1>3 DEF Lapsed, Renewed, CloudIssue
<1>7. ASSUME NEW l \in CloudLease,
             l # NoLease /\ ~IsGhost(l) =>
                i.lease # NoLease /\ ~IsGhost(i.lease) /\ l.owner = i.lease.owner
      PROVE  Sound([i EXCEPT !.lease = l], h)
  <2>1. /\ [i EXCEPT !.lease = l] \in CloudIssue
        /\ [i EXCEPT !.lease = l].lease = l
        /\ [i EXCEPT !.lease = l].status = i.status
        /\ [i EXCEPT !.lease = l].claimed_by = i.claimed_by
    BY <1>1 DEF CloudIssue
  <2> QED
    BY <1>7, <2>1 DEF Sound
<1>8. Sound(Lapsed(i), h)
  BY <1>4, <1>5, <1>6, <1>7
<1>9. HasLease(i) => Sound(Renewed(i), h)
  BY <1>4, <1>6, <1>7 DEF HasLease
<1>10. Sound([i EXCEPT !.lease = GhostLease], h)
  <2>1. GhostLease \in CloudLease /\ IsGhost(GhostLease)
    BY DEF CloudLease, IsGhost
  <2> QED
    BY <1>7, <2>1
<1> QED
  BY <1>8, <1>9, <1>10

-----------------------------------------------------------------------------
(* Every step *)

\* A step that writes one issue, and hands out no lease elsewhere.
LEMMA WriteOne ==
    ASSUME CloudInv, NEW id \in IssueId, NEW x, Store(id, x),
           NEW h \in Seq(Agent), Sound(x, h), granted' = [granted EXCEPT ![id] = h],
           published' \in SUBSET IssueId, candidates' \subseteq published',
           calls' \in [Caller -> Call \cup {NoCall}]
    PROVE  CloudInv'
<1>1. /\ DOMAIN issues' = IssueId /\ issues' = [o \in IssueId |-> issues'[o]]
      /\ issues'[id] = x /\ \A o \in IssueId \ {id} : issues'[o] = issues[o]
  BY DEF CloudInv, Store
<1>2. /\ granted' \in [IssueId -> Seq(Agent)]
      /\ granted'[id] = h /\ \A o \in IssueId \ {id} : granted'[o] = granted[o]
  BY DEF CloudInv
<1>3. \A o \in IssueId : Sound(issues'[o], granted'[o])
  BY <1>1, <1>2 DEF CloudInv
<1> QED
  BY <1>1, <1>2, <1>3 DEF CloudInv

\* A step that writes one issue and hands out no lease.
LEMMA WriteQuietly ==
    ASSUME CloudInv, NEW id \in IssueId, NEW x, Store(id, x), Sound(x, granted[id]),
           UNCHANGED granted,
           published' \in SUBSET IssueId, candidates' \subseteq published',
           calls' \in [Caller -> Call \cup {NoCall}]
    PROVE  CloudInv'
<1>1. granted[id] \in Seq(Agent) /\ granted' = [granted EXCEPT ![id] = granted[id]]
  BY DEF CloudInv
<1> QED
  BY <1>1, WriteOne

\* A step that writes no issue.
LEMMA WriteNothing ==
    ASSUME CloudInv, UNCHANGED vars, candidates' \subseteq published,
           calls' \in [Caller -> Call \cup {NoCall}]
    PROVE  CloudInv'
BY DEF CloudInv, vars

\* The operations of one request or one transaction.
LEMMA AtomicStep ==
    ASSUME CloudInv, NEW id \in IssueId, AtomicOperation(id)
    PROVE  CloudInv'
<1>1. /\ Sound(issues[id], granted[id]) /\ granted[id] \in Seq(Agent)
      /\ published \in SUBSET IssueId /\ candidates \subseteq published
      /\ calls' = calls /\ candidates' = candidates
      /\ calls' \in [Caller -> Call \cup {NoCall}]
  BY DEF CloudInv, AtomicOperation
<1>2. CASE UpsertObserved(id)
  <2>1. NewIssue \in CloudIssue /\ NewIssue.lease = NoLease /\ NewIssue.claimed_by = NoAgent
    BY DEF NewIssue, CloudIssue, CloudLease, Status, Reclaimable, SelfResolvable, Attention
  <2>2. Sound(NewIssue, granted[id])
    BY <2>1 DEF Sound
  <2>3. PICK x : x = (IF id \in published THEN Reobserved(issues[id]) ELSE NewIssue)
    OBVIOUS
  <2>4. Sound(x, granted[id])
    BY <1>1, <2>2, <2>3, ReturnsAreSound
  <2>5. Store(id, x) /\ granted' = granted /\ published' = published \cup {id}
    BY <1>2, <2>3 DEF UpsertObserved
  <2> QED
    BY <1>1, <2>4, <2>5, WriteQuietly
<1>3. ASSUME NEW a \in Agent, AcquireLease(id, a)
      PROVE  CloudInv'
  <2>1. /\ Store(id, Leased(issues[id], a)) /\ published' = published
        /\ granted' = [granted EXCEPT ![id] = Append(granted[id], a)]
    BY <1>1, <1>3 DEF AcquireLease, CloudInv
  <2>2. Append(granted[id], a) \in Seq(Agent)
    BY <1>1
  <2>3. Sound(Leased(issues[id], a), Append(granted[id], a))
    BY <1>1, GrantsAreSound
  <2> QED
    BY <1>1, <2>1, <2>2, <2>3, WriteOne
<1>4. ASSUME NEW s \in WrittenStatus, UpdateStatus(id, s)
      PROVE  CloudInv'
  BY <1>1, <1>4, WritesAreSound, WriteQuietly DEF UpdateStatus
<1>5. ASSUME NEW p \in Proposal, LinkProposal(id, p) \/ LinkChange(id, p)
      PROVE  CloudInv'
  BY <1>1, <1>5, WritesAreSound, WriteQuietly DEF LinkProposal, LinkChange
<1>6. CASE RecordFailure(id) \/ RecordRequeue(id)
  BY <1>1, <1>6, WritesAreSound, WriteQuietly DEF RecordFailure, RecordRequeue
<1>7. CASE Lapse(id)
  BY <1>1, <1>7, ClocksAreSound, WriteQuietly DEF Lapse
<1> QED
  BY <1>2, <1>3, <1>4, <1>5, <1>6, <1>7 DEF AtomicOperation

\* A caller that is done, or has not begun.
LEMMA CallsType ==
    ASSUME calls \in [Caller -> Call \cup {NoCall}], NEW c \in Caller,
           NEW x \in Call \cup {NoCall}
    PROVE  /\ [calls EXCEPT ![c] = x] \in [Caller -> Call \cup {NoCall}]
           /\ [calls EXCEPT ![c] = NoCall] \in [Caller -> Call \cup {NoCall}]
OBVIOUS

\* What a call in progress has read.
LEMMA CloudCallFacts ==
    ASSUME NEW x \in Call \cup {NoCall}
    PROVE  /\ x.op \in {"renew", "release"} => x.issue \in IssueId
           /\ x.op = "release" => x.read \in CloudLease /\ x.status \in Status
BY DEF Call, NoCall, CloudLease, GhostLapsed

\* The invariant survives every step.
LEMMA CloudInvStep == CloudInv /\ [CloudNext]_cloudVars => CloudInv'
<1> SUFFICES ASSUME CloudInv, [CloudNext]_cloudVars PROVE CloudInv'
  OBVIOUS
<1>1. /\ published \in SUBSET IssueId /\ candidates \subseteq published
      /\ calls \in [Caller -> Call \cup {NoCall}]
      /\ \A id \in IssueId : Sound(issues[id], granted[id]) /\ issues[id].lease \in CloudLease
  BY DEF CloudInv, Sound, CloudIssue
<1>2. /\ WorkerRelease \subseteq Status /\ ForcedRelease \subseteq Status
  BY DEF WorkerRelease, ForcedRelease, Status, SelfResolvable, Attention, PostWork
<1>3. ASSUME NEW id \in IssueId, ReclaimCandidate(id)
      PROVE  CloudInv'
  <2>1. PICK x : x = (IF IsReclaimable(issues[id]) THEN Reclaimed(issues[id]) ELSE issues[id])
    OBVIOUS
  <2>2. Sound(x, granted[id])
    BY <1>1, <2>1, ReturnsAreSound
  <2>3. /\ Store(id, x) /\ UNCHANGED <<published, granted, calls>>
        /\ candidates' \subseteq candidates
    BY <1>3, <2>1 DEF ReclaimCandidate
  <2> QED
    BY <1>1, <2>2, <2>3, WriteQuietly
<1>4. ASSUME NEW id \in IssueId, NEW c \in Caller, NEW a \in Agent, StartRenew(c, id, a)
      PROVE  CloudInv'
  <2>1. issues[id].lease \in Lease
    BY <1>1, <1>4, CloudLeaseFacts DEF StartRenew, MayRenew
  <2>2. PICK x \in Call : x = [op |-> "renew", issue |-> id, read |-> issues[id].lease]
    BY <2>1 DEF Call
  <2>3. calls' = [calls EXCEPT ![c] = x] /\ UNCHANGED <<vars, candidates>>
    BY <1>4, <2>2 DEF StartRenew
  <2> QED
    BY <1>1, <2>3, CallsType, WriteNothing
<1>5. ASSUME NEW id \in IssueId, NEW c \in Caller, NEW s \in Status, StartRelease(c, id, s)
      PROVE  CloudInv'
  <2>1. PICK x \in Call : x = [op |-> "release", issue |-> id, read |-> issues[id].lease,
                               status |-> s]
    BY <1>1 DEF Call, CloudLease, GhostLapsed
  <2>2. calls' = [calls EXCEPT ![c] = x] /\ UNCHANGED <<vars, candidates>>
    BY <1>5, <2>1 DEF StartRelease
  <2> QED
    BY <1>1, <2>2, CallsType, WriteNothing
<1>6. ASSUME NEW c \in Caller, FinishRenew(c)
      PROVE  CloudInv'
  <2>1. PICK id \in IssueId : id = calls[c].issue
    BY <1>1, <1>6, CloudCallFacts DEF FinishRenew
  <2>2. PICK x : x = (IF HasLease(issues[id]) THEN Renewed(issues[id])
                      ELSE [issues[id] EXCEPT !.lease = GhostLease])
    OBVIOUS
  <2>3. Sound(x, granted[id])
    BY <1>1, <2>2, ClocksAreSound
  <2>4. /\ Store(id, x) /\ UNCHANGED <<published, granted, candidates>>
        /\ calls' = [calls EXCEPT ![c] = NoCall]
    BY <1>6, <2>1, <2>2 DEF FinishRenew
  <2> QED
    BY <1>1, <2>3, <2>4, CallsType, WriteQuietly
<1>7. ASSUME NEW c \in Caller, FinishRelease(c)
      PROVE  CloudInv'
  <2>1. PICK id \in IssueId, l \in CloudLease, s \in Status :
           id = calls[c].issue /\ l = calls[c].read /\ s = calls[c].status
    BY <1>1, <1>7, CloudCallFacts DEF FinishRelease
  <2>2. Sound(ReleasedFrom(issues[id], l, s), granted[id])
    BY <1>1, ReleasesAreSound
  <2>3. /\ Store(id, ReleasedFrom(issues[id], l, s))
        /\ UNCHANGED <<published, granted, candidates>>
        /\ calls' = [calls EXCEPT ![c] = NoCall]
    BY <1>7, <2>1 DEF FinishRelease
  <2> QED
    BY <1>1, <2>2, <2>3, CallsType, WriteQuietly
<1>8. ASSUME NEW c \in Caller, CallLost(c)
      PROVE  CloudInv'
  BY <1>1, <1>8, CallsType, WriteNothing DEF CallLost
<1>9. CASE StartSweep
  <2>1. candidates' \subseteq published /\ UNCHANGED <<vars, calls>>
    BY <1>9 DEF StartSweep
  <2> QED
    BY <1>1, <2>1, WriteNothing
<1>10. CASE UNCHANGED cloudVars
  BY <1>1, <1>10, WriteNothing DEF cloudVars
<1> QED
  BY <1>2, <1>3, <1>4, <1>5, <1>6, <1>7, <1>8, <1>9, <1>10, AtomicStep
     DEF CloudNext, StartWorkerRelease

\* The empty queue satisfies the invariant.
LEMMA CloudInvInit == CloudInit => CloudInv
<1> SUFFICES ASSUME CloudInit PROVE CloudInv
  OBVIOUS
<1>1. NewIssue \in CloudIssue /\ NewIssue.lease = NoLease /\ NewIssue.claimed_by = NoAgent
  BY DEF NewIssue, CloudIssue, CloudLease, Status, Reclaimable, SelfResolvable, Attention
<1>2. \A h : Sound(NewIssue, h)
  BY <1>1 DEF Sound
<1>3. <<>> \in Seq(Agent)
  OBVIOUS
<1> QED
  BY <1>2, <1>3 DEF CloudInit, Init, CloudInv

\* The invariant holds in every reachable state.
LEMMA CloudInvariant == CloudSpec => []CloudInv
BY CloudInvInit, CloudInvStep, PTL DEF CloudSpec

-----------------------------------------------------------------------------
(* The theorems *)

\* However the halves of renewals and releases interleave, no past owner gets a
\* lease back, the claim is the owner's, and an issue in the pool has none.
THEOREM ClaimsFollowLeases == CloudSpec => []LeasesAndClaimsAgree
<1>1. ASSUME NEW i \in CloudIssue
      PROVE  \/ i \in Issue
             \/ IsGhost(i.lease) /\ [i EXCEPT !.lease = NoLease] \in Issue
  <2>1. CASE i.lease \in Lease \cup {NoLease}
    BY <2>1 DEF CloudIssue, Issue
  <2>2. CASE i.lease \in {GhostLease, GhostLapsed}
    BY <2>2 DEF CloudIssue, Issue, IsGhost, GhostLapsed
  <2> QED
    BY <2>1, <2>2 DEF CloudIssue, CloudLease
<1>2. CloudInv => LeasesAndClaimsAgree
  <2> SUFFICES ASSUME CloudInv PROVE LeasesAndClaimsAgree
    OBVIOUS
  <2>1. CloudTypes
    BY <1>1 DEF CloudInv, Sound, CloudTypes
  <2> QED
    BY <2>1 DEF CloudInv, Sound, LeasesAndClaimsAgree
<1> QED
  BY <1>2, CloudInvariant, PTL

\* A candidate that is live again when its transaction comes keeps its lease.
THEOREM LiveCandidateIsSpared == CloudSpec => SweepSparesLiveLeases
<1> DEFINE Spared(id) ==
       /\ id \in candidates /\ candidates' = candidates \ {id}
       /\ issues[id].lease.live
       => issues'[id].lease = issues[id].lease
<1>1. ASSUME CloudInv, CloudNext, NEW id \in IssueId,
             id \in candidates, candidates' = candidates \ {id}, issues[id].lease.live
      PROVE  issues'[id].lease = issues[id].lease
  <2>1. candidates # {} /\ candidates' # candidates
    BY <1>1
  <2>2. ~StartSweep
    BY <2>1 DEF StartSweep
  <2>3. \A c \in Caller : ~FinishRenew(c) /\ ~FinishRelease(c) /\ ~CallLost(c)
    BY <2>1 DEF FinishRenew, FinishRelease, CallLost
  <2>4. \A c \in Caller, o \in IssueId :
           /\ \A a \in Agent : ~StartRenew(c, o, a)
           /\ \A s : ~StartRelease(c, o, s)
    BY <2>1 DEF StartRenew, StartRelease
  <2>5. \A o \in IssueId : ~AtomicOperation(o)
    BY <2>1 DEF AtomicOperation
  <2>6. PICK o \in IssueId : ReclaimCandidate(o)
    BY <1>1, <2>2, <2>3, <2>4, <2>5 DEF CloudNext, StartWorkerRelease
  <2>7. o = id
    BY <1>1, <2>6 DEF ReclaimCandidate
  <2> QED
    BY <1>1, <2>6, <2>7 DEF ReclaimCandidate, IsReclaimable, Store, CloudInv
<1>2. CloudInv /\ [CloudNext]_cloudVars => [\A id \in IssueId : Spared(id)]_cloudVars
  BY <1>1
<1> QED
  BY <1>2, CloudInvariant, PTL DEF CloudSpec, SweepSparesLiveLeases
-----------------------------------------------------------------------------
(* Refinement: the shared queue implements the late lease *)

\* A step that writes one issue and hands out no lease: what the late lease sees
\* of it is the owner and the clock of that issue's lease.
LEMMA LateWrite ==
    ASSUME CloudInv, NEW id \in IssueId, NEW x, Store(id, x), UNCHANGED granted
    PROVE  /\ issues'[id].lease.owner = x.lease.owner
           /\ issues'[id].lease.live = x.lease.live
           /\ \A o \in IssueId \ {id} :
                 /\ issues'[o].lease.owner = issues[o].lease.owner
                 /\ issues'[o].lease.live = issues[o].lease.live
BY DEF CloudInv, Store

\* Time and heartbeats change nothing of a lease but its clock.
LEMMA ClockOnly ==
    ASSUME NEW i \in CloudIssue
    PROVE  /\ Lapsed(i).lease.owner = i.lease.owner /\ Lapsed(i).lease.live = FALSE
           /\ Renewed(i).lease.owner = i.lease.owner /\ Renewed(i).lease.live = TRUE
<1>1. i.lease \in AnyLease
  BY GhostFacts DEF CloudIssue
<1>2. ASSUME NEW v \in BOOLEAN
      PROVE  /\ [i.lease EXCEPT !.live = v].owner = i.lease.owner
             /\ [i.lease EXCEPT !.live = v].live = v
  BY <1>1, LeaseAt
<1>3. /\ Lapsed(i).lease = [i.lease EXCEPT !.live = FALSE]
      /\ Renewed(i).lease = [i.lease EXCEPT !.live = TRUE]
  BY DEF Lapsed, Renewed, CloudIssue
<1> QED
  BY <1>2, <1>3

\* A write that keeps the lease on record is not seen.
LEMMA LateKeeps ==
    ASSUME CloudInv, NEW id \in IssueId, NEW x, Store(id, x),
           UNCHANGED <<granted, calls>>, x.lease = issues[id].lease
    PROVE  UNCHANGED Late!vars
<1>1. \A o \in IssueId : issues'[o].lease = issues[o].lease
  BY DEF CloudInv, Store
<1> QED
  BY <1>1 DEF Late!vars

\* A write that leaves no lease on record revokes it.
LEMMA LateDrops ==
    ASSUME CloudInv, NEW id \in IssueId, NEW x, Store(id, x), UNCHANGED granted,
           \A c \in Caller : calls'[c].op = "renew" <=> calls[c].op = "renew",
           \A c \in Caller : calls[c].op = "renew" => calls'[c].issue = calls[c].issue,
           x.lease = NoLease
    PROVE  Late!Revoke(id)
<1>1. x.lease.owner = NoAgent /\ x.lease.live = FALSE
  BY GhostFacts
<1>2. \A c \in Caller :
         (IF calls'[c].op = "renew" THEN {calls'[c].issue} ELSE {})
            = IF calls[c].op = "renew" THEN {calls[c].issue} ELSE {}
  OBVIOUS
<1>3. /\ issues'[id].lease.owner = NoAgent /\ issues'[id].lease.live = FALSE
      /\ \A o \in IssueId \ {id} :
            /\ issues'[o].lease.owner = issues[o].lease.owner
            /\ issues'[o].lease.live = issues[o].lease.live
  BY <1>1, LateWrite
<1> QED
  BY <1>2, <1>3 DEF Late!Revoke

\* The operations of one request or one transaction.
LEMMA LateAtomic ==
    ASSUME CloudInv, NEW id \in IssueId, AtomicOperation(id)
    PROVE  [Late!Next]_(Late!vars)
<1>1. /\ Sound(issues[id], granted[id])
      /\ issues[id] \in CloudIssue /\ issues[id].lease \in CloudLease
      /\ calls' = calls
  BY DEF CloudInv, Sound, CloudIssue, AtomicOperation
<1>2. CASE UpsertObserved(id)
  <2>1. PICK x : x = (IF id \in published THEN Reobserved(issues[id]) ELSE NewIssue)
    OBVIOUS
  <2>2. Store(id, x) /\ granted' = granted
    BY <1>2, <2>1 DEF UpsertObserved
  <2>3. \/ x.lease = issues[id].lease
        \/ x.lease = NoLease
    BY <1>1, <2>1 DEF Reobserved, FreshBudget, Released, NewIssue, CloudIssue
  <2> QED
    BY <1>1, <2>2, <2>3, LateKeeps, LateDrops DEF Late!Next
<1>3. ASSUME NEW a \in Agent, AcquireLease(id, a)
      PROVE  Late!Grant(id, a)
  <2>1. Leased(issues[id], a).lease =
           [owner |-> a, generation |-> LastGeneration(issues[id]) + 1, live |-> TRUE]
    BY <1>1 DEF Leased, Failed, CloudIssue
  <2>2. /\ issues[id].lease.live => issues[id].lease.owner = a
        /\ Store(id, Leased(issues[id], a))
        /\ granted' = [granted EXCEPT ![id] = Append(@, a)]
    BY <1>3 DEF AcquireLease, MayAcquire
  <2>3. /\ issues'[id] = Leased(issues[id], a)
        /\ \A o \in IssueId \ {id} : issues'[o] = issues[o]
    BY <2>2 DEF CloudInv, Store
  <2>4. /\ issues'[id].lease.owner = a /\ issues'[id].lease.live = TRUE
        /\ \A o \in IssueId \ {id} :
              /\ issues'[o].lease.owner = issues[o].lease.owner
              /\ issues'[o].lease.live = issues[o].lease.live
    BY <2>1, <2>3
  <2> QED
    BY <1>1, <2>2, <2>4 DEF Late!Grant
<1>4. ASSUME NEW s \in WrittenStatus, UpdateStatus(id, s)
      PROVE  UNCHANGED Late!vars
  <2>1. WithStatus(issues[id], s).lease = issues[id].lease
    BY <1>1 DEF WithStatus, CloudIssue
  <2> QED
    BY <1>1, <1>4, <2>1, LateKeeps DEF UpdateStatus
<1>5. ASSUME NEW p \in Proposal, LinkProposal(id, p) \/ LinkChange(id, p)
      PROVE  UNCHANGED Late!vars
  <2>1. /\ WithProposal(issues[id], p).lease = issues[id].lease
        /\ WithChange(issues[id], p).lease = issues[id].lease
    BY <1>1 DEF WithProposal, WithChange, CloudIssue
  <2> QED
    BY <1>1, <1>5, <2>1, LateKeeps DEF LinkProposal, LinkChange
<1>6. CASE RecordFailure(id) \/ RecordRequeue(id)
  <2>1. /\ Failed(issues[id]).lease = issues[id].lease
        /\ FreshBudget(issues[id]).lease = issues[id].lease
    BY <1>1 DEF Failed, FreshBudget, CloudIssue
  <2> QED
    BY <1>1, <1>6, <2>1, LateKeeps DEF RecordFailure, RecordRequeue
<1>7. CASE Lapse(id)
  <2>1. /\ Lapsed(issues[id]).lease.owner = issues[id].lease.owner
        /\ Lapsed(issues[id]).lease.live = FALSE
    BY <1>1, ClockOnly
  <2>2. Store(id, Lapsed(issues[id])) /\ UNCHANGED granted
    BY <1>7 DEF Lapse
  <2>3. /\ issues'[id].lease.live = FALSE
        /\ \A o \in IssueId \ {id} : issues'[o].lease.live = issues[o].lease.live
        /\ \A o \in IssueId : issues'[o].lease.owner = issues[o].lease.owner
    BY <2>1, <2>2, LateWrite
  <2>4. Late!Expire(id)
    BY <1>1, <2>2, <2>3 DEF Late!Expire
  <2> QED
    BY <2>4 DEF Late!Next
<1> QED
  BY <1>2, <1>3, <1>4, <1>5, <1>6, <1>7 DEF AtomicOperation, Late!Next

\* The empty shared queue maps to a late lease that nobody has asked for.
LEMMA LateInit == CloudInit => Late!Init
<1> SUFFICES ASSUME CloudInit PROVE Late!Init
  OBVIOUS
<1>1. \A id \in IssueId : issues[id].lease.owner = NoAgent /\ issues[id].lease.live = FALSE
  BY DEF CloudInit, Init, NewIssue, NoLease
<1>2. \A c \in Caller : calls[c].op # "renew"
  BY DEF CloudInit, NoCall
<1> QED
  BY <1>1, <1>2 DEF CloudInit, Init, Late!Init

\* Every step of the shared queue maps to a step of the late lease, or to a
\* stutter: the first request of a renewal asks, its second extends what is there.
LEMMA LateStep ==
    ASSUME CloudInv, [CloudNext]_cloudVars
    PROVE  [Late!Next]_(Late!vars)
<1>1. /\ calls \in [Caller -> Call \cup {NoCall}]
      /\ NoCall.op = "none"
      /\ \A id \in IssueId : issues[id] \in CloudIssue /\ issues[id].lease \in CloudLease
  BY DEF CloudInv, Sound, CloudIssue, NoCall
<1>2. ASSUME NEW id \in IssueId, ReclaimCandidate(id)
      PROVE  [Late!Next]_(Late!vars)
  <2>1. PICK x : x = (IF IsReclaimable(issues[id]) THEN Reclaimed(issues[id]) ELSE issues[id])
    OBVIOUS
  <2>2. Store(id, x) /\ UNCHANGED <<granted, calls>>
    BY <1>2, <2>1 DEF ReclaimCandidate
  <2>3. x.lease = issues[id].lease \/ x.lease = NoLease
    BY <1>1, <2>1 DEF Reclaimed, Failed, Released, CloudIssue
  <2> QED
    BY <2>2, <2>3, LateKeeps, LateDrops DEF Late!Next
<1>3. ASSUME NEW id \in IssueId, NEW c \in Caller, NEW a \in Agent, StartRenew(c, id, a)
      PROVE  Late!Ask(c, id)
  <2>1. /\ calls[c] = NoCall
        /\ issues[id].lease.live /\ issues[id].lease.owner = a
        /\ calls' = [calls EXCEPT ![c] = [op |-> "renew", issue |-> id,
                                          read |-> issues[id].lease]]
        /\ issues' = issues /\ granted' = granted
    BY <1>3 DEF StartRenew, MayRenew, vars
  <2>2. /\ calls'[c].op = "renew" /\ calls'[c].issue = id
        /\ \A d \in Caller \ {c} : calls'[d] = calls[d]
    BY <1>1, <2>1
  <2> QED
    BY <1>1, <2>1, <2>2 DEF Late!Ask
<1>4. ASSUME NEW id \in IssueId, NEW c \in Caller, NEW s, StartRelease(c, id, s)
      PROVE  UNCHANGED Late!vars
  <2>1. /\ calls[c] = NoCall
        /\ calls'[c].op = "release"
        /\ \A d \in Caller \ {c} : calls'[d] = calls[d]
        /\ issues' = issues /\ granted' = granted
    BY <1>1, <1>4 DEF StartRelease, vars
  <2> QED
    BY <1>1, <2>1 DEF Late!vars
<1>5. ASSUME NEW c \in Caller, FinishRenew(c)
      PROVE  Late!Extend(c)
  <2>1. PICK id \in IssueId : id = calls[c].issue
    BY <1>1, <1>5, CloudCallFacts DEF FinishRenew
  <2>2. PICK x : x = (IF HasLease(issues[id]) THEN Renewed(issues[id])
                      ELSE [issues[id] EXCEPT !.lease = GhostLease])
    OBVIOUS
  <2>3. /\ Renewed(issues[id]).lease.owner = issues[id].lease.owner
        /\ Renewed(issues[id]).lease.live = TRUE
    BY <1>1, ClockOnly
  <2>4. ~HasLease(issues[id]) => issues[id].lease.owner = NoAgent
    BY GhostFacts DEF HasLease
  <2>5. /\ [issues[id] EXCEPT !.lease = GhostLease].lease.owner = NoAgent
        /\ [issues[id] EXCEPT !.lease = GhostLease].lease.live = TRUE
    BY <1>1 DEF CloudIssue, GhostLease
  <2>6. x.lease.owner = issues[id].lease.owner /\ x.lease.live = TRUE
    BY <2>2, <2>3, <2>4, <2>5
  <2>7. /\ calls[c].op = "renew"
        /\ Store(id, x) /\ granted' = granted
        /\ calls' = [calls EXCEPT ![c] = NoCall]
    BY <1>5, <2>1, <2>2 DEF FinishRenew
  <2>8. /\ calls'[c].op = "none" /\ \A d \in Caller \ {c} : calls'[d] = calls[d]
    BY <1>1, <2>7
  <2>9. /\ issues'[id] = x /\ \A o \in IssueId \ {id} : issues'[o] = issues[o]
    BY <2>7 DEF CloudInv, Store
  <2>10. \A o \in IssueId :
            /\ issues'[o].lease.owner = issues[o].lease.owner
            /\ issues'[o].lease.live = (o \in {id} \/ issues[o].lease.live)
    BY <1>1, <2>6, <2>9, CloudLeaseFacts
  <2>11. \A d \in Caller :
            (IF calls'[d].op = "renew" THEN {calls'[d].issue} ELSE {})
               = IF d = c THEN {} ELSE IF calls[d].op = "renew" THEN {calls[d].issue} ELSE {}
    BY <2>8
  <2> DEFINE asked == [d \in Caller |-> IF calls[d].op = "renew" THEN {calls[d].issue} ELSE {}]
             live == [o \in IssueId |-> issues[o].lease.live]
  <2>12. asked[c] = {id}
    BY <2>1, <2>7
  <2>13. asked' = [asked EXCEPT ![c] = {}]
    BY <2>11
  <2>14. live' = [o \in IssueId |-> o \in {id} \/ live[o]]
    BY <2>10
  <2>15. live' = [o \in IssueId |-> o \in asked[c] \/ live[o]]
    BY <2>12, <2>14
  <2>16. [o \in IssueId |-> issues'[o].lease.owner] = [o \in IssueId |-> issues[o].lease.owner]
    BY <2>10
  <2>17. asked[c] # {}
    BY <2>12
  <2> QED
    BY <2>7, <2>13, <2>15, <2>16, <2>17, Zenon DEF Late!Extend
<1>6. ASSUME NEW c \in Caller, FinishRelease(c)
      PROVE  \E id \in IssueId : Late!Revoke(id)
  <2>1. PICK id \in IssueId, l \in CloudLease, s \in Status :
           id = calls[c].issue /\ l = calls[c].read /\ s = calls[c].status
    BY <1>1, <1>6, CloudCallFacts DEF FinishRelease
  <2>2. ReleasedFrom(issues[id], l, s).lease = NoLease
    BY <1>1 DEF ReleasedFrom, CloudIssue
  <2>3. /\ calls[c].op = "release"
        /\ Store(id, ReleasedFrom(issues[id], l, s)) /\ granted' = granted
        /\ calls' = [calls EXCEPT ![c] = NoCall]
    BY <1>6, <2>1 DEF FinishRelease
  <2>4. /\ calls'[c].op = "none" /\ \A d \in Caller \ {c} : calls'[d] = calls[d]
    BY <1>1, <2>3
  <2>5. \A d \in Caller : /\ calls'[d].op = "renew" <=> calls[d].op = "renew"
                          /\ calls[d].op = "renew" => calls'[d].issue = calls[d].issue
    BY <2>3, <2>4
  <2> QED
    BY <2>2, <2>3, <2>5, LateDrops
<1>7. ASSUME NEW c \in Caller, CallLost(c)
      PROVE  Late!Forget(c)
  <2>1. /\ calls'[c].op = "none" /\ \A d \in Caller \ {c} : calls'[d] = calls[d]
        /\ issues' = issues /\ granted' = granted
    BY <1>1, <1>7 DEF CallLost, vars
  <2> QED
    BY <2>1 DEF Late!Forget
<1>8. CASE StartSweep \/ UNCHANGED cloudVars
  <2>1. issues' = issues /\ granted' = granted /\ calls' = calls
    BY <1>8 DEF StartSweep, cloudVars, vars
  <2> QED
    BY <2>1 DEF Late!vars
<1> QED
  BY <1>2, <1>3, <1>4, <1>5, <1>6, <1>7, <1>8, LateAtomic
     DEF CloudNext, StartWorkerRelease, Late!Next

\* The queue shared by several servers implements the late lease: its two-request
\* renewals and releases never let it hand out a lease over another agent's live
\* one, nor return a lease to a past owner, and a lease that is extended by mistake
\* is paid for by one renewal that a live owner had asked for.
THEOREM CloudImplementsLateLease == CloudSpec => ImplementsLateLease
<1>1. CloudInit => Late!Init
  BY LateInit
<1>2. CloudInv /\ [CloudNext]_cloudVars => [Late!Next]_(Late!vars)
  BY LateStep
<1> QED
  BY <1>1, <1>2, CloudInvariant, PTL DEF CloudSpec, ImplementsLateLease, Late!Spec
=============================================================================
