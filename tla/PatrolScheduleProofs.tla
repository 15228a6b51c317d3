------------------------ MODULE PatrolScheduleProofs ------------------------
(***************************************************************************)
(* Proofs about PatrolSchedule, for any patrols, requests and bounds.      *)
(*                                                                         *)
(* The argument: a reference keeps its dict, and nothing ever switches a   *)
(* dict on or off after it was made.  A round lists the dict in force, so  *)
(* one that begins after a patrol was switched off does not run it; and it *)
(* has every patrol on its list once, so the round that was under way runs *)
(* it once at most (LateInv).                                              *)
(*                                                                         *)
(* The list of a round is computed by a recursive function.  That there is *)
(* such a function, and what it computes, is shown by induction; since the *)
(* provers cannot instantiate an operator, the induction is over the SET   *)
(* of the numbers for which the claim holds.                               *)
(***************************************************************************)
EXTENDS PatrolSchedule, SequenceTheorems, WellFoundedInduction, TLAPS

-----------------------------------------------------------------------------
(* Induction over a set of numbers *)

\* Every set of numbers that is not empty has a least element.
LEMMA LeastNumber ==
    ASSUME NEW T, T \subseteq Nat, T # {}
    PROVE  \E m \in T : \A n \in T : m <= n
<1>1. PICK m \in T : \A n \in T : ~(<<n, m>> \in OpToRel(<, Nat))
  BY NatLessThanWellFounded, WFMin, Zenon
<1>2. OpToRel(<, Nat) = {p \in Nat \X Nat : p[1] < p[2]}
  BY Zenon DEF OpToRel
<1>3. ASSUME NEW n \in T
      PROVE  m <= n
  <2>1. ~(<<n, m>> \in {p \in Nat \X Nat : p[1] < p[2]})
    BY <1>1, <1>2, Zenon
  <2> QED
    BY <2>1
<1> QED
  BY <1>3, Zenon

\* A set that has zero, and the successor of every number it has, has them all.
LEMMA SetInduction ==
    ASSUME NEW S, 0 \in S, \A n \in Nat : n \in S => n + 1 \in S
    PROVE  Nat \subseteq S
<1> DEFINE T == Nat \ S
<1>1. SUFFICES ASSUME T # {} PROVE FALSE
  OBVIOUS
<1>2. PICK m \in T : \A n \in T : m <= n
  BY <1>1, LeastNumber, T \subseteq Nat
<1>3. m \in Nat /\ m # 0
  BY <1>2
<1>4. m - 1 \in Nat /\ m - 1 \notin T
  BY <1>2, <1>3
<1>5. (m - 1) + 1 \in S
  BY <1>4
<1> QED
  BY <1>2, <1>3, <1>5

-----------------------------------------------------------------------------
(* The list of a round *)

\* What the recursion of Listing demands of its function, up to m.
Lists(f, m, handles) ==
    f = [n \in 0..m |-> IF n = 0 THEN <<>>
                        ELSE IF Order[n] \in handles THEN Append(f[n - 1], Current(Order[n]))
                        ELSE f[n - 1]]

\* A function that meets the demand can be extended by one number.
LEMMA ListsOneMore ==
    ASSUME NEW handles, NEW m \in Nat, NEW f, Lists(f, m, handles)
    PROVE  \E g : Lists(g, m + 1, handles)
<1> DEFINE last == IF Order[m + 1] \in handles THEN Append(f[m], Current(Order[m + 1])) ELSE f[m]
           g == [n \in 0..(m + 1) |-> IF n = m + 1 THEN last ELSE f[n]]
<1>1. g[m + 1] = last /\ \A n \in 0..m : g[n] = f[n]
  OBVIOUS
<1>2. ASSUME NEW n \in 0..(m + 1)
      PROVE  g[n] = IF n = 0 THEN <<>>
                    ELSE IF Order[n] \in handles THEN Append(g[n - 1], Current(Order[n]))
                    ELSE g[n - 1]
  <2>1. CASE n = m + 1
    <3>1. g[n - 1] = f[m] /\ n # 0
      BY <1>1, <2>1
    <3> QED
      BY <1>1, <2>1, <3>1, Zenon
  <2>2. CASE n \in 0..m
    <3>1. n # 0 => g[n - 1] = f[n - 1]
      BY <1>1, <2>2
    <3>2. g[n] = f[n]
      BY <1>1, <2>2
    <3>3. f[n] = IF n = 0 THEN <<>>
                 ELSE IF Order[n] \in handles THEN Append(f[n - 1], Current(Order[n]))
                 ELSE f[n - 1]
      BY <2>2, Zenon DEF Lists
    <3> QED
      BY <3>1, <3>2, <3>3, Zenon
  <2> QED
    BY <2>1, <2>2
<1>3. g = [n \in 0..(m + 1) |-> g[n]]
  OBVIOUS
<1>4. Lists(g, m + 1, handles)
  BY <1>2, <1>3, Zenon DEF Lists
<1> QED
  BY <1>4

LEMMA ListsExists ==
    ASSUME NEW handles, NEW m \in Nat
    PROVE  \E f : Lists(f, m, handles)
<1> DEFINE S == {n \in Nat : \E f : Lists(f, n, handles)}
<1>1. 0 \in S
  <2>1. Lists([n \in 0..0 |-> <<>>], 0, handles)
    BY DEF Lists
  <2> QED
    BY <2>1
<1>2. \A n \in Nat : n \in S => n + 1 \in S
  BY ListsOneMore
<1>3. Nat \subseteq S
  BY <1>1, <1>2, SetInduction, Zenon
<1> QED
  BY <1>3

\* Listing is computed by such a function.
LEMMA ListingIsComputed ==
    ASSUME NEW handles
    PROVE  \E f : Lists(f, Len(Order), handles) /\ Listing(handles) = f[Len(Order)]
<1>1. Len(Order) \in Nat
  BY OrderAssumption
<1>2. PICK f : Lists(f, Len(Order), handles)
  BY <1>1, ListsExists
<1> QED
  BY <1>2, Zenon DEF Lists, Listing

\* No patrol is in the list twice.
Once(refs) == \A i, j \in DOMAIN refs : refs[i].handle = refs[j].handle => i = j

\* A list of the patrols handles, by references to the dicts in force.
IsListing(refs, handles) ==
    /\ refs \in Seq(Reference)
    /\ Once(refs)
    /\ \A i \in DOMAIN refs : refs[i] = Current(refs[i].handle) /\ refs[i].handle \in handles

\* Every one of the patrols handles is in the list.
IsComplete(refs, handles) == \A h \in Handle \cap handles : \E i \in DOMAIN refs : refs[i].handle = h

LEMMA CurrentType ==
    ASSUME dicts \in [Handle -> Seq(Schedule)], NEW h \in Handle
    PROVE  Current(h) \in Reference /\ Current(h).handle = h
BY DEF Current, Reference

LEMMA OrderFacts ==
    /\ Len(Order) \in Nat
    /\ \A n \in 1..Len(Order) : Order[n] \in Handle
    /\ \A m, n \in 1..Len(Order) : Order[m] = Order[n] => m = n
BY OrderAssumption DEF IsInjective

LEMMA ListingFacts ==
    ASSUME dicts \in [Handle -> Seq(Schedule)], NEW handles
    PROVE  IsListing(Listing(handles), handles) /\ IsComplete(Listing(handles), handles)
<1>1. PICK f : Lists(f, Len(Order), handles) /\ Listing(handles) = f[Len(Order)]
  BY ListingIsComputed
<1> DEFINE Before(n) == \A i \in DOMAIN f[n] : \E k \in 1..n : f[n][i].handle = Order[k]
           Whole(n) == \A k \in 1..n : Order[k] \in handles =>
                           \E i \in DOMAIN f[n] : f[n][i].handle = Order[k]
           S == {n \in Nat : n <= Len(Order) => IsListing(f[n], handles) /\ Before(n) /\ Whole(n)}
<1>2. 0 \in S
  <2>1. f[0] = <<>>
    BY <1>1, OrderFacts DEF Lists
  <2>2. IsListing(<<>>, handles)
    BY DEF IsListing, Once
  <2>3. Before(0) /\ Whole(0)
    BY <2>1
  <2> QED
    BY <2>1, <2>2, <2>3
<1>3. ASSUME NEW n \in Nat, n \in S
      PROVE  n + 1 \in S
  <2> HIDE DEF Before, Whole
  <2>1. SUFFICES ASSUME n + 1 <= Len(Order)
                 PROVE  IsListing(f[n + 1], handles) /\ Before(n + 1) /\ Whole(n + 1)
    OBVIOUS
  <2> USE DEF Before, Whole
  <2>2. n + 1 \in 1..Len(Order) /\ n <= Len(Order) /\ n + 1 # 0 /\ (n + 1) - 1 = n
    BY <2>1, OrderFacts
  <2>3. IsListing(f[n], handles) /\ Before(n) /\ Whole(n)
    BY <1>3, <2>2
  <2>4. n + 1 \in 0..Len(Order)
    BY <2>2, OrderFacts
  <2>5. f[n + 1] = IF Order[n + 1] \in handles THEN Append(f[n], Current(Order[n + 1])) ELSE f[n]
    BY <1>1, <2>2, <2>4, Zenon DEF Lists
  <2>6. CASE Order[n + 1] \notin handles
    <3>1. f[n + 1] = f[n]
      BY <2>5, <2>6
    <3>2. Before(n + 1)
      BY <2>2, <2>3, <3>1
    <3>3. Whole(n + 1)
      <4>1. ASSUME NEW k \in 1..(n + 1), Order[k] \in handles
            PROVE  k \in 1..n
        BY <2>6, <4>1
      <4> QED
        BY <2>3, <3>1, <4>1
    <3> QED
      BY <2>3, <3>1, <3>2, <3>3
  <2>7. CASE Order[n + 1] \in handles
    <3> DEFINE refs == f[n]
               new  == Current(Order[n + 1])
    <3>1. f[n + 1] = Append(refs, new)
      BY <2>5, <2>7
    <3>2. new \in Reference /\ new.handle = Order[n + 1] /\ new = Current(new.handle)
      BY <2>2, OrderFacts, CurrentType
    <3>3. refs \in Seq(Reference) /\ Len(refs) \in Nat
      BY <2>3 DEF IsListing
    <3> HIDE DEF refs, new
    <3>4. /\ Append(refs, new) \in Seq(Reference)
          /\ DOMAIN Append(refs, new) = 1..(Len(refs) + 1)
          /\ DOMAIN refs = 1..Len(refs)
          /\ Append(refs, new)[Len(refs) + 1] = new
          /\ \A i \in 1..Len(refs) : Append(refs, new)[i] = refs[i]
      BY <3>2, <3>3
    <3>5. \A i \in DOMAIN refs : refs[i].handle # new.handle
      <4>1. ASSUME NEW i \in DOMAIN refs, refs[i].handle = new.handle
            PROVE  FALSE
        <5>1. PICK k \in 1..n : refs[i].handle = Order[k]
          BY <2>3, <4>1 DEF refs
        <5>2. k \in 1..Len(Order) /\ k # n + 1
          BY <2>2, OrderFacts
        <5> QED
          BY <2>2, <3>2, <4>1, <5>1, <5>2, OrderFacts
      <4> QED
        BY <4>1
    <3>6. Once(refs) /\ \A i \in DOMAIN refs : refs[i] = Current(refs[i].handle) /\ refs[i].handle \in handles
      BY <2>3 DEF refs, IsListing
    <3>7. Once(Append(refs, new))
      BY <3>3, <3>4, <3>5, <3>6 DEF Once
    <3>8. \A i \in 1..(Len(refs) + 1) :
             /\ Append(refs, new)[i] = Current(Append(refs, new)[i].handle)
             /\ Append(refs, new)[i].handle \in handles
      <4>1. ASSUME NEW i \in 1..(Len(refs) + 1)
            PROVE  /\ Append(refs, new)[i] = Current(Append(refs, new)[i].handle)
                   /\ Append(refs, new)[i].handle \in handles
        <5>1. i \in 1..Len(refs) \/ i = Len(refs) + 1
          BY <3>3
        <5> QED
          BY <2>7, <3>2, <3>4, <3>6, <5>1
      <4> QED
        BY <4>1
    <3>9. \A i \in 1..(Len(refs) + 1) : \E k \in 1..(n + 1) : Append(refs, new)[i].handle = Order[k]
      <4>1. ASSUME NEW i \in 1..(Len(refs) + 1)
            PROVE  \E k \in 1..(n + 1) : Append(refs, new)[i].handle = Order[k]
        <5>1. CASE i \in 1..Len(refs)
          <6>1. PICK k \in 1..n : refs[i].handle = Order[k]
            BY <2>3, <3>4, <5>1 DEF refs
          <6> QED
            BY <3>4, <5>1, <6>1
        <5>2. CASE i = Len(refs) + 1
          BY <3>2, <3>4, <5>2
        <5> QED
          BY <3>3, <5>1, <5>2
      <4> QED
        BY <4>1
    <3>10. \A k \in 1..(n + 1) : Order[k] \in handles =>
              \E i \in 1..(Len(refs) + 1) : Append(refs, new)[i].handle = Order[k]
      <4>1. ASSUME NEW k \in 1..(n + 1), Order[k] \in handles
            PROVE  \E i \in 1..(Len(refs) + 1) : Append(refs, new)[i].handle = Order[k]
        <5>1. CASE k = n + 1
          <6>1. Len(refs) + 1 \in 1..(Len(refs) + 1)
            BY <3>3
          <6> QED
            BY <3>2, <3>4, <5>1, <6>1
        <5>2. CASE k \in 1..n
          <6>1. PICK i \in DOMAIN refs : refs[i].handle = Order[k]
            BY <2>3, <4>1, <5>2 DEF refs
          <6>2. i \in 1..(Len(refs) + 1) /\ i \in 1..Len(refs)
            BY <3>3, <3>4
          <6> QED
            BY <3>4, <6>1, <6>2
        <5> QED
          BY <5>1, <5>2
      <4> QED
        BY <4>1
    <3> QED
      BY <3>1, <3>4, <3>7, <3>8, <3>9, <3>10 DEF IsListing
  <2> QED
    BY <2>6, <2>7
<1>4. Nat \subseteq S
  <2> HIDE DEF S
  <2> QED
    BY <1>2, <1>3, SetInduction, Zenon
<1>5. IsListing(f[Len(Order)], handles) /\ Whole(Len(Order))
  BY <1>4, OrderFacts
<1>6. IsComplete(f[Len(Order)], handles)
  <2>1. ASSUME NEW h \in Handle
        PROVE  \E k \in 1..Len(Order) : Order[k] = h
    BY OrderAssumption DEF Handle, ToSet
  <2> QED
    BY <1>5, <2>1 DEF IsComplete
<1> QED
  BY <1>1, <1>5, <1>6

-----------------------------------------------------------------------------
(* The invariant *)

Walking == [kind : {"poll", "all", "one"}, rest : Seq(Reference), awaiting : BOOLEAN]

Types ==
    /\ dicts \in [Handle -> Seq(Schedule)]
    /\ store \in [Handle -> Schedule \cup {NoDoc}]
    /\ walkers \in [Walker -> Walking]
    /\ late \in [DOMAIN late -> Nat] /\ DOMAIN late \subseteq Handle
    /\ revision \in 0..MaxRevision /\ failures \in 0..MaxFailures /\ restarts \in 0..MaxRestarts

\* Every dict that is switched on has a next run, the replaced ones too: a run
\* persists the dict it has, and a restart may load that.
HasNext ==
    \A h \in Handle : \A v \in 1..Len(dicts[h]) : dicts[h][v].enabled => dicts[h][v].next # "none"

\* What walker w has to run are dicts there are, each patrol once; what it
\* awaits is a chat.
RoundInv ==
    \A w \in Walker :
        /\ Once(walkers[w].rest)
        /\ \A i \in DOMAIN walkers[w].rest :
              walkers[w].rest[i].version <= Len(dicts[walkers[w].rest[i].handle])
        /\ walkers[w].awaiting => walkers[w].rest # <<>> /\ First(w).handle \in Chat

\* One walker at most has the event loop.
AloneInv == \A v, w \in Walker : Reached(v) /\ Reached(w) => v = w

\* The loop has not yet started run i of its round.
ToStart(i) == ~(i = 1 /\ walkers["loop"].awaiting)

\* Patrol h, which was switched off, is off.  If the loop has run it since, every
\* dict of it that the loop has still to start is switched off.
StaysOff(h) ==
    /\ dicts[h] # <<>> /\ ~GetSchedule(h).enabled
    /\ late[h] <= 1
    /\ late[h] = 1 =>
          \A i \in DOMAIN walkers["loop"].rest :
              walkers["loop"].rest[i].handle = h /\ ToStart(i) =>
                  ~Held(walkers["loop"].rest[i]).enabled

LateInv == walkers["loop"].kind = "poll" /\ \A h \in DOMAIN late : StaysOff(h)

ScheduleInv == Types /\ HasNext /\ RoundInv /\ AloneInv /\ LateInv

-----------------------------------------------------------------------------
(* Dicts *)

\* The step adds dicts, but switches none of those there are on or off.
DictsKept ==
    \A h \in Handle :
        /\ Len(dicts[h]) <= Len(dicts'[h])
        /\ \A v \in 1..Len(dicts[h]) : dicts'[h][v].enabled = dicts[h][v].enabled

LEMMA ScheduleFacts ==
    /\ DefaultSchedule \in Schedule /\ Placeholder \in Schedule
    /\ ~Placeholder.enabled /\ DefaultSchedule.next # "none"
    /\ \A s \in Schedule : /\ s.enabled \in BOOLEAN /\ s.revision \in Nat
                           /\ s.next \in {"none", "later", "due"}
BY DEF Schedule, DefaultSchedule, Placeholder

\* next_run_at is set.
LEMMA NextSet ==
    ASSUME NEW s \in Schedule, NEW next \in {"none", "later", "due"}
    PROVE  /\ [s EXCEPT !.next = next] \in Schedule
           /\ [s EXCEPT !.next = next].enabled = s.enabled
           /\ [s EXCEPT !.next = next].next = next
BY DEF Schedule

LEMMA HeldFacts ==
    ASSUME Types, NEW ref \in Reference, ref.version <= Len(dicts[ref.handle])
    PROVE  /\ Held(ref) \in Schedule
           /\ ref.handle \in Handle /\ ref.version \in Nat
           /\ ref.version # 0 => /\ ref.version \in 1..Len(dicts[ref.handle])
                                 /\ Held(ref) = dicts[ref.handle][ref.version]
<1>1. /\ ref.handle \in Handle /\ ref.version \in Nat
      /\ dicts[ref.handle] \in Seq(Schedule) /\ Len(dicts[ref.handle]) \in Nat
  BY DEF Types, Reference
<1>2. CASE ref.version = 0
  BY <1>1, <1>2, ScheduleFacts DEF Held
<1>3. CASE ref.version # 0
  <2>1. ref.version \in 1..Len(dicts[ref.handle])
    BY <1>1, <1>3
  <2>2. dicts[ref.handle][ref.version] \in Schedule
    BY <1>1, <2>1
  <2> QED
    BY <1>1, <1>3, <2>1, <2>2 DEF Held
<1> QED
  BY <1>2, <1>3

LEMMA GetScheduleFacts ==
    ASSUME Types, NEW h \in Handle
    PROVE  /\ GetSchedule(h) \in Schedule
           /\ Current(h) \in Reference /\ Current(h).handle = h
           /\ Current(h).version = Len(dicts[h]) /\ Len(dicts[h]) \in Nat
           /\ dicts[h] # <<>> => /\ Len(dicts[h]) \in 1..Len(dicts[h])
                                 /\ GetSchedule(h) = dicts[h][Len(dicts[h])]
<1>1. dicts[h] \in Seq(Schedule)
  BY DEF Types
<1>2. /\ Current(h) \in Reference /\ Current(h).handle = h
      /\ Current(h).version = Len(dicts[h]) /\ Len(dicts[h]) \in Nat
  BY <1>1 DEF Current, Reference
<1>3. Current(h).version <= Len(dicts[Current(h).handle])
  BY <1>2
<1>4. dicts[h] # <<>> => Len(dicts[h]) # 0
  BY <1>1
<1> QED
  BY <1>2, <1>3, <1>4, HeldFacts DEF GetSchedule

\* Dict v of patrol h is changed in place.
LEMMA DictChanged ==
    ASSUME dicts \in [Handle -> Seq(Schedule)], NEW h \in Handle,
           NEW v \in 1..Len(dicts[h]), NEW s \in Schedule,
           s.enabled = dicts[h][v].enabled,
           dicts' = [dicts EXCEPT ![h] = [dicts[h] EXCEPT ![v] = s]]
    PROVE  /\ dicts' \in [Handle -> Seq(Schedule)]
           /\ DictsKept
           /\ \A k \in Handle : Len(dicts'[k]) = Len(dicts[k])
           /\ dicts'[h][v] = s
           /\ \A k \in Handle : \A n \in 1..Len(dicts[k]) :
                 ~(k = h /\ n = v) => dicts'[k][n] = dicts[k][n]
<1>1. dicts[h] \in Seq(Schedule) /\ Len(dicts[h]) \in Nat
  OBVIOUS
<1> DEFINE new == [dicts[h] EXCEPT ![v] = s]
<1>2. /\ new \in Seq(Schedule) /\ Len(new) = Len(dicts[h]) /\ new[v] = s
      /\ \A n \in 1..Len(dicts[h]) : n # v => new[n] = dicts[h][n]
  BY <1>1
<1>3. dicts'[h] = new /\ \A k \in Handle \ {h} : dicts'[k] = dicts[k]
  OBVIOUS
<1>4. dicts' = [k \in Handle |-> IF k = h THEN new ELSE dicts[k]]
  OBVIOUS
<1> HIDE DEF new
<1>5. dicts' \in [Handle -> Seq(Schedule)]
  BY <1>2, <1>4
<1>6. \A k \in Handle : Len(dicts'[k]) = Len(dicts[k])
  BY <1>2, <1>3
<1>7. \A k \in Handle : Len(dicts[k]) \in Nat
  OBVIOUS
<1>8. dicts'[h][v] = s /\ \A k \in Handle : \A n \in 1..Len(dicts[k]) :
                 ~(k = h /\ n = v) => dicts'[k][n] = dicts[k][n]
  BY <1>2, <1>3
<1>9. DictsKept
  BY <1>6, <1>7, <1>8 DEF DictsKept
<1> QED
  BY <1>5, <1>6, <1>8, <1>9

\* A copy takes the place of the dict of patrol h.
LEMMA DictReplaced ==
    ASSUME dicts \in [Handle -> Seq(Schedule)], NEW h \in Handle, NEW s \in Schedule,
           dicts' = [dicts EXCEPT ![h] = Append(@, s)]
    PROVE  /\ dicts' \in [Handle -> Seq(Schedule)]
           /\ DictsKept
           /\ dicts'[h] # <<>> /\ Len(dicts'[h]) = Len(dicts[h]) + 1
           /\ dicts'[h][Len(dicts[h]) + 1] = s
           /\ \A k \in Handle \ {h} : dicts'[k] = dicts[k]
           /\ \A n \in 1..Len(dicts[h]) : dicts'[h][n] = dicts[h][n]
<1>1. dicts[h] \in Seq(Schedule) /\ Len(dicts[h]) \in Nat
  OBVIOUS
<1> DEFINE new == Append(dicts[h], s)
<1>2. /\ new \in Seq(Schedule) /\ Len(new) = Len(dicts[h]) + 1 /\ new # <<>>
      /\ new[Len(dicts[h]) + 1] = s
      /\ \A n \in 1..Len(dicts[h]) : new[n] = dicts[h][n]
  BY <1>1
<1>3. dicts'[h] = new /\ \A k \in Handle \ {h} : dicts'[k] = dicts[k]
  OBVIOUS
<1>4. dicts' = [k \in Handle |-> IF k = h THEN new ELSE dicts[k]]
  OBVIOUS
<1> HIDE DEF new
<1>5. dicts' \in [Handle -> Seq(Schedule)]
  BY <1>2, <1>4
<1>6. \A k \in Handle : Len(dicts[k]) \in Nat
  OBVIOUS
<1>7. DictsKept
  BY <1>1, <1>2, <1>3, <1>6 DEF DictsKept
<1> QED
  BY <1>2, <1>3, <1>5, <1>7

-----------------------------------------------------------------------------
(* Walkers *)

LEMMA FirstFacts ==
    ASSUME Types, RoundInv, NEW w \in Walker, walkers[w].rest # <<>>
    PROVE  /\ 1 \in DOMAIN walkers[w].rest /\ First(w) = walkers[w].rest[1]
           /\ First(w) \in Reference
           /\ First(w).version <= Len(dicts[First(w).handle])
<1>1. walkers[w].rest \in Seq(Reference)
  BY DEF Types, Walking
<1>2. 1 \in DOMAIN walkers[w].rest /\ First(w) = walkers[w].rest[1] /\ First(w) \in Reference
  BY <1>1 DEF First
<1> QED
  BY <1>2 DEF RoundInv

\* A walker that goes on has its list without the first patrol.
LEMMA AfterFacts ==
    ASSUME NEW walker \in Walking, walker.rest # <<>>, NEW goes_on \in BOOLEAN
    PROVE  LET new == After(walker, goes_on)
           IN  /\ new \in Walking /\ ~new.awaiting
               /\ new.kind \in {walker.kind, "poll"}
               /\ \A i \in DOMAIN new.rest :
                     i + 1 \in DOMAIN walker.rest /\ new.rest[i] = walker.rest[i + 1] /\ i + 1 # 1
<1> DEFINE new == After(walker, goes_on)
<1>1. walker.rest \in Seq(Reference)
  BY DEF Walking
<1>2. CASE goes_on /\ Len(walker.rest) > 1
  <2>1. new = [walker EXCEPT !.rest = Tail(walker.rest), !.awaiting = FALSE]
    BY <1>2 DEF After
  <2>2. Tail(walker.rest) \in Seq(Reference)
    BY <1>1
  <2>3. new \in Walking /\ new.rest = Tail(walker.rest) /\ ~new.awaiting /\ new.kind = walker.kind
    BY <2>1, <2>2 DEF Walking
  <2>4. \A i \in DOMAIN Tail(walker.rest) :
           i + 1 \in DOMAIN walker.rest /\ Tail(walker.rest)[i] = walker.rest[i + 1] /\ i + 1 # 1
    BY <1>1
  <2> QED
    BY <2>3, <2>4
<1>3. CASE ~(goes_on /\ Len(walker.rest) > 1)
  <2>1. new = Idle
    BY <1>3 DEF After
  <2> QED
    BY <2>1 DEF Idle, Walking
<1> QED
  BY <1>2, <1>3

LEMMA OnceAfter ==
    ASSUME NEW walker \in Walking, walker.rest # <<>>, NEW goes_on \in BOOLEAN,
           Once(walker.rest)
    PROVE  Once(After(walker, goes_on).rest)
<1> DEFINE new == After(walker, goes_on)
<1>1. new.rest \in Seq(Reference)
  BY AfterFacts DEF Walking
<1>2. ASSUME NEW i \in DOMAIN new.rest, NEW j \in DOMAIN new.rest,
             new.rest[i].handle = new.rest[j].handle
      PROVE  i = j
  <2>1. i \in Int /\ j \in Int
    BY <1>1
  <2>2. i + 1 = j + 1
    BY <1>2, AfterFacts DEF Once
  <2> QED
    BY <2>1, <2>2
<1> QED
  BY <1>2 DEF Once

\* Walker w becomes `new`, the others stay as they are.
LEMMA RoundKept ==
    ASSUME Types, RoundInv, DictsKept, dicts' \in [Handle -> Seq(Schedule)],
           NEW w \in Walker, NEW new \in Walking,
           walkers' = [walkers EXCEPT ![w] = new],
           Once(new.rest),
           \A i \in DOMAIN new.rest : new.rest[i].version <= Len(dicts'[new.rest[i].handle]),
           new.awaiting => new.rest # <<>> /\ Head(new.rest).handle \in Chat
    PROVE  walkers' \in [Walker -> Walking] /\ RoundInv'
<1>1. /\ walkers' \in [Walker -> Walking]
      /\ walkers'[w] = new /\ \A v \in Walker \ {w} : walkers'[v] = walkers[v]
  BY DEF Types
<1>2. ASSUME NEW v \in Walker, NEW i \in DOMAIN walkers'[v].rest
      PROVE  walkers'[v].rest[i].version <= Len(dicts'[walkers'[v].rest[i].handle])
  <2>1. CASE v = w
    BY <1>1, <1>2, <2>1
  <2>2. CASE v # w
    <3> DEFINE ref == walkers[v].rest[i]
    <3>1. walkers'[v] = walkers[v]
      BY <1>1, <2>2
    <3>2. walkers[v].rest \in Seq(Reference) /\ i \in DOMAIN walkers[v].rest
      BY <1>2, <3>1 DEF Types, Walking
    <3>3. ref \in Reference /\ ref.version <= Len(dicts[ref.handle])
      BY <3>2 DEF RoundInv
    <3>4. ref.handle \in Handle /\ ref.version \in Nat
      BY <3>3 DEF Reference
    <3>5. Len(dicts[ref.handle]) <= Len(dicts'[ref.handle])
      BY <3>4 DEF DictsKept
    <3>6. Len(dicts[ref.handle]) \in Nat /\ Len(dicts'[ref.handle]) \in Nat
      BY <3>4 DEF Types
    <3>7. ref.version <= Len(dicts'[ref.handle])
      BY <3>3, <3>4, <3>5, <3>6
    <3> QED
      BY <3>1, <3>7
  <2> QED
    BY <2>1, <2>2
<1>3. \A v \in Walker : Once(walkers'[v].rest)
  BY <1>1 DEF RoundInv
<1>4. \A v \in Walker : walkers'[v].awaiting =>
          walkers'[v].rest # <<>> /\ Head(walkers'[v].rest).handle \in Chat
  BY <1>1 DEF RoundInv, First
<1> QED
  BY <1>1, <1>2, <1>3, <1>4 DEF RoundInv, First

\* The same for a step that moves no walker.
LEMMA RoundUnmoved ==
    ASSUME Types, RoundInv, DictsKept, dicts' \in [Handle -> Seq(Schedule)], UNCHANGED walkers
    PROVE  RoundInv'
<1>1. ASSUME NEW v \in Walker, NEW i \in DOMAIN walkers[v].rest
      PROVE  walkers[v].rest[i].version <= Len(dicts'[walkers[v].rest[i].handle])
  <2> DEFINE ref == walkers[v].rest[i]
  <2>1. walkers[v].rest \in Seq(Reference)
    BY DEF Types, Walking
  <2>2. ref \in Reference /\ ref.version <= Len(dicts[ref.handle])
    BY <1>1, <2>1 DEF RoundInv
  <2>3. ref.handle \in Handle /\ ref.version \in Nat
    BY <2>2 DEF Reference
  <2>4. Len(dicts[ref.handle]) <= Len(dicts'[ref.handle])
    BY <2>3 DEF DictsKept
  <2>5. Len(dicts[ref.handle]) \in Nat /\ Len(dicts'[ref.handle]) \in Nat
    BY <2>3 DEF Types
  <2> QED
    BY <2>2, <2>3, <2>4, <2>5
<1> QED
  BY <1>1 DEF RoundInv, First

\* Whoever moves has the event loop, or nobody has.
LEMMA AloneKept ==
    ASSUME walkers \in [Walker -> Walking], NEW w \in Walker, NEW new,
           walkers' = [walkers EXCEPT ![w] = new],
           \A v \in Walker \ {w} : ~Reached(v)
    PROVE  AloneInv'
<1>1. \A v \in Walker \ {w} : walkers'[v] = walkers[v]
  OBVIOUS
<1>2. \A v \in Walker \ {w} : ~Reached(v)'
  BY <1>1 DEF Reached
<1> QED
  BY <1>2 DEF AloneInv

-----------------------------------------------------------------------------
(* Patrols that were switched off *)

\* A dict that is held stays switched on or off.
LEMMA HeldKept ==
    ASSUME Types, DictsKept, NEW ref \in Reference, ref.version <= Len(dicts[ref.handle])
    PROVE  Held(ref)'.enabled = Held(ref).enabled
<1>1. CASE ref.version = 0
  BY <1>1 DEF Held, Placeholder
<1>2. CASE ref.version # 0
  <2>1. ref.version \in 1..Len(dicts[ref.handle]) /\ ref.handle \in Handle
    BY <1>2, HeldFacts
  <2>2. dicts'[ref.handle][ref.version].enabled = dicts[ref.handle][ref.version].enabled
    BY <2>1 DEF DictsKept
  <2> QED
    BY <1>2, <2>2 DEF Held
<1> QED
  BY <1>1, <1>2

LEMMA CurrentKept ==
    ASSUME Types, DictsKept, NEW h \in Handle, dicts[h] # <<>>, Len(dicts'[h]) = Len(dicts[h]),
           dicts' \in [Handle -> Seq(Schedule)]
    PROVE  dicts'[h] # <<>> /\ GetSchedule(h)'.enabled = GetSchedule(h).enabled
<1>1. Len(dicts[h]) \in 1..Len(dicts[h]) /\ GetSchedule(h) = dicts[h][Len(dicts[h])]
  BY GetScheduleFacts
<1>2. dicts'[h][Len(dicts[h])].enabled = dicts[h][Len(dicts[h])].enabled
  BY <1>1 DEF DictsKept
<1>3. GetSchedule(h)' = dicts'[h][Len(dicts[h])]
  BY <1>1 DEF GetSchedule, Current, Held
<1>4. dicts'[h] # <<>>
  BY <1>1
<1> QED
  BY <1>1, <1>2, <1>3, <1>4

\* Nothing that the loop has to start after the step was not there to start before.
LEMMA StaysOffKept ==
    ASSUME Types, RoundInv, DictsKept, NEW h \in DOMAIN late, StaysOff(h),
           dicts'[h] # <<>>, ~GetSchedule(h)'.enabled, late'[h] <= 1,
           \A i \in DOMAIN walkers'["loop"].rest :
               late'[h] = 1 /\ walkers'["loop"].rest[i].handle = h /\ ToStart(i)' =>
                   /\ late[h] = 1
                   /\ \E j \in DOMAIN walkers["loop"].rest :
                         ToStart(j) /\ walkers["loop"].rest[j] = walkers'["loop"].rest[i]
    PROVE  StaysOff(h)'
<1>1. ASSUME NEW i \in DOMAIN walkers'["loop"].rest,
             late'[h] = 1, walkers'["loop"].rest[i].handle = h, ToStart(i)'
      PROVE  ~(Held(walkers["loop"].rest[i]))'.enabled
  <2>1. PICK j \in DOMAIN walkers["loop"].rest :
            ToStart(j) /\ walkers["loop"].rest[j] = walkers'["loop"].rest[i]
    BY <1>1
  <2>2. late[h] = 1
    BY <1>1
  <2>3. walkers["loop"].rest \in Seq(Reference)
    BY DEF Types, Walking, Walker
  <2>4. PICK ref \in Reference : ref = walkers["loop"].rest[j]
    BY <2>1, <2>3
  <2>5. ref.version <= Len(dicts[ref.handle]) /\ ~Held(ref).enabled
    BY <1>1, <2>1, <2>2, <2>4 DEF RoundInv, Walker, StaysOff
  <2>6. ~Held(ref)'.enabled
    BY <2>5, HeldKept
  <2>7. (Held(walkers["loop"].rest[i]))' = Held(ref)'
    BY <2>1, <2>4 DEF Held
  <2> QED
    BY <2>6, <2>7
<1> QED
  BY <1>1 DEF StaysOff

\* A step that replaces no dict, and starts no round.
LEMMA LateKept ==
    ASSUME ScheduleInv, DictsKept, dicts' \in [Handle -> Seq(Schedule)],
           \A h \in Handle : Len(dicts'[h]) = Len(dicts[h]),
           DOMAIN late' = DOMAIN late,
           walkers'["loop"].kind = "poll",
           \A h \in DOMAIN late :
              /\ late'[h] <= 1
              /\ \A i \in DOMAIN walkers'["loop"].rest :
                    late'[h] = 1 /\ walkers'["loop"].rest[i].handle = h /\ ToStart(i)' =>
                        /\ late[h] = 1
                        /\ \E j \in DOMAIN walkers["loop"].rest :
                              ToStart(j) /\ walkers["loop"].rest[j] = walkers'["loop"].rest[i]
    PROVE  LateInv'
<1>1. Types /\ RoundInv
  BY DEF ScheduleInv
<1>2. ASSUME NEW h \in DOMAIN late
      PROVE  StaysOff(h)'
  <2>1. h \in Handle /\ StaysOff(h)
    BY DEF ScheduleInv, Types, LateInv
  <2>2. dicts[h] # <<>> /\ ~GetSchedule(h).enabled
    BY <2>1 DEF StaysOff
  <2>3. dicts'[h] # <<>> /\ ~GetSchedule(h)'.enabled
    BY <1>1, <2>1, <2>2, CurrentKept
  <2> QED
    BY <1>1, <1>2, <2>1, <2>3, StaysOffKept
<1> QED
  BY <1>2 DEF LateInv

-----------------------------------------------------------------------------
(* The actions of the operator *)

LEMMA UpdatedFacts ==
    ASSUME Types, NEW h \in Handle, NEW enabled \in BOOLEAN
    PROVE  /\ Updated(GetSchedule(h), enabled) \in Schedule
           /\ Updated(GetSchedule(h), enabled).enabled = enabled
           /\ enabled => Updated(GetSchedule(h), enabled).next # "none"
<1>1. GetSchedule(h) \in Schedule
  BY GetScheduleFacts
<1>2. revision + 1 \in Nat
  BY BoundAssumption DEF Types
<1> QED
  BY <1>1, <1>2 DEF Updated, Schedule

LEMMA FailFacts ==
    ASSUME Types, NEW n \in {0, 1}, Fail(n)
    PROVE  failures' \in 0..MaxFailures
BY BoundAssumption DEF Types, Fail

LEMMA UpdateScheduleKeeps ==
    ASSUME ScheduleInv, NEW h \in Handle, NEW enabled \in BOOLEAN, UpdateSchedule(h, enabled)
    PROVE  ScheduleInv'
<1> DEFINE curr == Updated(GetSchedule(h), enabled)
<1>1. Types /\ HasNext /\ RoundInv /\ AloneInv /\ LateInv
  BY DEF ScheduleInv
<1>2. curr \in Schedule /\ curr.enabled = enabled /\ (enabled => curr.next # "none")
  BY <1>1, UpdatedFacts
<1>3. /\ revision < MaxRevision /\ revision' = revision + 1
      /\ dicts' = [dicts EXCEPT ![h] = Append(@, curr)]
      /\ \/ Fail(0) /\ store' = [store EXCEPT ![h] = curr]
         \/ Fail(1) /\ UNCHANGED store
      /\ late' = IF enabled THEN [k \in DOMAIN late \ {h} |-> late[k]]
                 ELSE [k \in DOMAIN late \cup {h} |-> IF k \in DOMAIN late THEN late[k] ELSE 0]
      /\ UNCHANGED <<walkers, restarts>>
  BY DEF UpdateSchedule
<1> HIDE DEF curr
<1>4. /\ dicts \in [Handle -> Seq(Schedule)] /\ store \in [Handle -> Schedule \cup {NoDoc}]
      /\ late \in [DOMAIN late -> Nat] /\ DOMAIN late \subseteq Handle
  BY <1>1 DEF Types
<1>5. /\ dicts' \in [Handle -> Seq(Schedule)] /\ DictsKept
      /\ dicts'[h] # <<>> /\ Len(dicts'[h]) = Len(dicts[h]) + 1
      /\ dicts'[h][Len(dicts[h]) + 1] = curr
      /\ \A k \in Handle \ {h} : dicts'[k] = dicts[k]
      /\ \A n \in 1..Len(dicts[h]) : dicts'[h][n] = dicts[h][n]
  BY <1>2, <1>3, <1>4, DictReplaced
<1>6. /\ late' \in [DOMAIN late' -> Nat]
      /\ DOMAIN late' \subseteq DOMAIN late \cup {h}
      /\ h \in DOMAIN late' => ~enabled
      /\ \A k \in DOMAIN late' : k \in DOMAIN late => late'[k] = late[k]
      /\ h \in DOMAIN late' /\ h \notin DOMAIN late => late'[h] = 0
  <2>1. CASE enabled
    BY <1>3, <1>4, <2>1
  <2>2. CASE ~enabled
    <3>1. late' = [k \in DOMAIN late \cup {h} |-> IF k \in DOMAIN late THEN late[k] ELSE 0]
      BY <1>3, <2>2
    <3> QED
      BY <1>4, <2>2, <3>1
  <2> QED
    BY <2>1, <2>2
<1>7. Types'
  <2>1. store' \in [Handle -> Schedule \cup {NoDoc}]
    BY <1>2, <1>3, <1>4
  <2>2. failures' \in 0..MaxFailures
    BY <1>1, <1>3, FailFacts
  <2>3. revision' \in 0..MaxRevision /\ restarts' \in 0..MaxRestarts
    BY <1>1, <1>3, BoundAssumption DEF Types
  <2>4. walkers' \in [Walker -> Walking]
    BY <1>1, <1>3 DEF Types
  <2>5. DOMAIN late' \subseteq Handle
    BY <1>4, <1>6
  <2> QED
    BY <1>5, <1>6, <2>1, <2>2, <2>3, <2>4, <2>5 DEF Types
<1>8. HasNext'
  <2>1. ASSUME NEW k \in Handle, NEW v \in 1..Len(dicts'[k]), dicts'[k][v].enabled
        PROVE  dicts'[k][v].next # "none"
    <3>1. CASE k # h
      BY <1>1, <1>5, <2>1, <3>1 DEF HasNext
    <3>2. CASE k = h
      <4>1. Len(dicts[h]) \in Nat
        BY <1>4
      <4>2. v \in 1..Len(dicts[h]) \/ v = Len(dicts[h]) + 1
        BY <1>5, <2>1, <3>2, <4>1
      <4> QED
        BY <1>1, <1>2, <1>5, <2>1, <3>2, <4>2 DEF HasNext
    <3> QED
      BY <3>1, <3>2
  <2> QED
    BY <2>1 DEF HasNext
<1>9. RoundInv'
  BY <1>1, <1>3, <1>5, RoundUnmoved
<1>10. AloneInv'
  BY <1>1, <1>3 DEF AloneInv, Reached
<1>11. ASSUME NEW k \in DOMAIN late'
       PROVE  StaysOff(k)'
  <2>1. k \in Handle
    BY <1>4, <1>6
  <2>2. dicts'[k] # <<>> /\ ~GetSchedule(k)'.enabled
    <3>1. CASE k = h
      <4>1. GetSchedule(h)' = dicts'[h][Len(dicts[h]) + 1]
        BY <1>4, <1>5 DEF GetSchedule, Current, Held
      <4> QED
        BY <1>2, <1>5, <1>6, <1>11, <3>1, <4>1
    <3>2. CASE k # h
      <4>1. k \in DOMAIN late /\ dicts[k] # <<>> /\ ~GetSchedule(k).enabled
        BY <1>1, <1>6, <1>11, <3>2 DEF LateInv, StaysOff
      <4> QED
        BY <1>1, <1>5, <2>1, <3>2, <4>1, CurrentKept
    <3> QED
      BY <3>1, <3>2
  <2>3. CASE k \in DOMAIN late
    <3>1. StaysOff(k) /\ late'[k] = late[k] /\ late[k] <= 1
      BY <1>1, <1>6, <1>11, <2>3 DEF LateInv, StaysOff
    <3>2. \A i : ToStart(i)' = ToStart(i)
      BY <1>3 DEF ToStart
    <3> QED
      BY <1>1, <1>3, <1>5, <2>2, <2>3, <3>1, <3>2, StaysOffKept
  <2>4. CASE k \notin DOMAIN late
    <3>1. late'[k] = 0
      BY <1>6, <1>11, <2>4
    <3> QED
      BY <2>2, <3>1 DEF StaysOff
  <2> QED
    BY <2>3, <2>4
<1>12. LateInv'
  BY <1>1, <1>3, <1>11 DEF LateInv
<1> QED
  BY <1>7, <1>8, <1>9, <1>10, <1>12 DEF ScheduleInv

LEMMA UpdateAgentConfigKeeps ==
    ASSUME ScheduleInv, NEW h \in Handle, UpdateAgentConfig(h)
    PROVE  ScheduleInv'
<1>1. /\ store' = [store EXCEPT ![h] = NoDoc]
      /\ UNCHANGED <<dicts, walkers, late, revision, failures, restarts>>
  BY DEF UpdateAgentConfig
<1>2. store' \in [Handle -> Schedule \cup {NoDoc}]
  BY <1>1 DEF ScheduleInv, Types
<1>3. Types'
  BY <1>1, <1>2 DEF ScheduleInv, Types
<1>4. HasNext' /\ RoundInv' /\ AloneInv'
  BY <1>1 DEF ScheduleInv, HasNext, RoundInv, First, AloneInv, Reached
<1>5. LateInv'
  BY <1>1 DEF ScheduleInv, LateInv, StaysOff, ToStart, GetSchedule, Current, Held
<1> QED
  BY <1>3, <1>4, <1>5 DEF ScheduleInv

-----------------------------------------------------------------------------
(* What the walkers' actions have in common *)

\* Walker w goes on, or gives up, after the first patrol of its list.
LEMMA GoesOn ==
    ASSUME ScheduleInv, DictsKept, dicts' \in [Handle -> Seq(Schedule)],
           NEW w \in Walker, walkers[w].rest # <<>>, NEW goes_on \in BOOLEAN,
           walkers' = [walkers EXCEPT ![w] = After(walkers[w], goes_on)],
           \A v \in Walker \ {w} : ~Reached(v)
    PROVE  walkers' \in [Walker -> Walking] /\ RoundInv' /\ AloneInv'
<1> DEFINE new == After(walkers[w], goes_on)
<1>1. Types /\ RoundInv /\ walkers \in [Walker -> Walking] /\ walkers[w] \in Walking
  BY DEF ScheduleInv, Types
<1>2. /\ new \in Walking /\ ~new.awaiting
      /\ \A i \in DOMAIN new.rest :
            i + 1 \in DOMAIN walkers[w].rest /\ new.rest[i] = walkers[w].rest[i + 1]
  BY <1>1, AfterFacts
<1>3. Once(new.rest)
  BY <1>1, OnceAfter DEF RoundInv
<1> HIDE DEF new
<1>4. ASSUME NEW i \in DOMAIN new.rest
      PROVE  new.rest[i].version <= Len(dicts'[new.rest[i].handle])
  <2>1. new.rest[i] \in Reference
    <3>1. new.rest \in Seq(Reference)
      BY <1>2 DEF Walking
    <3> QED
      BY <3>1
  <2>2. new.rest[i].version <= Len(dicts[new.rest[i].handle])
    BY <1>1, <1>2 DEF RoundInv
  <2>3. new.rest[i].handle \in Handle /\ new.rest[i].version \in Nat
    BY <2>1 DEF Reference
  <2>4. Len(dicts[new.rest[i].handle]) <= Len(dicts'[new.rest[i].handle])
    BY <2>3 DEF DictsKept
  <2>5. Len(dicts[new.rest[i].handle]) \in Nat /\ Len(dicts'[new.rest[i].handle]) \in Nat
    BY <1>1, <2>3 DEF Types
  <2> QED
    BY <2>2, <2>3, <2>4, <2>5
<1>5. walkers' = [walkers EXCEPT ![w] = new]
  BY DEF new
<1>6. walkers' \in [Walker -> Walking] /\ RoundInv'
  BY <1>1, <1>2, <1>3, <1>4, <1>5, RoundKept
<1>7. AloneInv'
  BY <1>1, <1>5, AloneKept
<1> QED
  BY <1>6, <1>7

\* The same for LateInv.  If the step counts a run, it is the first of the loop's
\* list, which is not on the list any more.
LEMMA LateGoesOn ==
    ASSUME ScheduleInv, DictsKept, dicts' \in [Handle -> Seq(Schedule)],
           \A h \in Handle : Len(dicts'[h]) = Len(dicts[h]),
           NEW w \in Walker, walkers[w].rest # <<>>, NEW goes_on \in BOOLEAN,
           walkers' = [walkers EXCEPT ![w] = After(walkers[w], goes_on)],
           DOMAIN late' = DOMAIN late,
           \A h \in DOMAIN late :
              /\ late'[h] <= 1
              /\ late'[h] = 1 => late[h] = 1 \/ (w = "loop" /\ h = First(w).handle)
    PROVE  LateInv'
<1> DEFINE new == After(walkers[w], goes_on)
<1>1. /\ Types /\ RoundInv /\ walkers \in [Walker -> Walking] /\ walkers[w] \in Walking
      /\ walkers["loop"].kind = "poll" /\ "loop" \in Walker
  BY DEF ScheduleInv, Types, LateInv, Walker
<1>2. /\ new.kind \in {walkers[w].kind, "poll"}
      /\ \A i \in DOMAIN new.rest : /\ i + 1 \in DOMAIN walkers[w].rest /\ i + 1 # 1
                                    /\ new.rest[i] = walkers[w].rest[i + 1]
  BY <1>1, AfterFacts
<1> HIDE DEF new
<1>3. walkers' = [walkers EXCEPT ![w] = new]
  BY DEF new
<1>4. walkers'["loop"].kind = "poll"
  BY <1>1, <1>2, <1>3
<1>5. ASSUME NEW h \in DOMAIN late, NEW i \in DOMAIN walkers'["loop"].rest,
             late'[h] = 1, walkers'["loop"].rest[i].handle = h, ToStart(i)'
      PROVE  /\ late[h] = 1
             /\ \E j \in DOMAIN walkers["loop"].rest :
                   ToStart(j) /\ walkers["loop"].rest[j] = walkers'["loop"].rest[i]
  <2>1. CASE w = "loop"
    <3>1. walkers'["loop"] = new
      BY <1>1, <1>3, <2>1
    <3>2. /\ i + 1 \in DOMAIN walkers["loop"].rest /\ i + 1 # 1
          /\ walkers'["loop"].rest[i] = walkers["loop"].rest[i + 1]
      BY <1>2, <1>5, <2>1, <3>1
    <3>3. ToStart(i + 1)
      BY <3>2 DEF ToStart
    <3>4. h # First(w).handle
      <4>1. 1 \in DOMAIN walkers["loop"].rest /\ First(w) = walkers["loop"].rest[1]
        BY <1>1, <2>1, FirstFacts
      <4>2. Once(walkers["loop"].rest)
        BY <1>1 DEF RoundInv
      <4> QED
        BY <1>5, <3>2, <4>1, <4>2 DEF Once
    <3> QED
      BY <1>5, <3>2, <3>3, <3>4
  <2>2. CASE w # "loop"
    <3>1. walkers'["loop"] = walkers["loop"]
      BY <1>1, <1>3, <2>2
    <3>2. ToStart(i)
      BY <1>5, <3>1 DEF ToStart
    <3> QED
      BY <1>5, <2>2, <3>1, <3>2
  <2> QED
    BY <2>1, <2>2
<1> QED
  BY <1>4, <1>5, LateKept

\* A run is counted only if the loop starts a dict that is switched on.
LEMMA StartedFacts ==
    ASSUME ScheduleInv, NEW w \in Walker, Reached(w),
           Selected(walkers[w].kind, Held(First(w))), Started(w, First(w).handle)
    PROVE  /\ late' \in [DOMAIN late' -> Nat] /\ DOMAIN late' = DOMAIN late
           /\ \A h \in DOMAIN late :
                 /\ late'[h] <= 1
                 /\ late'[h] = 1 => late[h] = 1 \/ (w = "loop" /\ h = First(w).handle)
<1> DEFINE h == First(w).handle
<1>1. /\ Types /\ RoundInv /\ LateInv /\ late \in [DOMAIN late -> Nat]
      /\ walkers[w].rest # <<>> /\ ~walkers[w].awaiting
      /\ \A k \in DOMAIN late : late[k] <= 1
  BY DEF ScheduleInv, Types, Reached, LateInv, StaysOff
<1>2. CASE ~(w = "loop" /\ h \in DOMAIN late)
  <2>1. late' = late
    BY <1>2 DEF Started
  <2> QED
    BY <1>1, <2>1
<1>3. CASE w = "loop" /\ h \in DOMAIN late
  <2>1. late' = [late EXCEPT ![h] = @ + 1]
    BY <1>3 DEF Started
  <2>2. Held(First(w)).enabled
    BY <1>1, <1>3 DEF Selected, LateInv
  <2>3. 1 \in DOMAIN walkers["loop"].rest /\ First(w) = walkers["loop"].rest[1]
    BY <1>1, <1>3, FirstFacts
  <2>4. ToStart(1)
    BY <1>1, <1>3 DEF ToStart
  <2>5. late[h] # 1
    BY <1>1, <1>3, <2>2, <2>3, <2>4 DEF LateInv, StaysOff
  <2>6. late[h] = 0
    BY <1>1, <1>3, <2>5
  <2> HIDE DEF h
  <2>7. /\ late' \in [DOMAIN late' -> Nat] /\ DOMAIN late' = DOMAIN late
        /\ late'[h] = 1 /\ \A k \in DOMAIN late : k # h => late'[k] = late[k]
    BY <1>1, <1>3, <2>1, <2>6
  <2>8. ASSUME NEW k \in DOMAIN late
        PROVE  late'[k] <= 1 /\ (late'[k] = 1 => late[k] = 1 \/ k = h)
    BY <1>1, <2>7
  <2> QED
    BY <1>3, <2>7, <2>8 DEF h
<1> QED
  BY <1>2, <1>3

LEMMA FinishFacts ==
    ASSUME ScheduleInv, NEW w \in Walker, walkers[w].rest # <<>>,
           NEW returned \in BOOLEAN, NEW persisted \in BOOLEAN,
           Finish(w, returned, persisted)
    PROVE  /\ dicts' \in [Handle -> Seq(Schedule)] /\ DictsKept
           /\ \A h \in Handle : Len(dicts'[h]) = Len(dicts[h])
           /\ HasNext'
           /\ store' \in [Handle -> Schedule \cup {NoDoc}]
           /\ walkers' = [walkers EXCEPT ![w] = After(walkers[w], persisted)]
           /\ failures' \in 0..MaxFailures /\ UNCHANGED <<revision, restarts>>
<1> DEFINE ref   == First(w)
           sched == IF returned THEN [Held(ref) EXCEPT !.next = "later"] ELSE Held(ref)
<1>1. Types /\ HasNext /\ RoundInv /\ dicts \in [Handle -> Seq(Schedule)]
  BY DEF ScheduleInv, Types
<1>2. ref \in Reference /\ ref.version <= Len(dicts[ref.handle])
  BY <1>1, FirstFacts
<1>3. /\ Held(ref) \in Schedule /\ ref.handle \in Handle /\ ref.version \in Nat
      /\ ref.version # 0 => /\ ref.version \in 1..Len(dicts[ref.handle])
                            /\ Held(ref) = dicts[ref.handle][ref.version]
  BY <1>1, <1>2, HeldFacts
<1>4. /\ sched \in Schedule /\ sched.enabled = Held(ref).enabled
      /\ sched.next \in {"later", Held(ref).next}
  BY <1>3, NextSet
<1>5. /\ Fail(IF returned /\ persisted THEN 0 ELSE 1)
      /\ dicts' = IF ref.version = 0 THEN dicts
                  ELSE [dicts EXCEPT ![ref.handle][ref.version] = sched]
      /\ store' = IF persisted THEN Persisted(store, ref.handle, sched) ELSE store
      /\ walkers' = [walkers EXCEPT ![w] = After(@, persisted)]
      /\ UNCHANGED <<revision, restarts>>
  BY DEF Finish
<1> HIDE DEF ref, sched
<1>6. /\ dicts' \in [Handle -> Seq(Schedule)] /\ DictsKept
      /\ \A h \in Handle : Len(dicts'[h]) = Len(dicts[h])
      /\ HasNext'
  <2>1. CASE ref.version = 0
    <3>1. dicts' = dicts
      BY <1>5, <2>1
    <3>2. DictsKept
      <4>1. \A h \in Handle : Len(dicts[h]) \in Nat
        BY <1>1
      <4> QED
        BY <3>1, <4>1 DEF DictsKept
    <3> QED
      BY <1>1, <3>1, <3>2 DEF HasNext
  <2>2. CASE ref.version # 0
    <3>1. ref.version \in 1..Len(dicts[ref.handle]) /\ sched.enabled = dicts[ref.handle][ref.version].enabled
      BY <1>3, <1>4, <2>2
    <3>2. dicts' = [dicts EXCEPT ![ref.handle][ref.version] = sched]
      BY <1>5, <2>2
    <3>3. /\ dicts' \in [Handle -> Seq(Schedule)] /\ DictsKept
          /\ \A h \in Handle : Len(dicts'[h]) = Len(dicts[h])
          /\ dicts'[ref.handle][ref.version] = sched
          /\ \A k \in Handle : \A n \in 1..Len(dicts[k]) :
                ~(k = ref.handle /\ n = ref.version) => dicts'[k][n] = dicts[k][n]
      <4>1. PICK h \in Handle, s \in Schedule : h = ref.handle /\ s = sched
        BY <1>3, <1>4
      <4>2. PICK v \in 1..Len(dicts[h]) : v = ref.version
        BY <3>1, <4>1
      <4>3. s.enabled = dicts[h][v].enabled /\ dicts' = [dicts EXCEPT ![h] = [dicts[h] EXCEPT ![v] = s]]
        BY <3>1, <3>2, <4>1, <4>2
      <4>4. dicts \in [Handle -> Seq(Schedule)]
        BY <1>1
      <4>5. dicts' \in [Handle -> Seq(Schedule)] /\ DictsKept
        BY <4>4, <4>3, DictChanged, Zenon
      <4>6. \A k \in Handle : Len(dicts'[k]) = Len(dicts[k])
        BY <4>4, <4>3, DictChanged, Zenon
      <4>7. dicts'[h][v] = s
        BY <4>4, <4>3, DictChanged, SMT
      <4>8. \A k \in Handle : \A n \in 1..Len(dicts[k]) :
                  ~(k = h /\ n = v) => dicts'[k][n] = dicts[k][n]
        BY <4>4, <4>3, DictChanged, SMT
      <4> QED
        BY <4>1, <4>2, <4>5, <4>6, <4>7, <4>8
    <3>4. sched.enabled => sched.next # "none"
      BY <1>1, <1>3, <1>4, <2>2, <3>1 DEF HasNext
    <3>5. ASSUME NEW k \in Handle, NEW n \in 1..Len(dicts'[k]), dicts'[k][n].enabled
          PROVE  dicts'[k][n].next # "none"
      <4>1. n \in 1..Len(dicts[k])
        BY <3>3
      <4> QED
        BY <1>1, <3>3, <3>4, <3>5, <4>1 DEF HasNext
    <3> QED
      BY <3>3, <3>5 DEF HasNext
  <2> QED
    BY <2>1, <2>2
<1>7. store' \in [Handle -> Schedule \cup {NoDoc}]
  BY <1>1, <1>3, <1>4, <1>5 DEF Types, Persisted
<1>8. failures' \in 0..MaxFailures
  BY <1>1, <1>5, FailFacts
<1> QED
  BY <1>5, <1>6, <1>7, <1>8

-----------------------------------------------------------------------------
(* The actions of the walkers *)

\* A step that leaves the dicts alone.
LEMMA DictsSame ==
    ASSUME Types, UNCHANGED dicts
    PROVE  /\ dicts' \in [Handle -> Seq(Schedule)] /\ DictsKept
           /\ \A h \in Handle : Len(dicts'[h]) = Len(dicts[h])
           /\ HasNext => HasNext'
<1>1. \A h \in Handle : Len(dicts[h]) \in Nat
  BY DEF Types
<1> QED
  BY <1>1 DEF Types, DictsKept, HasNext

\* Somebody begins with a list of the dicts in force.
LEMMA WalkKeeps ==
    ASSUME ScheduleInv, NEW w \in Walker, NEW kind \in {"poll", "all", "one"},
           w = "loop" => kind = "poll",
           NEW handles, NEW refs, IsListing(refs, handles), Walk(w, kind, refs)
    PROVE  ScheduleInv'
<1> DEFINE new == [kind |-> kind, rest |-> refs, awaiting |-> FALSE]
<1>1. Types /\ HasNext /\ RoundInv /\ AloneInv /\ LateInv
  BY DEF ScheduleInv
<1>2. /\ EventLoopFree /\ walkers' = [walkers EXCEPT ![w] = new]
      /\ UNCHANGED <<dicts, store, late, revision, failures, restarts>>
  BY DEF Walk
<1>3. /\ dicts' \in [Handle -> Seq(Schedule)] /\ DictsKept /\ HasNext'
  BY <1>1, <1>2, DictsSame
<1>4. new \in Walking /\ Once(new.rest) /\ ~new.awaiting /\ new.rest = refs
  BY DEF IsListing, Walking
<1>5. \A i \in DOMAIN refs : /\ refs[i] = Current(refs[i].handle) /\ refs[i].handle \in Handle
                             /\ refs[i] \in Reference
  <2>1. \A i \in DOMAIN refs : refs[i] \in Reference /\ refs[i] = Current(refs[i].handle)
    BY DEF IsListing
  <2> QED
    BY <2>1 DEF Reference
<1>6. \A i \in DOMAIN refs : refs[i].version = Len(dicts[refs[i].handle])
  BY <1>1, <1>5, GetScheduleFacts
<1>7. \A i \in DOMAIN refs : refs[i].version <= Len(dicts'[refs[i].handle])
  <2>1. \A i \in DOMAIN refs : Len(dicts[refs[i].handle]) \in Nat
    BY <1>1, <1>5, GetScheduleFacts
  <2> QED
    BY <1>2, <1>6, <2>1
<1>8. walkers' \in [Walker -> Walking] /\ RoundInv'
  <2> HIDE DEF new
  <2> QED
    BY <1>1, <1>2, <1>3, <1>4, <1>7, RoundKept
<1>9. AloneInv'
  BY <1>1, <1>2, AloneKept DEF Types, EventLoopFree
<1>10. Types'
  BY <1>1, <1>2, <1>8 DEF Types
<1>11. walkers'["loop"].kind = "poll"
  BY <1>1, <1>2 DEF LateInv, Types, Walker
<1>12. ASSUME NEW h \in DOMAIN late'
       PROVE  StaysOff(h)'
  <2>1. h \in DOMAIN late /\ h \in Handle /\ StaysOff(h) /\ late'[h] = late[h]
    BY <1>1, <1>2, <1>12 DEF Types, LateInv
  <2>2. dicts'[h] # <<>> /\ ~GetSchedule(h)'.enabled /\ late'[h] <= 1
    BY <1>2, <2>1 DEF StaysOff, GetSchedule, Current, Held
  <2>3. CASE w # "loop"
    <3>1. walkers'["loop"] = walkers["loop"]
      BY <1>1, <1>2, <2>3 DEF Types, Walker
    <3>2. \A i : ToStart(i)' = ToStart(i)
      BY <3>1 DEF ToStart
    <3> QED
      BY <1>1, <1>3, <2>1, <2>2, <3>1, <3>2, StaysOffKept
  <2>4. CASE w = "loop"
    <3>1. walkers'["loop"].rest = refs
      BY <1>1, <1>2, <2>4 DEF Types, Walker
    <3>2. ASSUME NEW i \in DOMAIN refs, refs[i].handle = h
          PROVE  ~(Held(walkers["loop"].rest[i]))'.enabled
      <4>1. refs[i] = Current(h)
        BY <1>5, <3>2
      <4>2. (Held(walkers["loop"].rest[i]))' = Held(Current(h))
        BY <1>2, <3>1, <4>1 DEF Held
      <4> QED
        BY <2>1, <4>2 DEF StaysOff, GetSchedule
    <3> QED
      BY <2>2, <3>1, <3>2 DEF StaysOff
  <2> QED
    BY <2>3, <2>4
<1>13. LateInv'
  BY <1>11, <1>12 DEF LateInv
<1> QED
  BY <1>3, <1>8, <1>9, <1>10, <1>13 DEF ScheduleInv

LEMMA OneListing ==
    ASSUME Types, NEW h \in Handle
    PROVE  IsListing(<<Current(h)>>, {h})
<1>1. Current(h) \in Reference /\ Current(h).handle = h
  BY GetScheduleFacts
<1> QED
  BY <1>1 DEF IsListing, Once

LEMMA StartsKeep ==
    ASSUME ScheduleInv,
           \/ StartRound
           \/ \E r \in Request : TriggerPatrolAll(r) \/ \E h \in Handle : TriggerRunNow(r, h)
    PROVE  ScheduleInv'
<1>1. Types /\ dicts \in [Handle -> Seq(Schedule)]
  BY DEF ScheduleInv, Types
<1>2. \A r \in Request : r \in Walker /\ r # "loop"
  BY RequestAssumption DEF Walker
<1>3. "loop" \in Walker
  BY DEF Walker
<1> DEFINE listed == {h \in Handle : dicts[h] # <<>>}
<1>4. IsListing(Snapshot, listed)
  BY <1>1, ListingFacts DEF Snapshot
<1>5. CASE StartRound
  <2>1. PICK refs : refs = Snapshot
    OBVIOUS
  <2>2. PICK handles : handles = listed
    OBVIOUS
  <2> QED
    BY <1>3, <1>4, <1>5, <2>1, <2>2, WalkKeeps DEF StartRound
<1>6. ASSUME NEW r \in Request, TriggerPatrolAll(r)
      PROVE  ScheduleInv'
  <2>1. PICK refs : refs = Snapshot
    OBVIOUS
  <2>2. PICK handles : handles = listed
    OBVIOUS
  <2> QED
    BY <1>2, <1>4, <1>6, <2>1, <2>2, WalkKeeps DEF TriggerPatrolAll
<1>7. ASSUME NEW r \in Request, NEW h \in Handle, TriggerRunNow(r, h)
      PROVE  ScheduleInv'
  <2>1. PICK refs : refs = <<Current(h)>>
    OBVIOUS
  <2>2. IsListing(refs, {h})
    BY <1>1, <2>1, OneListing
  <2> QED
    BY <1>2, <1>7, <2>1, <2>2, WalkKeeps DEF TriggerRunNow
<1> QED
  BY <1>5, <1>6, <1>7

LEMMA SkipKeeps ==
    ASSUME ScheduleInv, NEW w \in Walker, Skip(w)
    PROVE  ScheduleInv'
<1>1. Types /\ HasNext /\ AloneInv /\ LateInv
  BY DEF ScheduleInv
<1>2. /\ walkers[w].rest # <<>> /\ Reached(w)
      /\ walkers' = [walkers EXCEPT ![w] = After(walkers[w], TRUE)]
      /\ UNCHANGED <<dicts, store, late, revision, failures, restarts>>
  BY DEF Skip, Reached
<1>3. /\ dicts' \in [Handle -> Seq(Schedule)] /\ DictsKept /\ HasNext'
      /\ \A h \in Handle : Len(dicts'[h]) = Len(dicts[h])
  BY <1>1, <1>2, DictsSame
<1>4. \A v \in Walker \ {w} : ~Reached(v)
  BY <1>1, <1>2 DEF AloneInv
<1>5. walkers' \in [Walker -> Walking] /\ RoundInv' /\ AloneInv'
  BY <1>2, <1>3, <1>4, GoesOn
<1>6. LateInv'
  <2>1. \A h \in DOMAIN late : late'[h] <= 1 /\ late'[h] = late[h]
    BY <1>1, <1>2 DEF LateInv, StaysOff
  <2> QED
    BY <1>2, <1>3, <2>1, LateGoesOn
<1>7. Types'
  BY <1>1, <1>2, <1>3, <1>5 DEF Types
<1> QED
  BY <1>3, <1>5, <1>6, <1>7 DEF ScheduleInv

LEMMA RunPatrolKeeps ==
    ASSUME ScheduleInv, NEW w \in Walker, RunPatrol(w)
    PROVE  ScheduleInv'
<1>1. Types /\ AloneInv
  BY DEF ScheduleInv
<1>2. /\ walkers[w].rest # <<>> /\ Reached(w)
      /\ Selected(walkers[w].kind, Held(First(w))) /\ Started(w, First(w).handle)
  BY DEF RunPatrol, Reached
<1>3. PICK returned \in BOOLEAN, persisted \in BOOLEAN : Finish(w, returned, persisted)
  BY DEF RunPatrol
<1>4. /\ dicts' \in [Handle -> Seq(Schedule)] /\ DictsKept
      /\ \A h \in Handle : Len(dicts'[h]) = Len(dicts[h])
      /\ HasNext'
      /\ store' \in [Handle -> Schedule \cup {NoDoc}]
      /\ walkers' = [walkers EXCEPT ![w] = After(walkers[w], persisted)]
      /\ failures' \in 0..MaxFailures /\ UNCHANGED <<revision, restarts>>
  BY <1>2, <1>3, FinishFacts
<1>5. \A v \in Walker \ {w} : ~Reached(v)
  BY <1>1, <1>2 DEF AloneInv
<1>6. walkers' \in [Walker -> Walking] /\ RoundInv' /\ AloneInv'
  BY <1>2, <1>4, <1>5, GoesOn
<1>7. /\ late' \in [DOMAIN late' -> Nat] /\ DOMAIN late' = DOMAIN late
      /\ \A h \in DOMAIN late :
            /\ late'[h] <= 1
            /\ late'[h] = 1 => late[h] = 1 \/ (w = "loop" /\ h = First(w).handle)
  BY <1>2, StartedFacts
<1>8. LateInv'
  BY <1>2, <1>4, <1>7, LateGoesOn
<1>9. Types'
  BY <1>1, <1>4, <1>6, <1>7 DEF Types
<1> QED
  BY <1>4, <1>6, <1>8, <1>9 DEF ScheduleInv

LEMMA ChatReturnsKeeps ==
    ASSUME ScheduleInv, NEW w \in Walker, ChatReturns(w)
    PROVE  ScheduleInv'
<1>1. Types /\ RoundInv /\ LateInv
  BY DEF ScheduleInv
<1>2. walkers[w].rest # <<>> /\ EventLoopFree /\ UNCHANGED late
  BY <1>1 DEF ChatReturns, RoundInv
<1>3. PICK returned \in BOOLEAN, persisted \in BOOLEAN : Finish(w, returned, persisted)
  BY DEF ChatReturns
<1>4. /\ dicts' \in [Handle -> Seq(Schedule)] /\ DictsKept
      /\ \A h \in Handle : Len(dicts'[h]) = Len(dicts[h])
      /\ HasNext'
      /\ store' \in [Handle -> Schedule \cup {NoDoc}]
      /\ walkers' = [walkers EXCEPT ![w] = After(walkers[w], persisted)]
      /\ failures' \in 0..MaxFailures /\ UNCHANGED <<revision, restarts>>
  BY <1>2, <1>3, FinishFacts
<1>5. \A v \in Walker \ {w} : ~Reached(v)
  BY <1>2 DEF EventLoopFree
<1>6. walkers' \in [Walker -> Walking] /\ RoundInv' /\ AloneInv'
  BY <1>2, <1>4, <1>5, GoesOn
<1>7. LateInv'
  <2>1. \A h \in DOMAIN late : late'[h] <= 1 /\ late'[h] = late[h]
    BY <1>1, <1>2 DEF LateInv, StaysOff
  <2> QED
    BY <1>2, <1>4, <2>1, LateGoesOn
<1>8. Types'
  BY <1>1, <1>2, <1>4, <1>6 DEF Types
<1> QED
  BY <1>4, <1>6, <1>7, <1>8 DEF ScheduleInv

LEMMA AwaitChatKeeps ==
    ASSUME ScheduleInv, NEW w \in Walker, AwaitChat(w)
    PROVE  ScheduleInv'
<1> DEFINE new == [walkers[w] EXCEPT !.awaiting = TRUE]
<1>1. Types /\ HasNext /\ RoundInv /\ AloneInv /\ LateInv /\ walkers[w] \in Walking
  BY DEF ScheduleInv, Types
<1>2. /\ walkers[w].rest # <<>> /\ Reached(w) /\ First(w).handle \in Chat
      /\ Selected(walkers[w].kind, Held(First(w))) /\ Started(w, First(w).handle)
      /\ walkers' = [walkers EXCEPT ![w] = new]
      /\ UNCHANGED <<dicts, store, revision, failures, restarts>>
  BY DEF AwaitChat, Reached
<1>3. /\ dicts' \in [Handle -> Seq(Schedule)] /\ DictsKept /\ HasNext'
      /\ \A h \in Handle : Len(dicts'[h]) = Len(dicts[h])
  BY <1>1, <1>2, DictsSame
<1>4. \A v \in Walker \ {w} : ~Reached(v)
  BY <1>1, <1>2 DEF AloneInv
<1>5. /\ new \in Walking /\ new.rest = walkers[w].rest /\ new.awaiting
      /\ new.kind = walkers[w].kind
  BY <1>1 DEF Walking
<1>6. /\ Once(new.rest) /\ Head(new.rest).handle \in Chat
      /\ \A i \in DOMAIN new.rest : new.rest[i].version <= Len(dicts'[new.rest[i].handle])
  BY <1>1, <1>2, <1>5 DEF RoundInv, First
<1> HIDE DEF new
<1>7. walkers' \in [Walker -> Walking] /\ RoundInv' /\ AloneInv'
  <2>1. walkers \in [Walker -> Walking]
    BY <1>1 DEF Types
  <2>2. walkers' \in [Walker -> Walking] /\ RoundInv'
    BY <1>1, <1>2, <1>3, <1>5, <1>6, RoundKept
  <2>3. AloneInv'
    BY <1>2, <1>4, <2>1, AloneKept
  <2> QED
    BY <2>2, <2>3
<1>8. /\ late' \in [DOMAIN late' -> Nat] /\ DOMAIN late' = DOMAIN late
      /\ \A h \in DOMAIN late :
            /\ late'[h] <= 1
            /\ late'[h] = 1 => late[h] = 1 \/ (w = "loop" /\ h = First(w).handle)
  BY <1>2, StartedFacts
<1>9. /\ walkers["loop"].kind = "poll" /\ "loop" \in Walker
      /\ walkers \in [Walker -> Walking]
  BY <1>1 DEF LateInv, Walker, Types
<1>10. walkers'["loop"].kind = "poll" /\ walkers'["loop"].rest = walkers["loop"].rest
  BY <1>2, <1>5, <1>9
<1>11. ASSUME NEW h \in DOMAIN late, NEW i \in DOMAIN walkers["loop"].rest,
              late'[h] = 1, walkers["loop"].rest[i].handle = h, ToStart(i)'
       PROVE  late[h] = 1 /\ ToStart(i)
  <2>1. CASE w = "loop"
    <3>1. walkers'["loop"].awaiting
      BY <1>2, <1>5, <1>9, <2>1
    <3>2. i # 1
      BY <1>11, <3>1 DEF ToStart
    <3>3. 1 \in DOMAIN walkers["loop"].rest /\ First(w) = walkers["loop"].rest[1]
      BY <1>1, <1>2, <2>1, FirstFacts
    <3>4. h # First(w).handle
      <4>1. Once(walkers["loop"].rest)
        BY <1>1, <1>9 DEF RoundInv
      <4> QED
        BY <1>11, <3>2, <3>3, <4>1 DEF Once
    <3> QED
      BY <1>8, <1>11, <3>2, <3>4 DEF ToStart
  <2>2. CASE w # "loop"
    <3>1. walkers'["loop"] = walkers["loop"]
      BY <1>2, <1>9, <2>2
    <3> QED
      BY <1>8, <1>11, <2>2, <3>1 DEF ToStart
  <2> QED
    BY <2>1, <2>2
<1>12. LateInv'
  BY <1>3, <1>8, <1>10, <1>11, LateKept
<1>13. Types'
  BY <1>1, <1>2, <1>3, <1>7, <1>8 DEF Types
<1> QED
  BY <1>3, <1>7, <1>12, <1>13 DEF ScheduleInv

-----------------------------------------------------------------------------
(* Time and restarts *)

LEMMA ComesDueKeeps ==
    ASSUME ScheduleInv, NEW h \in Handle, ComesDue(h)
    PROVE  ScheduleInv'
<1>1. Types /\ HasNext /\ RoundInv /\ AloneInv /\ LateInv /\ dicts \in [Handle -> Seq(Schedule)]
  BY DEF ScheduleInv, Types
<1>2. /\ GetSchedule(h).next = "later"
      /\ dicts' = [dicts EXCEPT ![h][Len(dicts[h])].next = "due"]
      /\ UNCHANGED <<store, walkers, late, revision, failures, restarts>>
  BY DEF ComesDue
<1>3. dicts[h] # <<>>
  <2>1. SUFFICES ASSUME dicts[h] = <<>> PROVE FALSE
    OBVIOUS
  <2>2. GetSchedule(h) = Placeholder
    BY <2>1 DEF GetSchedule, Current, Held
  <2> QED
    BY <1>2, <2>2 DEF Placeholder
<1>4. PICK v \in 1..Len(dicts[h]) : v = Len(dicts[h]) /\ GetSchedule(h) = dicts[h][v]
  BY <1>1, <1>3, GetScheduleFacts
<1>5. dicts[h][v] \in Schedule
  BY <1>1, <1>4, GetScheduleFacts
<1>6. PICK s \in Schedule : s = [dicts[h][v] EXCEPT !.next = "due"]
  BY <1>5, NextSet
<1>7. s.enabled = dicts[h][v].enabled /\ s.next = "due"
  BY <1>5, <1>6, NextSet
<1>8. dicts' = [dicts EXCEPT ![h] = [dicts[h] EXCEPT ![v] = s]]
  BY <1>2, <1>4, <1>6
<1>9. dicts' \in [Handle -> Seq(Schedule)] /\ DictsKept
  BY <1>1, <1>7, <1>8, DictChanged, Zenon
<1>10. \A k \in Handle : Len(dicts'[k]) = Len(dicts[k])
  BY <1>1, <1>7, <1>8, DictChanged, Zenon
<1>11. dicts'[h][v] = s
  BY <1>1, <1>7, <1>8, DictChanged, SMT
<1>12. \A k \in Handle : \A n \in 1..Len(dicts[k]) :
           ~(k = h /\ n = v) => dicts'[k][n] = dicts[k][n]
  BY <1>1, <1>7, <1>8, DictChanged, SMT
<1>13. HasNext'
  <2>1. ASSUME NEW k \in Handle, NEW n \in 1..Len(dicts'[k]), dicts'[k][n].enabled
        PROVE  dicts'[k][n].next # "none"
    <3>1. n \in 1..Len(dicts[k])
      BY <1>10
    <3> QED
      BY <1>1, <1>7, <1>11, <1>12, <2>1, <3>1 DEF HasNext
  <2> QED
    BY <2>1 DEF HasNext
<1>14. RoundInv'
  BY <1>1, <1>2, <1>9, RoundUnmoved
<1>15. AloneInv'
  BY <1>1, <1>2 DEF AloneInv, Reached
<1>16. LateInv'
  <2>1. \A k \in DOMAIN late : late'[k] <= 1 /\ late'[k] = late[k]
    BY <1>1, <1>2 DEF LateInv, StaysOff
  <2>2. \A i : ToStart(i)' = ToStart(i)
    BY <1>2 DEF ToStart
  <2>3. walkers["loop"].kind = "poll"
    BY <1>1 DEF LateInv
  <2> QED
    BY <1>2, <1>9, <1>10, <2>1, <2>2, <2>3, LateKept
<1>17. Types'
  BY <1>1, <1>2, <1>9 DEF Types
<1> QED
  BY <1>13, <1>14, <1>15, <1>16, <1>17 DEF ScheduleInv

LEMMA LoadedFacts ==
    ASSUME NEW documents \in [Handle -> Schedule \cup {NoDoc}], NEW h \in Handle
    PROVE  Loaded(documents[h]) \in Schedule /\ Loaded(documents[h]).next # "none"
<1>1. CASE documents[h] = NoDoc
  BY <1>1, ScheduleFacts DEF Loaded
<1>2. CASE documents[h] # NoDoc
  <2>1. documents[h] \in Schedule /\ documents[h].next \in {"none", "later", "due"}
    BY <1>2 DEF Schedule
  <2>2. PICK s \in Schedule : s = documents[h]
    BY <2>1
  <2>3. PICK next \in {"none", "later", "due"} :
            next = (IF s.next = "none" THEN "later" ELSE s.next) /\ next # "none"
    BY <2>1, <2>2
  <2>4. Loaded(documents[h]) = [s EXCEPT !.next = next]
    BY <1>2, <2>2, <2>3 DEF Loaded
  <2> QED
    BY <2>3, <2>4, NextSet
<1> QED
  BY <1>1, <1>2

\* What is in memory after a start.
LEMMA AllLoadedFacts ==
    ASSUME NEW documents \in [Handle -> Schedule \cup {NoDoc}]
    PROVE  /\ AllLoaded(documents) \in [Handle -> Seq(Schedule)]
           /\ \A h \in Handle : \A v \in 1..Len(AllLoaded(documents)[h]) :
                 AllLoaded(documents)[h][v].next # "none"
<1>1. \A h \in Handle : AllLoaded(documents)[h] = IF h \in Default THEN <<Loaded(documents[h])>> ELSE <<>>
  BY DEF AllLoaded
<1>2. ASSUME NEW h \in Handle
      PROVE  /\ AllLoaded(documents)[h] \in Seq(Schedule)
             /\ \A v \in 1..Len(AllLoaded(documents)[h]) : AllLoaded(documents)[h][v].next # "none"
  <2>1. PICK s \in Schedule : s = Loaded(documents[h]) /\ s.next # "none"
    BY LoadedFacts
  <2>2. CASE h \in Default
    <3>1. AllLoaded(documents)[h] = <<s>>
      BY <1>1, <2>1, <2>2
    <3> QED
      BY <2>1, <3>1
  <2>3. CASE h \notin Default
    <3>1. AllLoaded(documents)[h] = <<>>
      BY <1>1, <2>3
    <3> QED
      BY <3>1
  <2> QED
    BY <2>2, <2>3
<1>3. AllLoaded(documents) = [h \in Handle |-> AllLoaded(documents)[h]]
  BY DEF AllLoaded
<1> QED
  BY <1>2, <1>3

LEMMA IdleFacts ==
    /\ Idle \in Walking /\ Idle.rest = <<>> /\ ~Idle.awaiting /\ Idle.kind = "poll"
    /\ Once(Idle.rest)
BY DEF Idle, Walking, Once

LEMMA InitHolds == Init => ScheduleInv
<1> SUFFICES ASSUME Init PROVE ScheduleInv
  OBVIOUS
<1>1. /\ store = [h \in Handle |-> NoDoc] /\ dicts = AllLoaded(store)
      /\ walkers = [w \in Walker |-> Idle] /\ late = <<>>
      /\ revision = 0 /\ failures = 0 /\ restarts = 0
  BY DEF Init
<1>2. store \in [Handle -> Schedule \cup {NoDoc}]
  BY <1>1
<1>3. /\ dicts \in [Handle -> Seq(Schedule)]
      /\ \A h \in Handle : \A v \in 1..Len(dicts[h]) : dicts[h][v].next # "none"
  <2>1. PICK documents \in [Handle -> Schedule \cup {NoDoc}] : documents = store
    BY <1>2
  <2> QED
    BY <1>1, <2>1, AllLoadedFacts
<1>4. \A w \in Walker : walkers[w] = Idle
  BY <1>1
<1>5. Types
  BY <1>1, <1>2, <1>3, IdleFacts, BoundAssumption DEF Types
<1>6. HasNext /\ RoundInv /\ AloneInv
  BY <1>3, <1>4, IdleFacts DEF HasNext, RoundInv, AloneInv, Reached
<1>7. LateInv
  BY <1>1, <1>4, IdleFacts DEF LateInv, Walker
<1> QED
  BY <1>5, <1>6, <1>7 DEF ScheduleInv

LEMMA RestartKeeps ==
    ASSUME ScheduleInv, Restart
    PROVE  ScheduleInv'
<1>1. Types
  BY DEF ScheduleInv
<1>2. /\ restarts < MaxRestarts /\ restarts' = restarts + 1
      /\ walkers' = [w \in Walker |-> Idle] /\ late' = <<>> /\ UNCHANGED <<store, revision>>
  BY DEF Restart
<1>3. PICK documents \in [Handle -> Schedule \cup {NoDoc}], n \in {0, 1} :
          dicts' = AllLoaded(documents) /\ Fail(n)
  <2>1. CASE Fail(0) /\ dicts' = AllLoaded(store)
    BY <1>1, <2>1 DEF Types
  <2>2. CASE \E h \in Default : Fail(1) /\ dicts' = AllLoaded([store EXCEPT ![h] = NoDoc])
    <3>1. PICK h \in Default : Fail(1) /\ dicts' = AllLoaded([store EXCEPT ![h] = NoDoc])
      BY <2>2
    <3>2. [store EXCEPT ![h] = NoDoc] \in [Handle -> Schedule \cup {NoDoc}]
      BY <1>1 DEF Types
    <3> QED
      BY <3>1, <3>2
  <2> QED
    BY <2>1, <2>2 DEF Restart
<1>4. /\ dicts' \in [Handle -> Seq(Schedule)]
      /\ \A h \in Handle : \A v \in 1..Len(dicts'[h]) : dicts'[h][v].next # "none"
  BY <1>3, AllLoadedFacts
<1>5. \A w \in Walker : walkers'[w] = Idle
  BY <1>2
<1>6. failures' \in 0..MaxFailures /\ restarts' \in 0..MaxRestarts
  BY <1>1, <1>2, <1>3, FailFacts, BoundAssumption DEF Types
<1>7. Types'
  BY <1>1, <1>2, <1>4, <1>6, IdleFacts DEF Types
<1>8. HasNext' /\ RoundInv' /\ AloneInv'
  BY <1>4, <1>5, IdleFacts DEF HasNext, RoundInv, AloneInv, Reached
<1>9. LateInv'
  BY <1>2, <1>5, IdleFacts DEF LateInv, Walker
<1> QED
  BY <1>7, <1>8, <1>9 DEF ScheduleInv

-----------------------------------------------------------------------------
(* The theorems *)

LEMMA StutterKeeps ==
    ASSUME ScheduleInv, UNCHANGED vars
    PROVE  ScheduleInv'
<1>1. UNCHANGED <<dicts, store, walkers, late, revision, failures, restarts>>
  BY DEF vars
<1>2. Types' /\ HasNext' /\ RoundInv' /\ AloneInv'
  BY <1>1 DEF ScheduleInv, Types, HasNext, RoundInv, First, AloneInv, Reached
<1>3. LateInv'
  BY <1>1 DEF ScheduleInv, LateInv, StaysOff, ToStart, GetSchedule, Current, Held
<1> QED
  BY <1>2, <1>3 DEF ScheduleInv

LEMMA NextKeeps ==
    ASSUME ScheduleInv, Next
    PROVE  ScheduleInv'
<1>1. CASE \E h \in Handle, enabled \in BOOLEAN : UpdateSchedule(h, enabled)
  BY <1>1, UpdateScheduleKeeps
<1>2. CASE \E h \in Handle : UpdateAgentConfig(h) \/ ComesDue(h)
  BY <1>2, UpdateAgentConfigKeeps, ComesDueKeeps
<1>3. CASE \E r \in Request : TriggerPatrolAll(r) \/ \E h \in Handle : TriggerRunNow(r, h)
  BY <1>3, StartsKeep
<1>4. CASE StartRound
  BY <1>4, StartsKeep
<1>5. CASE \E w \in Walker : Step(w)
  BY <1>5, SkipKeeps, RunPatrolKeeps, AwaitChatKeeps, ChatReturnsKeeps DEF Step
<1>6. CASE Restart
  BY <1>6, RestartKeeps
<1> QED
  BY <1>1, <1>2, <1>3, <1>4, <1>5, <1>6 DEF Next

THEOREM ScheduleInvariant == Spec => []ScheduleInv
<1>1. ScheduleInv /\ [Next]_vars => ScheduleInv'
  BY NextKeeps, StutterKeeps
<1> QED
  BY <1>1, InitHolds, PTL DEF Spec

\* A round of the loop, or a request for all patrols, takes up every patrol that has a
\* schedule, once, and with the dict in force.
RoundIsWhole ==
    [][\A w \in Walker :
          (IF w = "loop" THEN StartRound ELSE TriggerPatrolAll(w)) =>
              /\ Once(walkers'[w].rest)
              /\ \A h \in Handle : dicts[h] # <<>> =>
                    \E i \in DOMAIN walkers'[w].rest : walkers'[w].rest[i] = Current(h)]_vars

\* The schedules are well formed whatever the operator, the loop and the requests
\* do to them: a patrol that is switched on has a next run, even if its dict was
\* loaded from a document that another run had persisted; and no two walkers have
\* the event loop (_execute_scheduled_task, update_schedule).
THEOREM SchedulesWellFormed == Spec => []ScheduleTypeOK
<1>1. ScheduleInv => ScheduleTypeOK
  <2> SUFFICES ASSUME ScheduleInv PROVE ScheduleTypeOK
    OBVIOUS
  <2>1. Types /\ HasNext /\ RoundInv /\ AloneInv
    BY DEF ScheduleInv
  <2>2. \A h \in Handle : GetSchedule(h).enabled => GetSchedule(h).next # "none"
    <3>1. ASSUME NEW h \in Handle, GetSchedule(h).enabled
          PROVE  GetSchedule(h).next # "none"
      <4>1. CASE dicts[h] = <<>>
        <5>1. GetSchedule(h) = Placeholder
          BY <4>1 DEF GetSchedule, Current, Held
        <5> QED
          BY <3>1, <5>1, ScheduleFacts
      <4>2. CASE dicts[h] # <<>>
        BY <2>1, <3>1, <4>2, GetScheduleFacts DEF HasNext
      <4> QED
        BY <4>1, <4>2
    <3> QED
      BY <3>1
  <2>3. ASSUME NEW w \in Walker
        PROVE  /\ walkers[w].kind \in {"poll", "all", "one"}
               /\ walkers[w].rest \in Seq(Reference) /\ IsInjective(walkers[w].rest)
               /\ \A i \in DOMAIN walkers[w].rest :
                     walkers[w].rest[i].version <= Len(dicts[walkers[w].rest[i].handle])
               /\ Reached(w) => \A v \in Walker : Reached(v) => v = w
               /\ walkers[w].awaiting => walkers[w].rest # <<>> /\ First(w).handle \in Chat
    <3>1. walkers[w].kind \in {"poll", "all", "one"} /\ walkers[w].rest \in Seq(Reference)
      BY <2>1 DEF Types, Walking
    <3>2. IsInjective(walkers[w].rest)
      BY <2>1 DEF RoundInv, Once, IsInjective
    <3> QED
      BY <2>1, <3>1, <3>2 DEF RoundInv, AloneInv
  <2> QED
    BY <2>1, <2>2, <2>3 DEF Types, ScheduleTypeOK
<1> QED
  BY <1>1, ScheduleInvariant, PTL

\* A patrol that the operator has switched off is run by the loop at most once more,
\* for the dict that a round under way had already listed, however its schedule is
\* changed, run by hand, persisted and reloaded meanwhile (update_schedule, which
\* replaces the dict, and the loop over list(self._schedules.items())).
THEOREM SwitchedOffPatrolsStop == Spec => []SwitchedOffStops
<1>1. ScheduleInv => SwitchedOffStops
  BY DEF ScheduleInv, LateInv, StaysOff, SwitchedOffStops
<1> QED
  BY <1>1, ScheduleInvariant, PTL

\* No patrol is left out of a round, nor is one run twice in it, however many there
\* are: the safety half of DuePatrolRuns (_worker_loop and trigger_patrol_all, over
\* list(self._schedules.items())).
THEOREM RoundsAreWhole == Spec => RoundIsWhole
<1> DEFINE Whole(w) == /\ Once(walkers'[w].rest)
                       /\ \A h \in Handle : dicts[h] # <<>> =>
                             \E i \in DOMAIN walkers'[w].rest : walkers'[w].rest[i] = Current(h)
           Starts(w) == IF w = "loop" THEN StartRound ELSE TriggerPatrolAll(w)
<1>1. ASSUME ScheduleInv, NEW w \in Walker, Starts(w)
      PROVE  Whole(w)
  <2>1. Types /\ dicts \in [Handle -> Seq(Schedule)] /\ walkers \in [Walker -> Walking]
    BY <1>1 DEF ScheduleInv, Types
  <2>2. PICK kind \in {"poll", "all"} : Walk(w, kind, Snapshot)
    BY <1>1 DEF StartRound, TriggerPatrolAll
  <2>3. walkers' = [walkers EXCEPT ![w] = [kind |-> kind, rest |-> Snapshot, awaiting |-> FALSE]]
    BY <2>2 DEF Walk
  <2>4. walkers'[w].rest = Snapshot
    BY <2>1, <2>3
  <2> DEFINE listed == {h \in Handle : dicts[h] # <<>>}
  <2>5. IsListing(Snapshot, listed) /\ IsComplete(Snapshot, listed)
    BY <2>1, ListingFacts DEF Snapshot
  <2> QED
    BY <2>4, <2>5 DEF IsListing, IsComplete
<1>2. ScheduleInv /\ [Next]_vars => [\A w \in Walker : Starts(w) => Whole(w)]_vars
  BY <1>1
<1> QED
  BY <1>2, ScheduleInvariant, PTL DEF Spec, RoundIsWhole
=============================================================================
