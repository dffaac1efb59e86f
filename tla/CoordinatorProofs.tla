------------------------- MODULE CoordinatorProofs -------------------------
(***************************************************************************)
(* Proofs about Coordinator, for any backlog, any number of batchers, any  *)
(* batch size and concurrency.                                             *)
(***************************************************************************)
EXTENDS Coordinator, FiniteSetTheorems, TLAPS

(* The hands are empty where nothing is held, and a task holds a permit    *)
(* for each of its jobs until it reports.                                  *)
HandsOK ==
    /\ dpc = "send" <=> djob # None
    /\ cpc \in {"load", "route"} <=> cjob # None
GroupsOK ==
    \A g \in groups :
        /\ g.pc # "report" => g.hold = g.jobs /\ g.todo \subseteq g.jobs
        /\ g.pc = "report" => g.hold = {}

(* The jobs a task has not yet settled or abandoned. *)
Owed(g) == IF g.pc \in {"settle", "reject"} THEN g.todo ELSE g.hold
Owned == ({djob, cjob} \ {None}) \cup Range(chan) \cup InBatchers \cup UNION {Owed(g) : g \in groups}
Accounted == processing \subseteq left \cup Owned

(* Once the coordinator has waited for the permits and not in vain, no job *)
(* can come to be held: the dispatcher does not pop any more.              *)
Drained ==
    /\ cpc \in {"wait", "join"} => cancelled
    /\ cpc = "join" /\ ~timedOut => Held = {} /\ dpc \notin {"pop", "send"}

CoordinatorInv == TypeOK /\ HandsOK /\ GroupsOK /\ Accounted /\ Drained

---------------------------------------------------------------------------
(* Channels *)

LEMMA RangeAppend ==
    ASSUME NEW S, NEW s \in Seq(S), NEW x \in S
    PROVE  Append(s, x) \in Seq(S) /\ Len(Append(s, x)) = Len(s) + 1 /\ Range(Append(s, x)) = Range(s) \cup {x}
<1>1. Append(s, x) \in Seq(S) /\ Len(Append(s, x)) = Len(s) + 1 /\ Len(s) \in Nat
  OBVIOUS
<1>2. Append(s, x)[Len(s) + 1] = x /\ \A i \in 1..Len(s) : Append(s, x)[i] = s[i]
  OBVIOUS
<1>3. Range(Append(s, x)) \subseteq Range(s) \cup {x}
  <2>1. ASSUME NEW i \in 1..(Len(s) + 1) PROVE Append(s, x)[i] \in Range(s) \cup {x}
    <3>1. i = Len(s) + 1 \/ i \in 1..Len(s)
      BY <1>1
    <3> QED
      BY <1>2, <3>1 DEF Range
  <2> QED
    BY <1>1, <2>1 DEF Range
<1>4. Range(s) \cup {x} \subseteq Range(Append(s, x))
  <2>1. ASSUME NEW i \in 1..Len(s) PROVE s[i] \in Range(Append(s, x))
    <3>1. i \in DOMAIN Append(s, x)
      BY <1>1
    <3> QED
      BY <1>2, <3>1 DEF Range
  <2>2. Len(s) + 1 \in DOMAIN Append(s, x)
    BY <1>1
  <2> QED
    BY <1>2, <2>1, <2>2 DEF Range
<1> QED
  BY <1>1, <1>3, <1>4

LEMMA RangeSplit ==
    ASSUME NEW S, NEW s \in Seq(S), s # <<>>
    PROVE  /\ Head(s) \in S /\ Tail(s) \in Seq(S) /\ Len(Tail(s)) = Len(s) - 1
           /\ Range(s) = {Head(s)} \cup Range(Tail(s))
<1>1. Len(s) \in Nat \ {0} /\ Head(s) = s[1] /\ Head(s) \in S
  OBVIOUS
<1>2. Tail(s) \in Seq(S) /\ Len(Tail(s)) = Len(s) - 1 /\ \A i \in 1..(Len(s) - 1) : Tail(s)[i] = s[i + 1]
  OBVIOUS
<1>3. ASSUME NEW i \in 1..Len(s) PROVE s[i] \in {Head(s)} \cup Range(Tail(s))
  <2>1. CASE i = 1
    BY <1>1, <2>1
  <2>2. CASE i # 1
    <3>1. i - 1 \in DOMAIN Tail(s) /\ Tail(s)[i - 1] = s[i]
      BY <1>1, <1>2, <2>2
    <3> QED
      BY <3>1 DEF Range
  <2> QED
    BY <2>1, <2>2
<1>4. ASSUME NEW i \in 1..(Len(s) - 1) PROVE Tail(s)[i] \in Range(s)
  <2>1. i + 1 \in DOMAIN s /\ Tail(s)[i] = s[i + 1]
    BY <1>1, <1>2
  <2> QED
    BY <2>1 DEF Range
<1>5. Range(s) \subseteq {Head(s)} \cup Range(Tail(s))
  BY <1>3 DEF Range
<1>6. {Head(s)} \cup Range(Tail(s)) \subseteq Range(s)
  BY <1>1, <1>2, <1>4 DEF Range
<1> QED
  BY <1>1, <1>2, <1>5, <1>6

LEMMA RangeEmpty == Range(<<>>) = {}
BY DEF Range

LEMMA RangeIn == ASSUME NEW S, NEW s \in Seq(S) PROVE Range(s) \subseteq S
BY DEF Range

---------------------------------------------------------------------------
(* Types, by component *)

ListsOK == waiting \in Seq(Job) /\ processing \subseteq Job /\ settled \subseteq Job /\ left \subseteq Job
FrontOK ==
    /\ dpc \in {"acquire", "pop", "late", "send", "stopped"} /\ djob \in Job \cup {None}
    /\ chan \in Seq(Job) /\ Len(chan) <= Concurrency
    /\ cpc \in {"select", "load", "route", "wait", "join", "ok", "err"} /\ cjob \in Job \cup {None}
    /\ current \in Batcher \cup {None}
BatchersOK ==
    /\ bpc \in [Batcher -> BatchPcs]
    /\ bchan \in [Batcher -> Seq(Batched)]
    /\ bpend \in [Batcher -> SUBSET Batched]
    /\ \A b \in Batcher : Len(bchan[b]) <= 2 * Size /\ Cardinality(bpend[b]) < Size
FlagsOK == {taskError, batchError, queueError, cancelled, timedOut} \subseteq BOOLEAN
ErrorsOK == errors \in 0..MaxErrors

LEMMA TypeParts ==
    TypeOK <=> ListsOK /\ FrontOK /\ BatchersOK /\ groups \subseteq Group /\ FlagsOK /\ ErrorsOK
BY DEF TypeOK, ListsOK, FrontOK, BatchersOK, FlagsOK, ErrorsOK

LEMMA TypePartsNext ==
    TypeOK' <=> ListsOK' /\ FrontOK' /\ BatchersOK' /\ groups' \subseteq Group /\ FlagsOK' /\ ErrorsOK'
BY DEF TypeOK, ListsOK, FrontOK, BatchersOK, FlagsOK, ErrorsOK

LEMMA Sizes ==
    /\ Size \in Nat \ {0} /\ Concurrency \in Nat \ {0} /\ MaxErrors \in Nat
    /\ \A S \in SUBSET Job : IsFiniteSet(S) /\ Cardinality(S) \in Nat
    /\ \A S \in SUBSET Batched : S \in SUBSET Job
BY SizesAssumption, JobsAssumption, FS_Subset, FS_CardinalityType

LEMMA ErrorSpent == ASSUME ErrorsOK, RedisError PROVE ErrorsOK'
BY Sizes DEF ErrorsOK, RedisError

LEMMA PartsSame ==
    ASSUME TypeOK
    PROVE  /\ UNCHANGED <<lists, left>> => ListsOK'
           /\ UNCHANGED <<dispatcher, chan, coordinator>> => FrontOK'
           /\ UNCHANGED batchers => BatchersOK'
           /\ UNCHANGED groups => groups' \subseteq Group
           /\ UNCHANGED <<failing, ending>> => FlagsOK'
           /\ UNCHANGED errors => ErrorsOK'
<1>1. UNCHANGED <<lists, left>> => ListsOK'
  BY TypeParts DEF ListsOK, lists
<1>2. UNCHANGED <<dispatcher, chan, coordinator>> => FrontOK'
  BY TypeParts DEF FrontOK, dispatcher, coordinator
<1>3. UNCHANGED batchers => BatchersOK'
  BY TypeParts DEF BatchersOK, batchers
<1>4. UNCHANGED <<failing, ending>> => FlagsOK'
  BY TypeParts DEF FlagsOK, failing, ending
<1>5. UNCHANGED errors => ErrorsOK'
  BY TypeParts DEF ErrorsOK
<1> QED
  BY <1>1, <1>2, <1>3, <1>4, <1>5, TypeParts

LEMMA NewGroupType ==
    ASSUME NEW jobs \in SUBSET Job, NEW isBatch \in BOOLEAN
    PROVE  NewGroup(jobs, isBatch) \in Group
BY JobsAssumption DEF NewGroup, Group

LEMMA TypeInit == Init => TypeOK
<1> SUFFICES ASSUME Init PROVE TypeOK
  OBVIOUS
<1>1. ListsOK /\ FrontOK
  BY JobsAssumption, Sizes DEF Init, ListsOK, FrontOK
<1>2. BatchersOK
  BY Sizes, FS_EmptySet DEF Init, BatchersOK, BatchPcs
<1>3. FlagsOK
  BY Zenon DEF Init, FlagsOK
<1>4. ErrorsOK
  BY Sizes DEF Init, ErrorsOK
<1> QED
  BY <1>1, <1>2, <1>3, <1>4, TypeParts DEF Init

LEMMA DispatchType ==
    ASSUME TypeOK, HandsOK, Dispatch \/ PopFails \/ WatchFails
    PROVE  TypeOK'
<1>0. ListsOK /\ FrontOK /\ ErrorsOK /\ FlagsOK
  BY TypeParts
<1>1. CASE Acquire
  BY <1>0, <1>1, PartsSame, TypePartsNext DEF Acquire, FrontOK, coordinator
<1>2. ASSUME waiting # <<>> PROVE Head(waiting) \in Job /\ Tail(waiting) \in Seq(Job)
  BY <1>0, <1>2, RangeSplit DEF ListsOK
<1>3. CASE Pop
  <2>1. ListsOK'
    BY <1>0, <1>2, <1>3 DEF Pop, ListsOK
  <2>2. FrontOK'
    BY <1>0, <1>2, <1>3 DEF Pop, FrontOK, coordinator
  <2> QED
    BY <1>3, <2>1, <2>2, PartsSame, TypePartsNext DEF Pop
<1>4. CASE PopFails
  <2>1. FrontOK' /\ ErrorsOK'
    BY <1>0, <1>4, ErrorSpent DEF PopFails, FrontOK, coordinator
  <2>2. ListsOK'
    BY <1>0, <1>2, <1>4 DEF PopFails, PopUnread, ListsOK
  <2>3. FlagsOK'
    BY <1>0, <1>4, Zenon DEF PopFails, FlagsOK, ending
  <2> QED
    BY <1>4, <2>1, <2>2, <2>3, PartsSame, TypePartsNext DEF PopFails
<1>5. CASE StopDispatcher
  <2>1. ListsOK'
    BY <1>0, <1>2, <1>5 DEF StopDispatcher, PopUnread, ListsOK
  <2>2. FrontOK'
    BY <1>0, <1>5 DEF StopDispatcher, FrontOK, coordinator
  <2> QED
    BY <1>5, <2>1, <2>2, PartsSame, TypePartsNext DEF StopDispatcher
<1>6. CASE SendJob
  <2>0. djob \in Job
    BY <1>0, <1>6 DEF SendJob, FrontOK, HandsOK
  <2>1. Append(chan, djob) \in Seq(Job) /\ Len(Append(chan, djob)) = Len(chan) + 1
    BY <1>0, <2>0, RangeAppend DEF FrontOK
  <2>2. ListsOK'
    BY <1>0, <1>6, <2>0 DEF SendJob, ListsOK, lists
  <2>3. FrontOK'
    BY <1>0, <1>6, <2>1, Sizes DEF SendJob, FrontOK, coordinator
  <2> QED
    BY <1>6, <2>2, <2>3, PartsSame, TypePartsNext DEF SendJob
<1>7. CASE WatchFails
  <2>1. ErrorsOK'
    BY <1>0, <1>7, ErrorSpent DEF WatchFails
  <2>2. FlagsOK'
    BY <1>0, <1>7, Zenon DEF WatchFails, FlagsOK, ending
  <2> QED
    BY <1>7, <2>1, <2>2, PartsSame, TypePartsNext DEF WatchFails
<1> QED
  BY <1>1, <1>3, <1>4, <1>5, <1>6, <1>7 DEF Dispatch

LEMMA RouteType ==
    ASSUME TypeOK, HandsOK, Route
    PROVE  TypeOK'
<1>0. ListsOK /\ FrontOK /\ BatchersOK /\ ErrorsOK /\ groups \subseteq Group
  BY TypeParts
<1>1. CASE Receive
  <2>1. Head(chan) \in Job /\ Tail(chan) \in Seq(Job) /\ Len(Tail(chan)) = Len(chan) - 1
    BY <1>0, <1>1, RangeSplit DEF Receive, FrontOK
  <2>2. FrontOK'
    BY <1>0, <1>1, <2>1, Sizes DEF Receive, FrontOK, dispatcher
  <2> QED
    BY <1>1, <2>2, PartsSame, TypePartsNext DEF Receive
<1>2. cpc \in {"load", "route"} => cjob \in Job
  BY <1>0 DEF FrontOK, HandsOK
<1>3. CASE LoadPendingJob
  <2>1. FrontOK'
    BY <1>0, <1>3 DEF LoadPendingJob, FrontOK, dispatcher
  <2>2. ListsOK' /\ ErrorsOK'
    BY <1>0, <1>2, <1>3, ErrorSpent, PartsSame DEF LoadPendingJob, ListsOK, lists
  <2> QED
    BY <1>3, <2>1, <2>2, PartsSame, TypePartsNext DEF LoadPendingJob
<1>4. CASE SpawnJob
  <2>1. FrontOK'
    BY <1>0, <1>4 DEF SpawnJob, FrontOK, dispatcher
  <2>2. groups' \subseteq Group
    <3>1. {cjob} \in SUBSET Job
      BY <1>2, <1>4 DEF SpawnJob
    <3>2. NewGroup({cjob}, FALSE) \in Group
      BY <3>1, NewGroupType
    <3> QED
      BY <1>0, <1>4, <3>2 DEF SpawnJob
  <2> QED
    BY <1>4, <2>1, <2>2, PartsSame, TypePartsNext DEF SpawnJob
<1>5. CASE SpawnBatcher
  <2>1. FrontOK' /\ BatchersOK'
    BY <1>0, <1>5 DEF SpawnBatcher, FrontOK, BatchersOK, BatchPcs, dispatcher
  <2> QED
    BY <1>5, <2>1, PartsSame, TypePartsNext DEF SpawnBatcher
<1>6. CASE SendToBatcher
  <2>1. current \in Batcher /\ bchan[current] \in Seq(Batched) /\ cjob \in Batched
    BY <1>0, <1>6 DEF SendToBatcher, FrontOK, BatchersOK
  <2>2. /\ Append(bchan[current], cjob) \in Seq(Batched)
        /\ Len(Append(bchan[current], cjob)) <= 2 * Size
    BY <1>6, <2>1, RangeAppend, Sizes DEF SendToBatcher
  <2>3. BatchersOK'
    BY <1>0, <1>6, <2>1, <2>2 DEF SendToBatcher, BatchersOK
  <2>4. FrontOK'
    BY <1>0, <1>6 DEF SendToBatcher, FrontOK, dispatcher
  <2> QED
    BY <1>6, <2>3, <2>4, PartsSame, TypePartsNext DEF SendToBatcher
<1>7. CASE SendRefused
  <2>1. FrontOK'
    BY <1>0, <1>7 DEF SendRefused, FrontOK, dispatcher
  <2> QED
    BY <1>7, <2>1, PartsSame, TypePartsNext DEF SendRefused
<1> QED
  BY <1>1, <1>3, <1>4, <1>5, <1>6, <1>7 DEF Route

LEMMA StopType ==
    ASSUME TypeOK, Stop \/ Cancel
    PROVE  TypeOK'
<1>0. ListsOK /\ FrontOK /\ groups \subseteq Group /\ FlagsOK
  BY TypeParts
<1>1. ASSUME NEW r \in {"ok", "err"}, Return(r), UNCHANGED <<lists, dispatcher, cjob>>
      PROVE  ListsOK' /\ FrontOK' /\ groups' \subseteq Group
  <2>1. Range(chan) \subseteq Job
    BY <1>0, RangeIn DEF FrontOK
  <2>2. UNION {g.jobs : g \in {h \in groups : ~h.batch}} \subseteq Job
    BY <1>0 DEF Group
  <2>3. ListsOK'
    BY <1>0, <1>1, <2>1, <2>2 DEF Return, ListsOK, lists
  <2>4. FrontOK'
    BY <1>0, <1>1, Sizes DEF Return, FrontOK, dispatcher
  <2> QED
    BY <1>0, <1>1, <2>3, <2>4 DEF Return
<1>2. CASE ReturnError
  <2>1. FlagsOK'
    BY <1>0, <1>2, Zenon DEF ReturnError, FlagsOK, failing
  <2> QED
    BY <1>1, <1>2, <2>1, PartsSame, TypePartsNext DEF ReturnError
<1>3. CASE Join
  BY <1>1, <1>3, PartsSame, TypePartsNext DEF Join
<1>4. CASE Break \/ WaitForWorkers
  <2>1. FrontOK'
    BY <1>0, <1>4 DEF Break, WaitForWorkers, FrontOK, dispatcher
  <2> QED
    BY <1>4, <2>1, PartsSame, TypePartsNext DEF Break, WaitForWorkers
<1>5. CASE Timeout \/ Cancel
  <2>1. FlagsOK'
    BY <1>0, <1>5, Zenon DEF Timeout, Cancel, FlagsOK, failing
  <2> QED
    BY <1>5, <2>1, PartsSame, TypePartsNext DEF Timeout, Cancel
<1> QED
  BY <1>2, <1>3, <1>4, <1>5 DEF Stop

(* A batcher starts a batch, its channel being typed. *)
LEMMA SpawnBatchType ==
    ASSUME TypeOK, NEW b \in Batcher, NEW jobs \in SUBSET Batched, NEW next \in BatchPcs,
           SpawnBatch(b, jobs, next), bchan' \in [Batcher -> Seq(Batched)],
           \A c \in Batcher : Len(bchan'[c]) <= 2 * Size
    PROVE  BatchersOK' /\ groups' \subseteq Group
<1>1. NewGroup(jobs, TRUE) \in Group /\ groups \subseteq Group /\ BatchersOK
  BY Sizes, NewGroupType, TypeParts
<1>2. Cardinality({}) < Size
  BY Sizes, FS_EmptySet
<1>3. /\ bpend' = [bpend EXCEPT ![b] = {}] /\ bpc' = [bpc EXCEPT ![b] = next]
      /\ groups' = groups \/ groups' = groups \cup {NewGroup(jobs, TRUE)}
  BY DEF SpawnBatch
<1> QED
  BY <1>1, <1>2, <1>3 DEF BatchersOK

(* A batcher takes a job from its channel. *)
LEMMA TakeType ==
    ASSUME TypeOK, NEW b \in Batcher, bchan[b] # <<>>, bchan' = [bchan EXCEPT ![b] = Tail(@)]
    PROVE  /\ Head(bchan[b]) \in Batched /\ bpend[b] \cup {Head(bchan[b])} \in SUBSET Batched
           /\ bchan' \in [Batcher -> Seq(Batched)]
           /\ \A c \in Batcher : Len(bchan'[c]) <= 2 * Size
<1>1. BatchersOK /\ bchan[b] \in Seq(Batched)
  BY TypeParts DEF BatchersOK
<1>2. Head(bchan[b]) \in Batched /\ Tail(bchan[b]) \in Seq(Batched) /\ Len(Tail(bchan[b])) <= 2 * Size
  BY <1>1, RangeSplit, Sizes DEF BatchersOK
<1> QED
  BY <1>1, <1>2 DEF BatchersOK

LEMMA BatchType ==
    ASSUME TypeOK, NEW b \in Batcher, Batch(b)
    PROVE  TypeOK'
<1>0. BatchersOK
  BY TypeParts
<1> SUFFICES BatchersOK' /\ groups' \subseteq Group
  BY PartsSame, TypePartsNext DEF Batch, BatcherReceive, BatchTimeout, BatcherDisconnected,
     BatcherCancelled, FlushBatcher
<1>a. /\ UNCHANGED bchan => bchan' \in [Batcher -> Seq(Batched)] /\ \A c \in Batcher : Len(bchan'[c]) <= 2 * Size
      /\ bpend[b] \in SUBSET Batched
      /\ "first" \in BatchPcs /\ "fill" \in BatchPcs /\ "flush" \in BatchPcs /\ "unborn" \in BatchPcs
  BY <1>0 DEF BatchersOK, BatchPcs
<1>1. ASSUME NEW jobs \in SUBSET Batched, NEW next \in BatchPcs, ~(Cardinality(jobs) >= Size),
             bpend' = [bpend EXCEPT ![b] = jobs], bpc' = [bpc EXCEPT ![b] = next] \/ UNCHANGED bpc,
             UNCHANGED groups, bchan' \in [Batcher -> Seq(Batched)],
             \A c \in Batcher : Len(bchan'[c]) <= 2 * Size
      PROVE  BatchersOK' /\ groups' \subseteq Group
  <2>1. Cardinality(jobs) < Size
    BY <1>1, Sizes
  <2> QED
    BY <1>0, <1>1, <2>1, TypeParts DEF BatchersOK
<1>2. CASE BatcherReceive(b)
  <2> DEFINE jobs == bpend[b] \cup {Head(bchan[b])}
  <2>1. /\ jobs \in SUBSET Batched /\ bchan' \in [Batcher -> Seq(Batched)]
        /\ \A c \in Batcher : Len(bchan'[c]) <= 2 * Size
    BY <1>2, TakeType DEF BatcherReceive
  <2>2. CASE Cardinality(jobs) >= Size
    BY <1>2, <1>a, <2>1, <2>2, SpawnBatchType DEF BatcherReceive
  <2>3. CASE ~(Cardinality(jobs) >= Size)
    BY <1>1, <1>2, <1>a, <2>1, <2>3 DEF BatcherReceive
  <2> QED
    BY <2>2, <2>3
<1>3. CASE BatchTimeout(b) \/ BatcherDisconnected(b)
  BY <1>3, <1>a, SpawnBatchType DEF BatchTimeout, BatcherDisconnected
<1>4. CASE BatcherCancelled(b)
  BY <1>0, <1>4, <1>a, TypeParts DEF BatcherCancelled, BatchersOK
<1>5. CASE FlushBatcher(b) /\ bchan[b] = <<>>
  BY <1>5, <1>a, SpawnBatchType DEF FlushBatcher
<1>6. CASE FlushBatcher(b) /\ bchan[b] # <<>>
  <2> DEFINE jobs == bpend[b] \cup {Head(bchan[b])}
  <2>1. /\ jobs \in SUBSET Batched /\ bchan' \in [Batcher -> Seq(Batched)]
        /\ \A c \in Batcher : Len(bchan'[c]) <= 2 * Size
    BY <1>6, TakeType DEF FlushBatcher
  <2>2. CASE Cardinality(jobs) >= Size
    BY <1>6, <1>a, <2>1, <2>2, SpawnBatchType DEF FlushBatcher
  <2>3. CASE ~(Cardinality(jobs) >= Size)
    BY <1>1, <1>6, <1>a, <2>1, <2>3 DEF FlushBatcher
  <2> QED
    BY <2>2, <2>3
<1> QED
  BY <1>2, <1>3, <1>4, <1>5, <1>6 DEF Batch

(* What a task does to its jobs: they are settled or abandoned. *)
LEMMA SettleType ==
    ASSUME ListsOK, ErrorsOK, UNCHANGED waiting, NEW jobs \in SUBSET Job,
           Settle(jobs)
    PROVE  ListsOK' /\ ErrorsOK'
<1>1. ListsOK'
  BY DEF Settle, ListsOK
<1>2. ErrorsOK'
  BY ErrorSpent DEF Settle, ErrorsOK
<1> QED
  BY <1>1, <1>2

LEMMA TaskType ==
    ASSUME TypeOK, NEW g \in groups, Execute(g) \/ Work(g) \/ StartFails(g)
    PROVE  TypeOK'
<1>0. ListsOK /\ ErrorsOK /\ FlagsOK /\ groups \subseteq Group /\ g \in Group
  BY TypeParts
<1>1. ASSUME NEW h \in Group, Become(g, h) PROVE groups' \subseteq Group
  BY <1>0, <1>1 DEF Become
<1>2. CASE Build(g)
  <2>1. /\ [g EXCEPT !.pc = "kill", !.todo = g.jobs \cap Invalid] \in Group
        /\ [g EXCEPT !.pc = "reject", !.todo = g.jobs] \in Group
    BY <1>0 DEF Group
  <2>2. groups' \subseteq Group
    BY <1>1, <1>2, <2>1 DEF Build
  <2> QED
    BY <1>2, <2>2, PartsSame, TypePartsNext DEF Build
<1>3. ASSUME NEW j \in g.todo, Settle({j}), UNCHANGED waiting PROVE ListsOK' /\ ErrorsOK'
  <2>1. {j} \in SUBSET Job
    BY <1>0 DEF Group
  <2> QED
    BY <1>0, <1>3, <2>1, SettleType
<1>4. CASE KillInvalid(g)
  <2>1. groups' \subseteq Group
    <3>1. \A j : [g EXCEPT !.todo = @ \ {j}, !.jobs = @ \ {j}, !.hold = @ \ {j}] \in Group
      BY <1>0 DEF Group
    <3>2. [g EXCEPT !.pc = "start"] \in Group
      BY <1>0 DEF Group
    <3> QED
      BY <1>0, <1>1, <1>4, <3>1, <3>2 DEF KillInvalid
  <2>2. ListsOK' /\ ErrorsOK'
    <3>1. CASE g.todo = {}
      BY <1>0, <1>4, <3>1, PartsSame DEF KillInvalid, lists
    <3> QED
      BY <1>4, <1>3, <3>1 DEF KillInvalid
  <2> QED
    BY <1>4, <2>1, <2>2, PartsSame, TypePartsNext DEF KillInvalid
<1>5. CASE Start(g) \/ Fail(g)
  <2>1. [g EXCEPT !.pc = "run"] \in Group /\ [g EXCEPT !.pc = "settle", !.todo = g.jobs] \in Group
    BY <1>0 DEF Group
  <2>2. groups' \subseteq Group
    BY <1>1, <1>5, <2>1 DEF Start, Fail
  <2> QED
    BY <1>5, <2>2, PartsSame, TypePartsNext DEF Start, Fail
<1>6. CASE StartFails(g)
  <2>1. ListsOK' /\ ErrorsOK' /\ groups' \subseteq Group
    BY <1>0, <1>6, ErrorSpent DEF StartFails, ListsOK, lists, Group
  <2>2. FlagsOK'
    BY <1>0, <1>6, Zenon DEF StartFails, FlagsOK, ending
  <2> QED
    BY <1>6, <2>1, <2>2, PartsSame, TypePartsNext DEF StartFails
<1>7. CASE Succeed(g)
  <2>1. ListsOK' /\ ErrorsOK'
    <3>1. g.jobs \in SUBSET Job
      BY <1>0 DEF Group
    <3> QED
      BY <1>0, <1>7, <3>1, SettleType DEF Succeed
  <2>2. groups' \subseteq Group
    <3>1. [g EXCEPT !.pc = "report", !.hold = {}] \in Group
      BY <1>0 DEF Group
    <3> QED
      BY <1>1, <1>7, <3>1 DEF Succeed
  <2> QED
    BY <1>7, <2>1, <2>2, PartsSame, TypePartsNext DEF Succeed
<1>8. CASE HandleErr(g)
  <2>1. groups' \subseteq Group
    <3>1. \A j : [g EXCEPT !.todo = @ \ {j}] \in Group
      BY <1>0 DEF Group
    <3>2. [g EXCEPT !.pc = "report", !.hold = {}] \in Group
      BY <1>0 DEF Group
    <3> QED
      BY <1>0, <1>1, <1>8, <3>1, <3>2 DEF HandleErr
  <2>2. ListsOK' /\ ErrorsOK'
    <3>1. CASE g.todo = {}
      BY <1>0, <1>8, <3>1, PartsSame DEF HandleErr, lists
    <3> QED
      BY <1>8, <1>3, <3>1 DEF HandleErr
  <2> QED
    BY <1>8, <2>1, <2>2, PartsSame, TypePartsNext DEF HandleErr
<1>9. CASE KillAll(g)
  <2>1. groups' \subseteq Group
    <3>1. \A j : [g EXCEPT !.todo = @ \ {j}] \in Group
      BY <1>0 DEF Group
    <3> QED
      BY <1>0, <1>1, <1>9, <3>1 DEF KillAll
  <2>2. ListsOK' /\ ErrorsOK'
    <3>1. CASE g.todo = {}
      BY <1>0, <1>9, <3>1, PartsSame DEF KillAll, lists
    <3> QED
      BY <1>3, <1>9, <3>1 DEF KillAll
  <2> QED
    BY <1>9, <2>1, <2>2, PartsSame, TypePartsNext DEF KillAll
<1>10. CASE ProcessResult(g)
  <2>1. groups' \subseteq Group
    BY <1>0, <1>10 DEF ProcessResult
  <2> QED
    BY <1>10, <2>1, PartsSame, TypePartsNext DEF ProcessResult
<1> QED
  BY <1>4, <1>5, <1>6, <1>7, <1>8, <1>10, <1>2, <1>9 DEF Execute, Work

LEMMA TypeStep == TypeOK /\ HandsOK /\ [Next]_vars => TypeOK'
<1> SUFFICES ASSUME TypeOK, HandsOK, [Next]_vars PROVE TypeOK'
  OBVIOUS
<1>1. CASE UNCHANGED vars
  BY <1>1, PartsSame, TypePartsNext DEF vars
<1> QED
  BY <1>1, DispatchType, RouteType, StopType, BatchType, TaskType DEF Next

---------------------------------------------------------------------------
(* Where the jobs are *)

InHands == {djob, cjob} \ {None}
InTasks == UNION {Owed(g) : g \in groups}
Permits == UNION {g.hold : g \in groups}

LEMMA Places ==
    /\ Owned = InHands \cup Range(chan) \cup InBatchers \cup InTasks
    /\ Owned' = InHands' \cup Range(chan') \cup InBatchers' \cup InTasks'
    /\ Held = InHands \cup Range(chan) \cup InBatchers \cup Permits
    /\ Held' = InHands' \cup Range(chan') \cup InBatchers' \cup Permits'
BY DEF Owned, Held, InHands, InTasks, Permits

LEMMA PlacesSame ==
    /\ UNCHANGED <<djob, cjob>> => InHands' = InHands
    /\ UNCHANGED <<bchan, bpend>> => InBatchers' = InBatchers
    /\ UNCHANGED groups => InTasks' = InTasks /\ Permits' = Permits
BY DEF InHands, InBatchers, InTasks, Permits

(* What a task that becomes another, ends or begins does to the jobs tasks owe. *)
LEMMA TaskMoves ==
    ASSUME NEW g \in groups, NEW h, Become(g, h)
    PROVE  /\ (InTasks \ Owed(g)) \cup Owed(h) \subseteq InTasks'
           /\ Permits' \subseteq Permits \cup h.hold
BY DEF Become, InTasks, Permits

LEMMA TaskEnds ==
    ASSUME NEW g \in groups, groups' = groups \ {g}
    PROVE  InTasks \ Owed(g) \subseteq InTasks' /\ Permits' \subseteq Permits
BY DEF InTasks, Permits

LEMMA TaskBegins ==
    ASSUME NEW jobs, NEW isBatch, groups' = groups \cup {NewGroup(jobs, isBatch)}
    PROVE  InTasks \cup jobs \subseteq InTasks' /\ Permits' \subseteq Permits \cup jobs
<1>1. NewGroup(jobs, isBatch) \in groups' /\ NewGroup(jobs, isBatch).hold = jobs
       /\ Owed(NewGroup(jobs, isBatch)) = jobs
  BY DEF NewGroup, Owed
<1>2. InTasks \subseteq InTasks'
  BY DEF InTasks
<1>3. jobs \subseteq InTasks'
  BY <1>1 DEF InTasks
<1>4. Permits' \subseteq Permits \cup jobs
  BY <1>1 DEF Permits
<1> QED
  BY <1>2, <1>3, <1>4

(* A batcher's channel and pending jobs become c and p. *)
LEMMA BatcherMoves ==
    ASSUME bchan \in [Batcher -> Seq(Batched)], bpend \in [Batcher -> SUBSET Batched],
           NEW b \in Batcher, NEW c, NEW p,
           bchan' = [bchan EXCEPT ![b] = c], bpend' = [bpend EXCEPT ![b] = p]
    PROVE  /\ (InBatchers \ (Range(bchan[b]) \cup bpend[b])) \cup Range(c) \cup p \subseteq InBatchers'
           /\ InBatchers' \subseteq InBatchers \cup Range(c) \cup p
           /\ Range(bchan[b]) \cup bpend[b] \subseteq InBatchers
<1>1. bchan'[b] = c /\ bpend'[b] = p /\ \A a \in Batcher \ {b} : bchan'[a] = bchan[a] /\ bpend'[a] = bpend[a]
  OBVIOUS
<1>2. ASSUME NEW x \in InBatchers, x \notin Range(bchan[b]) \cup bpend[b] PROVE x \in InBatchers'
  <2>1. PICK a \in Batcher : x \in Range(bchan[a]) \cup bpend[a]
    BY <1>2 DEF InBatchers
  <2>2. x \in Range(bchan'[a]) \cup bpend'[a]
    BY <1>1, <1>2, <2>1
  <2> QED
    BY <2>2 DEF InBatchers
<1>3. Range(c) \cup p \subseteq InBatchers'
  BY <1>1 DEF InBatchers
<1>4. ASSUME NEW x \in InBatchers', x \notin Range(c) \cup p PROVE x \in InBatchers
  <2>1. PICK a \in Batcher : x \in Range(bchan'[a]) \cup bpend'[a]
    BY <1>4 DEF InBatchers
  <2>2. x \in Range(bchan[a]) \cup bpend[a]
    BY <1>1, <1>4, <2>1
  <2> QED
    BY <2>2 DEF InBatchers
<1>5. Range(bchan[b]) \cup bpend[b] \subseteq InBatchers
  BY DEF InBatchers
<1> QED
  BY <1>2, <1>3, <1>4, <1>5

---------------------------------------------------------------------------
(* The hands and the permits of the tasks *)

LEMMA HandsStep ==
    ASSUME TypeOK, HandsOK, [Next]_vars
    PROVE  HandsOK'
<1>0. FrontOK /\ ListsOK
  BY TypeParts
<1>1. CASE Dispatch \/ PopFails \/ WatchFails
  <2>1. waiting # <<>> => Head(waiting) # None
    BY <1>0, RangeSplit, NoneAssumption DEF ListsOK
  <2> QED
    BY <1>1, <2>1 DEF HandsOK, Dispatch, Acquire, Pop, PopFails, PopUnread, WatchFails, StopDispatcher, SendJob, coordinator, dispatcher
<1>2. CASE Route
  <2>1. chan # <<>> => Head(chan) # None
    BY <1>0, RangeSplit, NoneAssumption DEF FrontOK
  <2> QED
    BY <1>2, <2>1 DEF HandsOK, Route, Receive, LoadPendingJob, SpawnJob, SpawnBatcher, SendToBatcher,
                      SendRefused, dispatcher
<1>3. CASE Stop \/ Cancel
  BY <1>3 DEF HandsOK, Stop, ReturnError, Return, Break, WaitForWorkers, Timeout, Join, Cancel,
              dispatcher, coordinator
<1>4. ASSUME NEW b \in Batcher, Batch(b) PROVE HandsOK'
  BY <1>4 DEF HandsOK, Batch, BatcherReceive, BatchTimeout, BatcherDisconnected, BatcherCancelled,
              FlushBatcher, dispatcher, coordinator
<1>5. ASSUME NEW g \in groups, Execute(g) \/ Work(g) \/ StartFails(g) PROVE HandsOK'
  BY <1>5 DEF HandsOK, Execute, Work, Build, KillInvalid, KillAll, Start, HandleErr, ProcessResult, Succeed, Fail,
              StartFails, dispatcher, coordinator
<1>6. CASE UNCHANGED vars
  BY <1>6 DEF HandsOK, vars, dispatcher, coordinator
<1> QED
  BY <1>1, <1>2, <1>3, <1>4, <1>5, <1>6 DEF Next

(* GroupsOK, of one task. *)
GroupOK(g) ==
    /\ g.pc # "report" => g.hold = g.jobs /\ g.todo \subseteq g.jobs
    /\ g.pc = "report" => g.hold = {}

LEMMA NewGroupOK == ASSUME NEW jobs, NEW isBatch PROVE GroupOK(NewGroup(jobs, isBatch))
BY DEF GroupOK, NewGroup

LEMMA GroupsStep ==
    ASSUME TypeOK, GroupsOK, [Next]_vars
    PROVE  GroupsOK'
<1>0. groups \subseteq Group /\ \A g \in groups : GroupOK(g)
  BY TypeParts DEF GroupsOK, GroupOK
<1> SUFFICES \A g \in groups' : GroupOK(g)
  BY DEF GroupsOK, GroupOK
<1>a. ASSUME groups' \subseteq groups PROVE \A g \in groups' : GroupOK(g)
  BY <1>0, <1>a
<1>b. ASSUME NEW g, NEW h, GroupOK(h), Become(g, h) PROVE \A k \in groups' : GroupOK(k)
  BY <1>0, <1>b DEF Become
<1>c. ASSUME NEW jobs, NEW isBatch, groups' = groups \cup {NewGroup(jobs, isBatch)}
      PROVE  \A k \in groups' : GroupOK(k)
  <2>1. GroupOK(NewGroup(jobs, isBatch))
    BY NewGroupOK
  <2> QED
    BY <1>0, <1>c, <2>1
<1>1. CASE Dispatch \/ PopFails \/ WatchFails
  BY <1>1, <1>a DEF Dispatch, Acquire, Pop, PopFails, PopUnread, WatchFails, StopDispatcher, SendJob
<1>2. CASE Route
  <2>1. groups' = groups \/ groups' = groups \cup {NewGroup({cjob}, FALSE)}
    BY <1>2 DEF Route, Receive, LoadPendingJob, SpawnJob, SpawnBatcher, SendToBatcher, SendRefused
  <2> QED
    BY <2>1, <1>a, <1>c
<1>3. CASE Stop \/ Cancel
  BY <1>3, <1>a DEF Stop, ReturnError, Return, Break, WaitForWorkers, Timeout, Join, Cancel
<1>4. ASSUME NEW b \in Batcher, Batch(b) PROVE \A g \in groups' : GroupOK(g)
  <2>1. groups' = groups \/ \E jobs : groups' = groups \cup {NewGroup(jobs, TRUE)}
    BY <1>4 DEF Batch, BatcherReceive, BatchTimeout, BatcherDisconnected, BatcherCancelled, FlushBatcher, SpawnBatch
  <2> QED
    BY <2>1, <1>a, <1>c
<1>5. ASSUME NEW g \in groups, Execute(g) \/ Work(g) \/ StartFails(g) PROVE \A k \in groups' : GroupOK(k)
  <2>0. g \in Group /\ GroupOK(g)
    BY <1>0
  <2>1. CASE KillInvalid(g)
    <3>1. \A j : GroupOK([g EXCEPT !.todo = @ \ {j}, !.jobs = @ \ {j}, !.hold = @ \ {j}])
      BY <2>0, <2>1 DEF GroupOK, KillInvalid, Group
    <3>2. GroupOK([g EXCEPT !.pc = "start"])
      BY <2>0, <2>1 DEF GroupOK, KillInvalid, Group
    <3> QED
      BY <2>1, <3>1, <3>2, <1>a, <1>b DEF KillInvalid
  <2>2. CASE Start(g) \/ Fail(g)
    <3>1. g.pc # "report" => GroupOK([g EXCEPT !.pc = "run"]) /\ GroupOK([g EXCEPT !.pc = "settle", !.todo = g.jobs])
      BY <2>0 DEF GroupOK, Group
    <3> QED
      BY <2>2, <3>1, <1>b DEF Start, Fail
  <2>3. CASE HandleErr(g) \/ Succeed(g)
    <3>1. GroupOK([g EXCEPT !.pc = "report", !.hold = {}])
      BY <2>0 DEF GroupOK, Group
    <3>2. \A j : g.pc = "settle" => GroupOK([g EXCEPT !.todo = @ \ {j}])
      BY <2>0 DEF GroupOK, Group
    <3> QED
      BY <2>3, <3>1, <3>2, <1>b DEF HandleErr, Succeed
  <2>4. CASE Build(g)
    <3>1. /\ GroupOK([g EXCEPT !.pc = "kill", !.todo = g.jobs \cap Invalid])
          /\ GroupOK([g EXCEPT !.pc = "reject", !.todo = g.jobs])
      BY <2>0, <2>4 DEF GroupOK, Build, Group
    <3> QED
      BY <2>4, <3>1, <1>b DEF Build
  <2>5. CASE KillAll(g)
    <3>1. \A j : GroupOK([g EXCEPT !.todo = @ \ {j}])
      BY <2>0, <2>5 DEF GroupOK, KillAll, Group
    <3> QED
      BY <2>5, <3>1, <1>a, <1>b DEF KillAll
  <2>6. CASE ProcessResult(g) \/ StartFails(g)
    BY <2>6, <1>a DEF ProcessResult, StartFails
  <2> QED
    BY <1>5, <2>1, <2>2, <2>3, <2>6, <2>4, <2>5 DEF Execute, Work
<1>6. CASE UNCHANGED vars
  BY <1>6, <1>a DEF vars
<1> QED
  BY <1>1, <1>2, <1>3, <1>4, <1>5, <1>6 DEF Next

---------------------------------------------------------------------------
(* No job is dropped: what leaves the processing list is settled, and what *)
(* stays in it is owed by its holder or abandoned.  Only a pop makes a job *)
(* held.                                                                   *)

LEMMA DispatchKeeps ==
    ASSUME TypeOK, HandsOK, Accounted, Dispatch \/ PopFails \/ WatchFails
    PROVE  Accounted' /\ (~Pop => Held' \subseteq Held)
<1>0. FrontOK /\ ListsOK
  BY TypeParts
<1>1. InBatchers' = InBatchers /\ InTasks' = InTasks /\ Permits' = Permits
  BY PlacesSame DEF Dispatch, Acquire, Pop, PopFails, PopUnread, WatchFails, StopDispatcher, SendJob, batchers
<1>2. CASE Acquire \/ PopFails \/ WatchFails \/ StopDispatcher
  <2>1. InHands' = InHands /\ Range(chan') = Range(chan)
    BY <1>2, PlacesSame DEF Acquire, PopFails, WatchFails, StopDispatcher, coordinator, dispatcher
  <2>2. processing' \ processing \subseteq left' /\ left \subseteq left'
    BY <1>2 DEF Acquire, PopFails, PopUnread, WatchFails, StopDispatcher, lists
  <2> QED
    BY <1>1, <2>1, <2>2, Places DEF Accounted
<1>3. CASE Pop
  <2>1. waiting # <<>> => Head(waiting) # None
    BY <1>0, RangeSplit, NoneAssumption DEF ListsOK
  <2>2. processing' \ processing \subseteq InHands' /\ InHands \subseteq InHands' /\ left' = left /\ Range(chan') = Range(chan)
    BY <1>3, <2>1 DEF Pop, InHands, HandsOK, coordinator
  <2> QED
    BY <1>1, <1>3, <2>2, Places DEF Accounted
<1>4. CASE SendJob
  <2>2. djob # None /\ djob \in Job /\ djob \in InHands
    BY <1>0, <1>4 DEF SendJob, InHands, HandsOK, FrontOK
  <2>3. InHands' \subseteq InHands /\ InHands \subseteq InHands' \cup {djob}
    BY <1>4, <2>2 DEF SendJob, InHands, coordinator
  <2>4. \/ Range(chan') = Range(chan) \cup {djob} /\ left' = left
        \/ chan' = chan /\ left' = left \cup {djob}
    <3>1. Range(Append(chan, djob)) = Range(chan) \cup {djob}
      BY <1>0, <2>2, RangeAppend DEF FrontOK
    <3> QED
      BY <1>4, <3>1 DEF SendJob
  <2>5. processing' = processing
    BY <1>4 DEF SendJob, lists
  <2> QED
    BY <1>1, <2>2, <2>3, <2>4, <2>5, Places DEF Accounted
<1> QED
  BY <1>2, <1>3, <1>4 DEF Dispatch

LEMMA RouteKeeps ==
    ASSUME TypeOK, HandsOK, Accounted, Route
    PROVE  Accounted' /\ Held' \subseteq Held
<1>0. FrontOK /\ BatchersOK
  BY TypeParts
<1>1. processing' = processing /\ left \subseteq left'
  BY DEF Route, Receive, LoadPendingJob, SpawnJob, SpawnBatcher, SendToBatcher, SendRefused, lists
<1>2. CASE Receive
  <2>1. Range(chan) = {Head(chan)} \cup Range(chan') /\ Head(chan) # None
    BY <1>0, <1>2, RangeSplit, NoneAssumption DEF Receive, FrontOK
  <2>2. InHands' = InHands \cup {Head(chan)}
    BY <1>2, <2>1 DEF Receive, InHands, HandsOK, dispatcher
  <2>3. InBatchers' = InBatchers /\ InTasks' = InTasks /\ Permits' = Permits
    BY <1>2, PlacesSame DEF Receive, batchers
  <2> QED
    BY <1>1, <2>1, <2>2, <2>3, Places DEF Accounted
<1>3. CASE LoadPendingJob
  <2>1. InHands' \subseteq InHands /\ InHands \subseteq InHands' \cup left'
    BY <1>3 DEF LoadPendingJob, InHands, dispatcher
  <2>2. InBatchers' = InBatchers /\ InTasks' = InTasks /\ Permits' = Permits /\ Range(chan') = Range(chan)
    BY <1>3, PlacesSame DEF LoadPendingJob, batchers
  <2> QED
    BY <1>1, <2>1, <2>2, Places DEF Accounted
<1>4. CASE SpawnJob
  <2>1. InHands' \subseteq InHands /\ InHands \subseteq InHands' \cup {cjob} /\ cjob \in InHands
    BY <1>4 DEF SpawnJob, InHands, HandsOK, dispatcher
  <2>2. InBatchers' = InBatchers /\ Range(chan') = Range(chan)
    BY <1>4, PlacesSame DEF SpawnJob, batchers
  <2>3. InTasks \cup {cjob} \subseteq InTasks' /\ Permits' \subseteq Permits \cup {cjob}
    BY <1>4, TaskBegins DEF SpawnJob
  <2> QED
    BY <1>1, <2>1, <2>2, <2>3, Places DEF Accounted
<1>5. CASE SpawnBatcher \/ SendRefused
  <2>1. InHands' = InHands /\ InBatchers' = InBatchers /\ InTasks' = InTasks /\ Permits' = Permits /\ Range(chan') = Range(chan)
    BY <1>5, PlacesSame DEF SpawnBatcher, SendRefused, batchers, dispatcher
  <2> QED
    BY <1>1, <2>1, Places DEF Accounted
<1>6. CASE SendToBatcher
  <2>1. InHands' \subseteq InHands /\ InHands \subseteq InHands' \cup {cjob} /\ cjob \in InHands
    BY <1>6 DEF SendToBatcher, InHands, HandsOK, dispatcher
  <2>2. InTasks' = InTasks /\ Permits' = Permits /\ Range(chan') = Range(chan)
    BY <1>6, PlacesSame DEF SendToBatcher
  <2>3. current \in Batcher /\ bchan[current] \in Seq(Batched) /\ cjob \in Batched
    BY <1>0, <1>6 DEF SendToBatcher, FrontOK, BatchersOK
  <2>4. Range(Append(bchan[current], cjob)) = Range(bchan[current]) \cup {cjob}
    BY <2>3, RangeAppend
  <2>5. bchan' = [bchan EXCEPT ![current] = Append(bchan[current], cjob)]
        /\ bpend' = [bpend EXCEPT ![current] = bpend[current]]
    BY <1>0, <1>6 DEF SendToBatcher, BatchersOK
  <2>6. InBatchers \cup {cjob} \subseteq InBatchers' /\ InBatchers' \subseteq InBatchers \cup {cjob}
    BY <1>0, <2>3, <2>4, <2>5, BatcherMoves DEF BatchersOK
  <2> QED
    BY <1>1, <2>1, <2>2, <2>6, Places DEF Accounted
<1> QED
  BY <1>2, <1>3, <1>4, <1>5, <1>6 DEF Route

LEMMA StopKeeps ==
    ASSUME TypeOK, HandsOK, GroupsOK, Accounted, Stop \/ Cancel
    PROVE  Accounted' /\ Held' \subseteq Held
<1>1. processing' = processing
  BY DEF Stop, ReturnError, Break, WaitForWorkers, Timeout, Join, Cancel, lists
<1>2. InHands' = InHands /\ InBatchers' = InBatchers
  BY PlacesSame DEF Stop, ReturnError, Break, WaitForWorkers, Timeout, Join, Cancel, dispatcher, coordinator, batchers
<1>3. CASE Break \/ WaitForWorkers \/ Timeout \/ Cancel
  <2>1. InTasks' = InTasks /\ Permits' = Permits /\ Range(chan') = Range(chan) /\ left' = left
    BY <1>3, PlacesSame DEF Break, WaitForWorkers, Timeout, Cancel
  <2> QED
    BY <1>1, <1>2, <2>1, Places DEF Accounted
<1>4. ASSUME NEW result, Return(result) PROVE Accounted' /\ Held' \subseteq Held
  <2>1. left \cup Range(chan) \subseteq left' /\ Range(chan') = {}
    BY <1>4, RangeEmpty DEF Return
  <2>2. ASSUME NEW x \in InTasks, x \notin left' PROVE x \in InTasks'
    <3>1. PICK g \in groups : x \in Owed(g)
      BY <2>2 DEF InTasks
    <3>2. x \in g.jobs
      BY <3>1 DEF Owed, GroupsOK
    <3>3. g \in groups'
      BY <1>4, <2>2, <3>2 DEF Return
    <3> QED
      BY <3>1, <3>3 DEF InTasks
  <2>3. Permits' \subseteq Permits
    BY <1>4 DEF Return, Permits
  <2> QED
    BY <1>1, <1>2, <2>1, <2>2, <2>3, Places DEF Accounted
<1> QED
  BY <1>3, <1>4 DEF Stop, ReturnError, Join

(* Jobs that a batcher hands to a batch, or keeps, when it takes one from its channel. *)
LEMMA SpawnBatchKeeps ==
    ASSUME BatchersOK, NEW b \in Batcher, NEW c, NEW jobs, NEW next, SpawnBatch(b, jobs, next),
           bchan' = [bchan EXCEPT ![b] = c], Range(bchan[b]) \cup bpend[b] = Range(c) \cup jobs
    PROVE  InBatchers \cup InTasks \subseteq InBatchers' \cup InTasks'
           /\ InBatchers' \cup Permits' \subseteq InBatchers \cup Permits
<1>1. bpend' = [bpend EXCEPT ![b] = {}]
  BY DEF SpawnBatch
<1>2. /\ (InBatchers \ (Range(bchan[b]) \cup bpend[b])) \cup Range(c) \cup {} \subseteq InBatchers'
      /\ InBatchers' \subseteq InBatchers \cup Range(c) \cup {}
      /\ Range(bchan[b]) \cup bpend[b] \subseteq InBatchers
  BY <1>1, BatcherMoves DEF BatchersOK
<1>3. InTasks \cup jobs \subseteq InTasks' /\ Permits' \subseteq Permits \cup jobs
  <2>1. CASE jobs = {}
    BY <2>1, PlacesSame DEF SpawnBatch
  <2>2. CASE jobs # {}
    BY <2>2, TaskBegins DEF SpawnBatch
  <2> QED
    BY <2>1, <2>2
<1> QED
  BY <1>2, <1>3

LEMMA BatchKeeps ==
    ASSUME TypeOK, HandsOK, Accounted, NEW b \in Batcher, Batch(b)
    PROVE  Accounted' /\ Held' \subseteq Held
<1>0. BatchersOK
  BY TypeParts
<1>1. InHands' = InHands /\ Range(chan') = Range(chan) /\ processing' = processing /\ left' = left
  BY PlacesSame DEF Batch, BatcherReceive, BatchTimeout, BatcherDisconnected, BatcherCancelled, FlushBatcher,
                    dispatcher, coordinator, lists
<1> SUFFICES InBatchers \cup InTasks \subseteq InBatchers' \cup InTasks'
             /\ InBatchers' \cup Permits' \subseteq InBatchers \cup Permits
  BY <1>1, Places DEF Accounted
<1> DEFINE jobs == bpend[b] \cup {Head(bchan[b])}
<1>2. ASSUME bchan[b] # <<>> PROVE Range(bchan[b]) \cup bpend[b] = Range(Tail(bchan[b])) \cup jobs
  BY <1>0, <1>2, RangeSplit DEF BatchersOK
<1>4. UNCHANGED bchan => bchan' = [bchan EXCEPT ![b] = bchan[b]]
  BY <1>0 DEF BatchersOK
<1>5. ASSUME bchan[b] # <<>>, bchan' = [bchan EXCEPT ![b] = Tail(bchan[b])],
             bpend' = [bpend EXCEPT ![b] = jobs], UNCHANGED groups
      PROVE  InBatchers \cup InTasks \subseteq InBatchers' \cup InTasks'
             /\ InBatchers' \cup Permits' \subseteq InBatchers \cup Permits
  <2>1. InTasks' = InTasks /\ Permits' = Permits
    BY <1>5, PlacesSame
  <2>2. /\ (InBatchers \ (Range(bchan[b]) \cup bpend[b])) \cup Range(Tail(bchan[b])) \cup jobs \subseteq InBatchers'
        /\ InBatchers' \subseteq InBatchers \cup Range(Tail(bchan[b])) \cup jobs
        /\ Range(bchan[b]) \cup bpend[b] \subseteq InBatchers
    BY <1>0, <1>5, BatcherMoves DEF BatchersOK
  <2> QED
    BY <1>2, <1>5, <2>1, <2>2
<1>6. CASE BatcherReceive(b)
  <2>1. bchan[b] # <<>> /\ bchan' = [bchan EXCEPT ![b] = Tail(bchan[b])]
    BY <1>6 DEF BatcherReceive
  <2>2. CASE Cardinality(jobs) >= Size
    <3>1. SpawnBatch(b, jobs, "first")
      BY <1>6, <2>2 DEF BatcherReceive
    <3> HIDE DEF jobs
    <3> QED
      BY <1>0, <1>2, <2>1, <3>1, SpawnBatchKeeps
  <2>3. CASE ~(Cardinality(jobs) >= Size)
    BY <1>5, <1>6, <2>1, <2>3 DEF BatcherReceive
  <2> QED
    BY <2>2, <2>3
<1>7. CASE BatchTimeout(b) \/ BatcherDisconnected(b)
  <2>1. bchan' = [bchan EXCEPT ![b] = bchan[b]] /\ \E next : SpawnBatch(b, bpend[b], next)
    BY <1>4, <1>7 DEF BatchTimeout, BatcherDisconnected
  <2> QED
    BY <1>0, <2>1, SpawnBatchKeeps
<1>8. CASE BatcherCancelled(b)
  BY <1>8, PlacesSame DEF BatcherCancelled
<1>9. CASE FlushBatcher(b)
  <2>1. CASE bchan[b] # <<>>
    <3>1. bchan' = [bchan EXCEPT ![b] = Tail(bchan[b])]
      BY <1>9, <2>1 DEF FlushBatcher
    <3>2. CASE Cardinality(jobs) >= Size
      <4>1. SpawnBatch(b, jobs, "flush")
        BY <1>9, <2>1, <3>2 DEF FlushBatcher
      <4> HIDE DEF jobs
      <4> QED
        BY <1>0, <1>2, <2>1, <3>1, <4>1, SpawnBatchKeeps
    <3>3. CASE ~(Cardinality(jobs) >= Size)
      BY <1>5, <1>9, <2>1, <3>1, <3>3 DEF FlushBatcher
    <3> QED
      BY <3>2, <3>3
  <2>2. CASE bchan[b] = <<>>
    <3>1. bchan' = [bchan EXCEPT ![b] = bchan[b]] /\ SpawnBatch(b, bpend[b], "unborn")
      BY <1>4, <1>9, <2>2 DEF FlushBatcher
    <3> QED
      BY <1>0, <3>1, SpawnBatchKeeps
  <2> QED
    BY <2>1, <2>2
<1> QED
  BY <1>6, <1>7, <1>8, <1>9 DEF Batch

LEMMA TaskKeeps ==
    ASSUME TypeOK, HandsOK, GroupsOK, Accounted, NEW g \in groups, Execute(g) \/ Work(g) \/ StartFails(g)
    PROVE  Accounted' /\ Held' \subseteq Held
<1>0. g \in Group /\ GroupOK(g) /\ g.hold \subseteq Permits
  BY TypeParts DEF GroupsOK, GroupOK, Permits
<1>1. InHands' = InHands /\ Range(chan') = Range(chan) /\ InBatchers' = InBatchers
  BY PlacesSame DEF Execute, Work, Build, KillInvalid, KillAll, Start, HandleErr, ProcessResult, Succeed, Fail,
                    StartFails, dispatcher, coordinator, batchers
<1>2. ASSUME processing' \subseteq processing, left \subseteq left', Permits' \subseteq Permits,
             \A x \in InTasks : x \in processing => x \in InTasks' \cup left' \cup (processing \ processing')
      PROVE  Accounted' /\ Held' \subseteq Held
  <2>1. Held' \subseteq Held
    BY <1>1, <1>2, Places
  <2>2. ASSUME NEW x \in processing' PROVE x \in left' \cup Owned'
    BY <1>1, <1>2, <2>2, Places DEF Accounted
  <2> QED
    BY <2>1, <2>2 DEF Accounted
(* The jobs are settled, or abandoned: either way nobody owes them any more. *)
<1>3. ASSUME NEW jobs, Settle(jobs)
      PROVE  /\ processing' \subseteq processing /\ left \subseteq left'
             /\ \A x \in jobs : x \in processing => x \in left' \cup (processing \ processing')
  BY <1>3 DEF Settle
<1>4. ASSUME InTasks \subseteq InTasks' \cup left' \cup (processing \ processing'),
             processing' \subseteq processing, left \subseteq left', Permits' \subseteq Permits
      PROVE  Accounted' /\ Held' \subseteq Held
  BY <1>4, <1>2
<1>5. CASE KillInvalid(g)
  <2>0. Owed(g) = g.hold
    BY <1>5 DEF KillInvalid, Owed
  <2>1. ASSUME NEW j \in g.todo, Settle({j}),
               Become(g, [g EXCEPT !.todo = @ \ {j}, !.jobs = @ \ {j}, !.hold = @ \ {j}])
        PROVE  Accounted' /\ Held' \subseteq Held
    <3> DEFINE h == [g EXCEPT !.todo = @ \ {j}, !.jobs = @ \ {j}, !.hold = @ \ {j}]
    <3>1. h.hold = g.hold \ {j} /\ Owed(h) = g.hold \ {j}
      BY <1>0, <1>5 DEF KillInvalid, Owed, Group
    <3>2. /\ (InTasks \ Owed(g)) \cup Owed(h) \subseteq InTasks'
          /\ Permits' \subseteq Permits \cup h.hold
      BY <2>1, TaskMoves
    <3>3. /\ processing' \subseteq processing /\ left \subseteq left'
          /\ \A x \in {j} : x \in processing => x \in left' \cup (processing \ processing')
      BY <1>3, <2>1
    <3> HIDE DEF h
    <3> QED
      BY <1>0, <1>2, <2>0, <3>1, <3>2, <3>3
  <2>2. CASE g.todo = {} /\ UNCHANGED <<processing, settled, left, errors>>
    <3>1. [g EXCEPT !.pc = "start"].hold = g.hold /\ Owed([g EXCEPT !.pc = "start"]) = g.hold
      BY <1>0 DEF Owed, Group
    <3>2. CASE g.jobs = {} /\ groups' = groups \ {g}
      <4>1. g.hold = {}
        BY <1>0, <1>5, <3>2 DEF GroupOK, KillInvalid
      <4> QED
        BY <1>4, <2>0, <2>2, <3>2, <4>1, TaskEnds
    <3>3. CASE Become(g, [g EXCEPT !.pc = "start"])
      BY <1>0, <1>4, <2>0, <2>2, <3>1, <3>3, TaskMoves
    <3> QED
      BY <1>5, <2>2, <3>2, <3>3 DEF KillInvalid
  <2> QED
    BY <1>5, <2>1, <2>2 DEF KillInvalid
<1>6. CASE Start(g) \/ Fail(g)
  <2>1. Owed(g) = g.jobs /\ g.hold = g.jobs
    BY <1>0, <1>6 DEF Start, Fail, Owed, GroupOK
  <2>2. PICK h : Become(g, h) /\ h.hold = g.hold /\ Owed(h) = g.jobs
    <3>1. Owed([g EXCEPT !.pc = "run"]) = g.jobs /\ [g EXCEPT !.pc = "run"].hold = g.hold
      BY <1>0, <2>1 DEF Owed, Group
    <3>2. /\ Owed([g EXCEPT !.pc = "settle", !.todo = g.jobs]) = g.jobs
          /\ [g EXCEPT !.pc = "settle", !.todo = g.jobs].hold = g.hold
      BY <1>0 DEF Owed, Group
    <3> QED
      BY <1>6, <3>1, <3>2 DEF Start, Fail
  <2>3. processing' = processing /\ left' = left
    BY <1>6 DEF Start, Fail, lists
  <2> QED
    BY <1>0, <1>4, <2>1, <2>2, <2>3, TaskMoves
<1>7. CASE Succeed(g)
  <2>1. Owed(g) = g.jobs
    BY <1>0, <1>7 DEF Succeed, Owed, GroupOK
  <2>2. [g EXCEPT !.pc = "report", !.hold = {}].hold = {}
    BY <1>0 DEF Group
  <2>3. InTasks \ Owed(g) \subseteq InTasks' /\ Permits' \subseteq Permits
    BY <1>7, <2>2, TaskMoves DEF Succeed
  <2>4. /\ processing' \subseteq processing /\ left \subseteq left'
        /\ \A x \in g.jobs : x \in processing => x \in left' \cup (processing \ processing')
    BY <1>3, <1>7 DEF Succeed
  <2> QED
    BY <1>2, <2>1, <2>3, <2>4
(* One of the jobs still to be killed or retried. *)
<1>8. ASSUME NEW j \in g.todo, Owed(g) = g.todo, g.pc \in {"settle", "reject"}, Settle({j}),
              Become(g, [g EXCEPT !.todo = @ \ {j}])
       PROVE  Accounted' /\ Held' \subseteq Held
  <2> DEFINE h == [g EXCEPT !.todo = @ \ {j}]
  <2>1. h.hold = g.hold /\ Owed(h) = g.todo \ {j}
    BY <1>0, <1>8 DEF Owed, Group
  <2>2. /\ (InTasks \ Owed(g)) \cup Owed(h) \subseteq InTasks'
        /\ Permits' \subseteq Permits \cup h.hold
    BY <1>8, TaskMoves
  <2>3. /\ processing' \subseteq processing /\ left \subseteq left'
        /\ \A x \in {j} : x \in processing => x \in left' \cup (processing \ processing')
    BY <1>3, <1>8
  <2> HIDE DEF h
  <2> QED
    BY <1>0, <1>2, <1>8, <2>1, <2>2, <2>3
<1>9. CASE Build(g)
  <2>1. Owed(g) = g.jobs /\ g.hold = g.jobs
    BY <1>0, <1>9 DEF Build, Owed, GroupOK
  <2>2. PICK h : Become(g, h) /\ h.hold = g.hold /\ Owed(h) = g.jobs
    <3>1. /\ Owed([g EXCEPT !.pc = "kill", !.todo = g.jobs \cap Invalid]) = g.jobs
          /\ [g EXCEPT !.pc = "kill", !.todo = g.jobs \cap Invalid].hold = g.hold
      BY <1>0, <2>1 DEF Owed, Group
    <3>2. /\ Owed([g EXCEPT !.pc = "reject", !.todo = g.jobs]) = g.jobs
          /\ [g EXCEPT !.pc = "reject", !.todo = g.jobs].hold = g.hold
      BY <1>0 DEF Owed, Group
    <3> QED
      BY <1>9, <3>1, <3>2 DEF Build
  <2>3. processing' = processing /\ left' = left
    BY <1>9 DEF Build, lists
  <2> QED
    BY <1>0, <1>4, <2>1, <2>2, <2>3, TaskMoves
<1>10. CASE KillAll(g)
  <2>1. Owed(g) = g.todo
    BY <1>10 DEF KillAll, Owed
  <2>2. CASE g.todo = {} /\ UNCHANGED <<processing, settled, left, errors>> /\ groups' = groups \ {g}
    BY <1>4, <2>1, <2>2, TaskEnds
  <2> QED
    BY <1>8, <1>10, <2>1, <2>2 DEF KillAll
<1>11. CASE HandleErr(g)
  <2>0. Owed(g) = g.todo
    BY <1>11 DEF HandleErr, Owed
  <2>2. CASE g.todo = {} /\ UNCHANGED <<processing, settled, left, errors>>
             /\ Become(g, [g EXCEPT !.pc = "report", !.hold = {}])
    <3>1. [g EXCEPT !.pc = "report", !.hold = {}].hold = {}
      BY <1>0 DEF Group
    <3> QED
      <4>1. InTasks \ Owed(g) \subseteq InTasks' /\ Permits' \subseteq Permits
        BY <2>2, <3>1, TaskMoves
      <4> QED
        BY <1>4, <2>0, <2>2, <4>1
  <2> QED
    BY <1>11, <1>8, <2>0, <2>2 DEF HandleErr
<1>12. CASE ProcessResult(g)
  <2>1. Owed(g) = {}
    BY <1>0, <1>12 DEF ProcessResult, Owed, GroupOK
  <2> QED
    BY <1>4, <1>12, <2>1, TaskEnds DEF ProcessResult, lists
<1>13. CASE StartFails(g)
  <2>1. Owed(g) = g.jobs
    BY <1>0, <1>13 DEF StartFails, Owed, GroupOK
  <2> QED
    BY <1>4, <1>13, <2>1, TaskEnds DEF StartFails, lists
<1> QED
  BY <1>5, <1>6, <1>7, <1>11, <1>12, <1>13, <1>9, <1>10 DEF Execute, Work

---------------------------------------------------------------------------
(* The invariant *)

LEMMA JobsKept ==
    ASSUME TypeOK, HandsOK, GroupsOK, Accounted, [Next]_vars
    PROVE  Accounted' /\ (~Pop => Held' \subseteq Held)
<1>1. CASE UNCHANGED vars
  <2>1. Owned' = Owned /\ Held' = Held /\ processing' = processing /\ left' = left
    BY <1>1 DEF vars, lists, dispatcher, coordinator, batchers, Owned, Held, InBatchers
  <2> QED
    BY <2>1 DEF Accounted
<1> QED
  BY <1>1, DispatchKeeps, RouteKeeps, StopKeeps, BatchKeeps, TaskKeeps DEF Next

LEMMA HeldJobs == TypeOK => Held \subseteq Job
<1> SUFFICES ASSUME TypeOK PROVE Held \subseteq Job
  OBVIOUS
<1>0. FrontOK /\ BatchersOK /\ groups \subseteq Group
  BY TypeParts
<1>1. {djob, cjob} \ {None} \subseteq Job
  BY <1>0 DEF FrontOK
<1>2. Range(chan) \subseteq Job
  BY <1>0, RangeIn DEF FrontOK
<1>3. InBatchers \subseteq Job
  <2>1. ASSUME NEW b \in Batcher PROVE Range(bchan[b]) \cup bpend[b] \subseteq Job
    <3>1. bchan[b] \in Seq(Batched) /\ bpend[b] \subseteq Batched
      BY <1>0 DEF BatchersOK
    <3>2. Range(bchan[b]) \subseteq Batched
      BY <3>1, RangeIn
    <3> QED
      BY <3>1, <3>2, JobsAssumption
  <2> QED
    BY <2>1 DEF InBatchers
<1>4. UNION {g.hold : g \in groups} \subseteq Job
  BY <1>0 DEF Group
<1> QED
  BY <1>1, <1>2, <1>3, <1>4 DEF Held

(* Batchers and tasks leave the dispatcher, the coordinator and the signals alone. *)
LEMMA FrontSteps ==
    ASSUME [Next]_vars
    PROVE  \/ Dispatch \/ PopFails \/ WatchFails \/ Route \/ Stop \/ Cancel
           \/ UNCHANGED <<dispatcher, coordinator, ending>>
<1>1. ASSUME NEW b \in Batcher, Batch(b) PROVE UNCHANGED <<dispatcher, coordinator, ending>>
  BY <1>1 DEF Batch, BatcherReceive, BatchTimeout, BatcherDisconnected, BatcherCancelled, FlushBatcher
<1>2. ASSUME NEW g \in groups, Execute(g) \/ Work(g) \/ StartFails(g)
      PROVE  UNCHANGED <<dispatcher, coordinator, ending>>
  BY <1>2 DEF Execute, Work, Build, KillInvalid, KillAll, Start, HandleErr, ProcessResult, Succeed, Fail, StartFails
<1> QED
  BY <1>1, <1>2 DEF Next, vars

(* A dispatcher that takes a job, or comes to take or send one, does so    *)
(* before cancellation.                                                    *)
LEMMA DrainedStep ==
    ASSUME CoordinatorInv, [Next]_vars
    PROVE  Drained'
<1>0. /\ TypeOK /\ HandsOK /\ GroupsOK /\ Accounted /\ Drained
      /\ HandsOK'
  BY HandsStep DEF CoordinatorInv
<1>1. cancelled => cancelled'
  BY FrontSteps DEF Dispatch, Acquire, Pop, PopFails, PopUnread, WatchFails, StopDispatcher, SendJob, Route, Receive, LoadPendingJob,
         SpawnJob, SpawnBatcher, SendToBatcher, SendRefused, Stop, ReturnError, Break, WaitForWorkers,
         Timeout, Join, Cancel, ending
<1>2. timedOut => timedOut'
  BY FrontSteps DEF Dispatch, Acquire, Pop, PopFails, PopUnread, WatchFails, StopDispatcher, SendJob, Route, Receive, LoadPendingJob,
         SpawnJob, SpawnBatcher, SendToBatcher, SendRefused, Stop, ReturnError, Break, WaitForWorkers,
         Timeout, Join, Cancel, ending
<1>3. UNCHANGED cpc \/ cpc' \notin {"wait", "join"} \/ (Break /\ cpc' = "wait") \/ (WaitForWorkers /\ cpc' = "join")
  <2>1. CASE Dispatch \/ PopFails \/ WatchFails
    BY <2>1 DEF Dispatch, Acquire, Pop, PopFails, PopUnread, WatchFails, StopDispatcher, SendJob, coordinator
  <2>2. CASE Route
    BY <2>2 DEF Route, Receive, LoadPendingJob, SpawnJob, SpawnBatcher, SendToBatcher, SendRefused
  <2>3. CASE Stop \/ Cancel
    BY <2>3 DEF Stop, ReturnError, Return, Break, WaitForWorkers, Timeout, Join, Cancel, coordinator
  <2> QED
    BY <2>1, <2>2, <2>3, FrontSteps DEF coordinator
<1>4. cpc' \in {"wait", "join"} => cancelled'
  BY <1>0, <1>1, <1>3 DEF Drained, WaitForWorkers, Break
<1>5. ASSUME UNCHANGED cpc, cpc = "join", ~timedOut PROVE Held' = {} /\ dpc' \notin {"pop", "send"}
  <2>1. Held = {} /\ dpc \notin {"pop", "send"} /\ cancelled
    BY <1>0, <1>5 DEF Drained
  <2>2. ~Pop
    BY <2>1 DEF Pop
  <2>3. Held' = {}
    BY <1>0, <2>1, <2>2, JobsKept
  <2>4. djob' = None
    BY <1>0, <2>3 DEF Held
  <2>5. dpc' # "send"
    BY <1>0, <2>4 DEF HandsOK
  <2>6. dpc' # "pop"
    BY <2>1, FrontSteps DEF Dispatch, Acquire, Pop, PopFails, PopUnread, WatchFails, StopDispatcher, SendJob, Route, Receive, LoadPendingJob,
         SpawnJob, SpawnBatcher, SendToBatcher, SendRefused, Stop, ReturnError, Break, WaitForWorkers,
         Timeout, Join, Cancel, dispatcher
  <2> QED
    BY <2>3, <2>5, <2>6
<1>6. ASSUME WaitForWorkers, ~timedOut PROVE Held' = {} /\ dpc' \notin {"pop", "send"}
  <2>1. Busy = 0 /\ dpc' = dpc
    BY <1>6 DEF WaitForWorkers, dispatcher
  <2>2. Held \subseteq Job
    BY <1>0, HeldJobs
  <2>3. IsFiniteSet(Held) /\ Cardinality(Held) \in Nat
    BY <2>2, Sizes
  <2>4. Cardinality(Held) = 0 /\ dpc \notin {"pop", "late"}
    BY <2>1, <2>3 DEF Busy
  <2>5. Held = {}
    BY <2>3, <2>4, FS_EmptySet
  <2>6. ~Pop
    BY <2>4 DEF Pop
  <2>7. Held' = {}
    BY <1>0, <2>5, <2>6, JobsKept
  <2>8. dpc # "send"
    BY <1>0, <2>5 DEF HandsOK, Held
  <2> QED
    BY <2>1, <2>4, <2>7, <2>8
<1> QED
  BY <1>2, <1>3, <1>4, <1>5, <1>6 DEF Drained, WaitForWorkers

LEMMA CoordinatorInit == Init => CoordinatorInv
<1> SUFFICES ASSUME Init PROVE CoordinatorInv
  OBVIOUS
<1> QED
  BY TypeInit DEF Init, CoordinatorInv, HandsOK, GroupsOK, Accounted, Drained

LEMMA CoordinatorStep == CoordinatorInv /\ [Next]_vars => CoordinatorInv'
<1> SUFFICES ASSUME CoordinatorInv, [Next]_vars PROVE CoordinatorInv'
  OBVIOUS
<1>1. TypeOK' /\ HandsOK' /\ GroupsOK' /\ Accounted'
  BY TypeStep, HandsStep, GroupsStep, JobsKept DEF CoordinatorInv
<1>2. Drained'
  BY DrainedStep
<1> QED
  BY <1>1, <1>2 DEF CoordinatorInv

---------------------------------------------------------------------------
(* The theorems *)

(* What every reachable state satisfies: types, with the capacities of the *)
(* job channel, the batchers' channels and the pending batches; hands and  *)
(* permits; every job of the processing list owed by its holder or         *)
(* abandoned; and nothing held once the permits have been waited for.      *)
THEOREM CoordinatorInvariant == Spec => []CoordinatorInv
BY CoordinatorInit, CoordinatorStep, PTL DEF Spec

(* A job of the processing list is in the hands of the dispatcher, the     *)
(* coordinator, a batcher or a task, unless a Redis error, a cancelled pop *)
(* or the coordinator's return has abandoned it (send_to_batcher,          *)
(* run_batcher, flush_batcher, process_pending_batch).                     *)
THEOREM NothingIsDropped == Spec => []NothingVanishes
<1>1. CoordinatorInv => NothingVanishes
  <2> SUFFICES ASSUME CoordinatorInv, NEW x \in processing, x \notin left PROVE x \in Held
    BY DEF NothingVanishes
  <2>1. x \in Owned
    BY DEF CoordinatorInv, Accounted
  <2>2. ASSUME NEW g \in groups PROVE Owed(g) \subseteq g.hold
    BY <2>2 DEF CoordinatorInv, GroupsOK, Owed
  <2>3. InTasks \subseteq Permits
    BY <2>2 DEF InTasks, Permits
  <2> QED
    BY <2>1, <2>3, Places
<1> QED
  BY <1>1, CoordinatorInvariant, PTL

(* coordinator::run that returns Ok before the shutdown timeout abandons   *)
(* no job by returning, and nobody holds one then, whatever cancellation,  *)
(* batches and the job channel did before (wait_for_workers_to_finish and  *)
(* the join of the JoinSet).                                               *)
THEOREM ShutdownIsClean == Spec => CleanShutdown
<1>1. ASSUME CoordinatorInv, [Next]_vars, cpc # "ok", cpc' = "ok", ~timedOut
      PROVE  left' = left /\ Held' = {}
  <2>1. Join
    <3>1. CASE Dispatch \/ PopFails \/ WatchFails
      BY <1>1, <3>1 DEF Dispatch, Acquire, Pop, PopFails, PopUnread, WatchFails, StopDispatcher, SendJob, coordinator
    <3>2. CASE Route
      BY <1>1, <3>2 DEF Route, Receive, LoadPendingJob, SpawnJob, SpawnBatcher, SendToBatcher, SendRefused
    <3>3. CASE Stop \/ Cancel
      BY <1>1, <3>3 DEF Stop, ReturnError, Return, Break, WaitForWorkers, Timeout, Cancel, coordinator
    <3> QED
      BY <1>1, <3>1, <3>2, <3>3, FrontSteps DEF coordinator
  <2>2. Held = {}
    BY <1>1, <2>1 DEF CoordinatorInv, Drained, Join
  <2>3. ~Pop
    BY <2>1 DEF Join, Pop, dispatcher, Return, coordinator
  <2>4. Held' = {}
    BY <1>1, <2>2, <2>3, JobsKept DEF CoordinatorInv
  <2>5. Range(chan) = {} /\ groups = {}
    BY <2>1, <2>2 DEF Held, Join
  <2>6. left' = left
    BY <2>1, <2>5 DEF Join, Return
  <2> QED
    BY <2>4, <2>6
<1>2. CoordinatorInv /\ [Next]_vars
       => [cpc # "ok" /\ cpc' = "ok" /\ ~timedOut => left' = left /\ Held' = {}]_vars
  BY <1>1
<1> QED
  BY <1>2, CoordinatorInvariant, PTL DEF Spec, CleanShutdown

=============================================================================
