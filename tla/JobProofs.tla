----------------------------- MODULE JobProofs -----------------------------
(***************************************************************************)
(* Proofs about JobLifecycle, for any sets of jobs, processes and permits  *)
(* and any bounds, in three parts: its types; where a job can be lost,     *)
(* whatever the disturbances; and what holds while the system is steady,   *)
(* the refinement of JobService among it.                                  *)
(***************************************************************************)
EXTENDS JobRefinement, SequenceTheorems, TLAPS

USE DEF Mover, ZSet

(* What the Redis list commands return. *)
LEMMA ListTypes ==
    ASSUME NEW list \in [Job -> Nat], NEW j \in Job
    PROVE  /\ LPush(list, j) \in [Job -> Nat]
           /\ LRem(list, j) \in [Job -> Nat]
           /\ LPush(list, j)[j] > 0
           /\ \A i \in Job : LPush(list, j)[i] >= list[i]
           /\ \A i \in Job : i /= j => LRem(list, j)[i] = list[i]
           /\ \A i \in Job : LRem(list, j)[i] <= list[i]
BY DEF LPush, LRem

LEMMA LPushAllType ==
    ASSUME NEW list \in [Job -> Nat], NEW ids \in SUBSET Job
    PROVE  /\ LPushAll(list, ids) \in [Job -> Nat]
           /\ \A i \in Job : LPushAll(list, ids)[i] >= list[i]
           /\ \A i \in ids : LPushAll(list, ids)[i] > 0
BY DEF LPushAll

LEMMA EmptyListType == EmptyList \in [Job -> Nat] /\ \A j \in Job : EmptyList[j] = 0
BY DEF EmptyList

(* LPOP splits a list: what it returns and what it leaves add up. *)
LEMMA LPopType ==
    ASSUME NEW list \in [Job -> Nat], NEW b \in LPop(list, PopLimit)
    PROVE  /\ b \in [Job -> Nat]
           /\ Without(list, b) \in [Job -> Nat]
           /\ \A i \in Job : b[i] <= list[i]
           /\ \A i \in Job : list[i] > 0 => b[i] > 0 \/ Without(list, b)[i] > 0
<1>1. b \in [Job -> 0..PopLimit] /\ \A i \in Job : b[i] <= list[i]
  BY DEF LPop
<1>2. b \in [Job -> Nat]
  BY <1>1, NumbersAssumption
<1> QED
  BY <1>1, <1>2 DEF Without

LEMMA LPushTrimType ==
    ASSUME NEW list \in Seq(Job), NEW j \in Job
    PROVE  LPushTrim(list, j) \in Seq(Job) /\ Len(LPushTrim(list, j)) <= DeadLimit
<1> DEFINE l == <<j>> \o list
<1>1. l \in Seq(Job) /\ Len(l) \in Nat
  OBVIOUS
<1>2. CASE Len(l) > DeadLimit
  <2>1. SubSeq(l, 1, DeadLimit) \in Seq(Job) /\ Len(SubSeq(l, 1, DeadLimit)) = DeadLimit
    BY <1>1, <1>2, NumbersAssumption, SubSeqProperties
  <2> QED
    BY <1>2, <2>1 DEF LPushTrim
<1>3. CASE ~(Len(l) > DeadLimit)
  BY <1>1, <1>3, NumbersAssumption DEF LPushTrim
<1> QED
  BY <1>2, <1>3

---------------------------------------------------------------------------
(* Types *)

LEMMA FreeOK == ASSUME TasksOK, NEW w \in Worker, Free(w) PROVE TasksOK'
BY DEF TasksOK, Free, TaskPC

LEMMA DropTasksOK == ASSUME TasksOK, NEW p \in Proc, DropTasks(p) PROVE TasksOK'
BY DEF TasksOK, DropTasks, TaskPC

LEMMA NextTargetOK ==
    ASSUME ResurrectorsOK, NEW r \in Proc, NEW left \in SUBSET Proc, NextTarget(r, left),
           known' \in [Proc -> SUBSET Proc], UNCHANGED <<batch, found>>
    PROVE  ResurrectorsOK'
<1>1. dying' \in [Proc -> SUBSET Proc]
  BY DEF ResurrectorsOK, NextTarget
<1>2. CASE target' = [target EXCEPT ![r] = None] /\ rpc' = [rpc EXCEPT ![r] = "idle"]
  BY <1>1, <1>2 DEF ResurrectorsOK, ResurrectorPC
<1>3. ASSUME NEW p \in Proc,
             target' = [target EXCEPT ![r] = p] /\ rpc' = [rpc EXCEPT ![r] = "popping"]
      PROVE  ResurrectorsOK'
  BY <1>1, <1>3 DEF ResurrectorsOK, ResurrectorPC
<1> QED
  BY <1>2, <1>3 DEF NextTarget

LEMMA AfterOneOK ==
    ASSUME ResurrectorsOK, NEW r \in Proc, rpc[r] \in {"inspecting", "found"},
           NEW j \in Job, AfterOne(r, j), UNCHANGED <<known, dying, target>>
    PROVE  ResurrectorsOK'
<1>1. batch[r] \in [Job -> Nat]
  BY DEF ResurrectorsOK
<1>2. LRem(batch[r], j) \in [Job -> Nat]
  BY <1>1, ListTypes
<1> QED
  BY <1>2 DEF ResurrectorsOK, AfterOne, ResurrectorPC

LEMMA ResetOK ==
    ASSUME ResurrectorsOK, NEW r \in Proc, NEW at \in {"init", "idle"}, ResetResurrector(r, at)
    PROVE  ResurrectorsOK'
BY EmptyListType DEF ResurrectorsOK, ResetResurrector, ResurrectorPC

(* A group of variables that does not change keeps its types. *)
LEMMA SameOK ==
    /\ RedisOK /\ UNCHANGED redis => RedisOK'
    /\ TasksOK /\ UNCHANGED tasks => TasksOK'
    /\ MoversOK /\ UNCHANGED movers => MoversOK'
    /\ ResurrectorsOK /\ UNCHANGED resurrectors => ResurrectorsOK'
BY DEF redis, tasks, movers, resurrectors, RedisOK, TasksOK, MoversOK, ResurrectorsOK

LEMMA DisturbOK == ASSUME faults \in Nat, NEW k, NEW p, Disturb(k, p) PROVE faults' \in Nat
BY DEF Disturb

LEMMA TypeStep == TypeOK /\ [Next]_vars => TypeOK'
<1> SUFFICES ASSUME TypeOK, [Next]_vars PROVE TypeOK'
  OBVIOUS
<1>a. RedisOK /\ TasksOK /\ MoversOK /\ ResurrectorsOK
  BY DEF TypeOK
<1>1. ASSUME NEW j \in Job, Enqueue(j) PROVE TypeOK'
  <2>1. RedisOK'
    BY <1>a, <1>1, ListTypes DEF Enqueue, RedisOK, Envelope
  <2> QED
    BY <1>a, <1>1, <2>1, SameOK DEF Enqueue, TypeOK, redis, tasks, movers, resurrectors, history
<1>2. ASSUME NEW j \in Job, EnqueueAt(j) PROVE TypeOK'
  <2>1. RedisOK'
    BY <1>a, <1>2 DEF EnqueueAt, RedisOK, Envelope
  <2> QED
    BY <1>a, <1>2, <2>1, SameOK DEF EnqueueAt, TypeOK, redis, tasks, movers, resurrectors, history
<1>3. ASSUME NEW w \in Worker, Dequeue(w) PROVE TypeOK'
  <2>0. PICK j \in Job :
          /\ queue' = LRem(queue, j)
          /\ processing' = [processing EXCEPT ![Host[w]] = LPush(@, j)]
          /\ job' = [job EXCEPT ![w] = j]
    BY <1>3 DEF Dequeue
  <2>1. RedisOK'
    <3>1. queue \in [Job -> Nat] /\ Host[w] \in Proc /\ processing[Host[w]] \in [Job -> Nat]
      BY <1>a, HostAssumption DEF RedisOK
    <3>2. LRem(queue, j) \in [Job -> Nat] /\ LPush(processing[Host[w]], j) \in [Job -> Nat]
      BY <3>1, ListTypes
    <3> QED
      BY <1>a, <1>3, <2>0, <3>1, <3>2 DEF Dequeue, RedisOK
  <2>2. TasksOK'
    BY <1>a, <1>3, <2>0 DEF Dequeue, TasksOK, TaskPC
  <2> QED
    BY <1>a, <1>3, <2>1, <2>2, SameOK DEF Dequeue, TypeOK, redis, tasks, movers, resurrectors, history
<1>4. ASSUME NEW w \in Worker, Load(w) PROVE TypeOK'
  <2>1. TasksOK'
    BY <1>a, <1>4 DEF Load, TasksOK, RedisOK, TaskPC
  <2> QED
    BY <1>a, <1>4, <2>1, SameOK DEF Load, TypeOK, redis, tasks, movers, resurrectors, history
<1>5. ASSUME NEW w \in Worker, LoadMissing(w) PROVE TypeOK'
  <2>1. TasksOK'
    BY <1>a, <1>5 DEF LoadMissing, TasksOK, TaskPC
  <2> QED
    BY <1>a, <1>5, <2>1, SameOK DEF LoadMissing, TypeOK, redis, tasks, movers, resurrectors, history
<1>6. ASSUME NEW w \in Worker, DeleteJob(w) PROVE TypeOK'
  <2>1. RedisOK'
    BY <1>a, <1>6, ListTypes, HostAssumption DEF DeleteJob, RedisOK, TasksOK
  <2>2. TasksOK'
    BY <1>a, <1>6, FreeOK DEF DeleteJob
  <2> QED
    BY <1>a, <1>6, <2>1, <2>2, SameOK DEF DeleteJob, TypeOK, redis, tasks, movers, resurrectors, history
<1>7. ASSUME NEW w \in Worker, SetStartedAt(w) PROVE TypeOK'
  <2>1. RedisOK'
    BY <1>a, <1>7 DEF SetStartedAt, RedisOK, TasksOK
  <2>2. TasksOK'
    BY <1>a, <1>7 DEF SetStartedAt, TasksOK, TaskPC
  <2> QED
    BY <1>a, <1>7, <2>1, <2>2, SameOK DEF SetStartedAt, TypeOK, redis, tasks, movers, resurrectors, history
<1>8. ASSUME NEW w \in Worker, Kill(w) PROVE TypeOK'
  <2>1. job[w] \in Job
    BY <1>a, <1>8 DEF Kill, TasksOK
  <2>2. dead' \in Seq(Job) /\ Len(dead') <= DeadLimit
    BY <1>a, <1>8, <2>1, LPushTrimType DEF Kill, RedisOK
  <2>3. RedisOK'
    BY <1>a, <1>8, <2>1, <2>2, ListTypes, HostAssumption DEF Kill, RedisOK
  <2>4. TasksOK'
    BY <1>a, <1>8, FreeOK DEF Kill
  <2> QED
    BY <1>a, <1>8, <2>1, <2>2, <2>3, <2>4, SameOK DEF Kill, TypeOK, redis, tasks, movers, resurrectors, history
<1>9. ASSUME NEW w \in Worker, FinishWithSuccess(w) PROVE TypeOK'
  <2>1. RedisOK'
    BY <1>a, <1>9, ListTypes, HostAssumption DEF FinishWithSuccess, RedisOK, TasksOK
  <2>2. TasksOK'
    BY <1>a, <1>9, FreeOK DEF FinishWithSuccess
  <2> QED
    BY <1>a, <1>9, <2>1, <2>2, SameOK DEF FinishWithSuccess, TypeOK, TasksOK, redis, tasks, movers, resurrectors, history
<1>10. ASSUME NEW w \in Worker, FinishWithFailure(w) PROVE TypeOK'
  <2>1. RedisOK'
    <3>1. /\ Host[w] \in Proc /\ processing[Host[w]] \in [Job -> Nat] /\ job[w] \in Job
      BY <1>a, <1>10, HostAssumption DEF FinishWithFailure, RedisOK, TasksOK
    <3>2. LRem(processing[Host[w]], job[w]) \in [Job -> Nat]
      BY <3>1, ListTypes
    <3> QED
      BY <1>a, <1>10, <3>1, <3>2 DEF FinishWithFailure, RedisOK
  <2>2. TasksOK'
    BY <1>a, <1>10 DEF FinishWithFailure, TasksOK, TaskPC
  <2> QED
    BY <1>a, <1>10, <2>1, <2>2, SameOK, DisturbOK DEF FinishWithFailure, TypeOK, redis, tasks, movers, resurrectors, history
<1>11. ASSUME NEW w \in Worker, RetryInRead(w) PROVE TypeOK'
  <2>1. TasksOK'
    <3>1. CASE jobs[job[w]] = None
      BY <1>a, <1>11, <3>1, FreeOK DEF RetryInRead
    <3>2. CASE jobs[job[w]] /= None
      <4>1. job[w] \in Job /\ jobs[job[w]] \in [retries : Nat]
        BY <1>a, <1>11, <3>2 DEF RetryInRead, TasksOK, RedisOK, Envelope
      <4>2. [retries |-> jobs[job[w]].retries + 1] \in Envelope
        BY <4>1 DEF Envelope
      <4> QED
        BY <1>a, <1>11, <3>2, <4>1, <4>2 DEF RetryInRead, TasksOK, TaskPC
    <3> QED
      BY <3>1, <3>2
  <2> QED
    BY <1>a, <1>11, <2>1, SameOK DEF RetryInRead, TypeOK, redis, tasks, movers, resurrectors, history
<1>12. ASSUME NEW w \in Worker, RetryInWrite(w) PROVE TypeOK'
  <2>1. RedisOK'
    BY <1>a, <1>12 DEF RetryInWrite, RedisOK, TasksOK
  <2>2. TasksOK'
    BY <1>a, <1>12, FreeOK DEF RetryInWrite
  <2> QED
    BY <1>a, <1>12, <2>1, <2>2, SameOK DEF RetryInWrite, TypeOK, redis, tasks, movers, resurrectors, history
<1>13. ASSUME NEW w \in Worker, LoadFails(w) PROVE TypeOK'
  <2>1. TasksOK'
    BY <1>a, <1>13, FreeOK DEF LoadFails
  <2> QED
    BY <1>a, <1>13, <2>1, SameOK, DisturbOK DEF LoadFails, TypeOK, redis, tasks, movers, resurrectors, history
<1>14. ASSUME NEW w \in Worker, FinishFails(w) PROVE TypeOK'
  <2>1. TasksOK'
    BY <1>a, <1>14, FreeOK DEF FinishFails
  <2> QED
    BY <1>a, <1>14, <2>1, SameOK, DisturbOK DEF FinishFails, TypeOK, redis, tasks, movers, resurrectors, history
<1>15. ASSUME NEW w \in Worker, RetryInFails(w) PROVE TypeOK'
  <2>1. TasksOK'
    BY <1>a, <1>15, FreeOK DEF RetryInFails
  <2> QED
    BY <1>a, <1>15, <2>1, SameOK, DisturbOK DEF RetryInFails, TypeOK, redis, tasks, movers, resurrectors, history
<1>16. ASSUME NEW w \in Worker, SetStartedAtFails(w) PROVE TypeOK'
  <2>1. TasksOK'
    BY <1>a, <1>16, DropTasksOK, HostAssumption DEF SetStartedAtFails
  <2> QED
    BY <1>a, <1>16, <2>1, SameOK, DisturbOK, HostAssumption DEF SetStartedAtFails, TypeOK, redis, tasks, movers, resurrectors, history
<1>17. ASSUME NEW m \in Mover, ListDue(m) PROVE TypeOK'
  <2>1. MoversOK'
    BY <1>a, <1>17 DEF ListDue, MoversOK, MoverPC, RedisOK
  <2> QED
    BY <1>a, <1>17, <2>1, SameOK DEF ListDue, TypeOK, redis, tasks, movers, resurrectors, history
<1>18. ASSUME NEW m \in Mover, Claim(m) PROVE TypeOK'
  <2>1. RedisOK'
    BY <1>a, <1>18 DEF Claim, MoversOK, RedisOK
  <2>2. MoversOK'
    BY <1>a, <1>18 DEF Claim, MoversOK, MoverPC, RedisOK
  <2> QED
    BY <1>a, <1>18, <2>1, <2>2, SameOK DEF Claim, TypeOK, redis, tasks, movers, resurrectors, history
<1>19. ASSUME NEW m \in Mover, GetMany(m) PROVE TypeOK'
  <2>1. MoversOK'
    BY <1>a, <1>19 DEF GetMany, MoversOK, MoverPC
  <2> QED
    BY <1>a, <1>19, <2>1, SameOK DEF GetMany, TypeOK, redis, tasks, movers, resurrectors, history
<1>20. ASSUME NEW m \in Mover, EnqueueClaimed(m) PROVE TypeOK'
  <2>1. RedisOK'
    BY <1>a, <1>20, LPushAllType DEF EnqueueClaimed, MoversOK, RedisOK
  <2>2. MoversOK'
    BY <1>a, <1>20 DEF EnqueueClaimed, MoversOK, MoverPC
  <2> QED
    BY <1>a, <1>20, <2>1, <2>2, SameOK DEF EnqueueClaimed, TypeOK, redis, tasks, movers, resurrectors, history
<1>21. ASSUME NEW m \in Mover, MoverFails(m) PROVE TypeOK'
  <2>1. MoversOK'
    BY <1>a, <1>21 DEF MoverFails, MoversOK, MoverPC
  <2> QED
    BY <1>a, <1>21, <2>1, SameOK, DisturbOK DEF MoverFails, TypeOK, redis, tasks, movers, resurrectors, history
<1>22. ASSUME NEW p \in Proc, InitialPing(p) PROVE TypeOK'
  <2>1. RedisOK'
    BY <1>a, <1>22 DEF InitialPing, RedisOK
  <2>2. ResurrectorsOK'
    BY <1>a, <1>22 DEF InitialPing, ResurrectorsOK, ResurrectorPC
  <2> QED
    BY <1>a, <1>22, <2>1, <2>2, SameOK DEF InitialPing, TypeOK, redis, tasks, movers, resurrectors, history
<1>23. ASSUME NEW p \in Proc, ScanProcesses(p) PROVE TypeOK'
  <2>1. ResurrectorsOK'
    BY <1>a, <1>23 DEF ScanProcesses, ResurrectorsOK, ResurrectorPC
  <2> QED
    BY <1>a, <1>23, <2>1, SameOK DEF ScanProcesses, TypeOK, redis, tasks, movers, resurrectors, history
<1>24. ASSUME NEW p \in Proc, ScanQueues(p) PROVE TypeOK'
  <2>1. known' \in [Proc -> SUBSET Proc] /\ dying[p] \in SUBSET Proc
    BY <1>a, <1>24 DEF ScanQueues, ResurrectorsOK
  <2>2. ResurrectorsOK'
    BY <1>a, <1>24, <2>1, NextTargetOK DEF ScanQueues
  <2> QED
    BY <1>a, <1>24, <2>1, <2>2, SameOK DEF ScanQueues, TypeOK, redis, tasks, movers, resurrectors, history
<1>25. ASSUME NEW p \in Proc, PopProcessing(p) PROVE TypeOK'
  <2>1. target[p] \in Proc /\ processing[target[p]] \in [Job -> Nat]
    BY <1>a, <1>25 DEF PopProcessing, RedisOK, ResurrectorsOK
  <2>2. PICK b \in LPop(processing[target[p]], PopLimit) :
          /\ processing' = [processing EXCEPT ![target[p]] = Without(@, b)]
          /\ batch' = [batch EXCEPT ![p] = b]
          /\ rpc' = [rpc EXCEPT ![p] = IF b = EmptyList THEN "unregistering" ELSE "inspecting"]
          /\ IF b = EmptyList \/ phase[target[p]] = "down"
             THEN UNCHANGED faults
             ELSE faults > 0 /\ faults' = faults - 1
    BY <1>25 DEF PopProcessing
  <2>3. b \in [Job -> Nat] /\ Without(processing[target[p]], b) \in [Job -> Nat]
    BY <2>1, <2>2, LPopType
  <2>4. RedisOK'
    BY <1>a, <1>25, <2>2, <2>3 DEF PopProcessing, RedisOK
  <2>5. ResurrectorsOK'
    BY <1>a, <1>25, <2>1, <2>2, <2>3 DEF PopProcessing, ResurrectorsOK, ResurrectorPC
  <2>6. faults' \in Nat
    BY <2>2 DEF TypeOK
  <2> QED
    BY <1>a, <1>25, <2>4, <2>5, <2>6, SameOK DEF PopProcessing, TypeOK, redis, tasks, movers, resurrectors, history
<1>26. ASSUME NEW p \in Proc, Inspect(p) PROVE TypeOK'
  <2>1. PICK j \in Job :
          \/ AfterOne(p, j)
          \/ /\ found' = [found EXCEPT ![p] = j]
             /\ rpc' = [rpc EXCEPT ![p] = "found"]
             /\ UNCHANGED batch
    BY <1>26 DEF Inspect
  <2>2. CASE AfterOne(p, j)
    <3>1. ResurrectorsOK'
      BY <1>a, <1>26, <2>2, AfterOneOK DEF Inspect
    <3> QED
      BY <1>a, <1>26, <3>1, SameOK DEF Inspect, TypeOK, history
  <2>3. CASE /\ found' = [found EXCEPT ![p] = j]
             /\ rpc' = [rpc EXCEPT ![p] = "found"]
             /\ UNCHANGED batch
    <3>0. rpc[p] = "inspecting" /\ UNCHANGED <<known, dying, target>>
      BY <1>26 DEF Inspect
    <3>1. ResurrectorsOK'
      BY <1>a, <2>3, <3>0 DEF ResurrectorsOK, ResurrectorPC
    <3> QED
      BY <1>a, <1>26, <3>1, SameOK DEF Inspect, TypeOK, history
  <2> QED
    BY <2>1, <2>2, <2>3
<1>27. ASSUME NEW p \in Proc, Resurrect(p) PROVE TypeOK'
  <2>1. found[p] \in Job
    BY <1>a, <1>27 DEF Resurrect, ResurrectorsOK
  <2>2. /\ queue' = queue \/ queue' = LPush(queue, found[p])
        /\ jobs' = jobs \/ jobs' = [jobs EXCEPT ![found[p]] = None]
        /\ settled' = settled \/ settled' = settled \cup {found[p]}
    BY <1>27 DEF Resurrect
  <2>3. RedisOK'
    <3>1. UNCHANGED <<processing, zset, dead, processes>>
      BY <1>27 DEF Resurrect
    <3>q. queue \in [Job -> Nat]
      BY <1>a DEF RedisOK
    <3>p. LPush(queue, found[p]) \in [Job -> Nat]
      BY <2>1, <3>q, ListTypes
    <3>2. queue' \in [Job -> Nat]
      BY <2>2, <3>q, <3>p
    <3>3. jobs' \in [Job -> Envelope \cup {None}]
      BY <1>a, <2>1, <2>2 DEF RedisOK
    <3> QED
      BY <1>a, <3>1, <3>2, <3>3 DEF RedisOK
  <2>4. ResurrectorsOK'
    BY <1>a, <1>27, <2>1, AfterOneOK DEF Resurrect
  <2> QED
    BY <1>a, <1>27, <2>1, <2>2, <2>3, <2>4, SameOK DEF Resurrect, TypeOK
<1>28. ASSUME NEW p \in Proc, Unregister(p) PROVE TypeOK'
  <2>1. RedisOK'
    BY <1>a, <1>28 DEF Unregister, RedisOK, ResurrectorsOK
  <2>2. ResurrectorsOK'
    BY <1>a, <1>28, NextTargetOK DEF Unregister, ResurrectorsOK
  <2> QED
    BY <1>a, <1>28, <2>1, <2>2, SameOK DEF Unregister, TypeOK, redis, tasks, movers, resurrectors, history
<1>29. ASSUME NEW p \in Proc, ResurrectFails(p) PROVE TypeOK'
  <2>1. ResurrectorsOK'
    BY <1>a, <1>29, ResetOK DEF ResurrectFails
  <2> QED
    BY <1>a, <1>29, <2>1, SameOK, DisturbOK DEF ResurrectFails, TypeOK, redis, tasks, movers, resurrectors, history
<1>30. ASSUME NEW p \in Proc, Start(p) PROVE TypeOK'
  <2> QED
    BY <1>a, <1>30, SameOK, DisturbOK DEF Start, TypeOK, redis, tasks, movers, resurrectors, history
<1>31. ASSUME NEW p \in Proc, Crash(p) PROVE TypeOK'
  <2>1. TasksOK'
    BY <1>a, <1>31, DropTasksOK DEF Crash
  <2>2. MoversOK'
    BY <1>a, <1>31 DEF Crash, MoversOK, MoverPC
  <2>3. ResurrectorsOK'
    BY <1>a, <1>31, ResetOK DEF Crash
  <2> QED
    BY <1>a, <1>31, <2>1, <2>2, <2>3, SameOK, DisturbOK DEF Crash, TypeOK, redis, tasks, movers, resurrectors, history
<1>32. ASSUME NEW p \in Proc, Cancel(p) PROVE TypeOK'
  <2> QED
    BY <1>a, <1>32, SameOK, DisturbOK DEF Cancel, TypeOK, redis, tasks, movers, resurrectors, history
<1>33. ASSUME NEW p \in Proc, LeaveLoop(p) PROVE TypeOK'
  <2> QED
    BY <1>a, <1>33, SameOK DEF LeaveLoop, TypeOK, redis, tasks, movers, resurrectors, history
<1>34. ASSUME NEW p \in Proc, Exit(p) PROVE TypeOK'
  <2>1. RedisOK'
    BY <1>a, <1>34 DEF Exit, RedisOK
  <2>2. TasksOK'
    BY <1>a, <1>34, DropTasksOK DEF Exit
  <2>3. ResurrectorsOK'
    BY <1>a, <1>34, ResetOK DEF Exit
  <2> QED
    BY <1>a, <1>34, <2>1, <2>2, <2>3, SameOK DEF Exit, TypeOK, redis, tasks, movers, resurrectors, history
<1>35. ASSUME NEW p \in Proc, Ping(p) PROVE TypeOK'
  <2>1. RedisOK'
    BY <1>a, <1>35 DEF Ping, RedisOK
  <2> QED
    BY <1>a, <1>35, <2>1, SameOK DEF Ping, TypeOK, redis, tasks, movers, resurrectors, history
<1>36. ASSUME NEW p \in Proc, HeartbeatExpires(p) PROVE TypeOK'
  <2>1. RedisOK'
    BY <1>a, <1>36 DEF HeartbeatExpires, RedisOK
  <2> QED
    BY <1>a, <1>36, <2>1, SameOK, DisturbOK DEF HeartbeatExpires, TypeOK, redis, tasks, movers, resurrectors, history
<1>37. CASE UNCHANGED vars
  BY <1>a, <1>37, SameOK DEF vars, history, TypeOK
<1> QED
  BY <1>1, <1>2, <1>3, <1>4, <1>5, <1>6, <1>7, <1>8, <1>9, <1>10, <1>11, <1>12, <1>13, <1>14, <1>15, <1>16, <1>17, <1>18, <1>19, <1>20, <1>21, <1>22, <1>23, <1>24, <1>25, <1>26, <1>27, <1>28, <1>29, <1>30, <1>31, <1>32, <1>33, <1>34, <1>35, <1>36, <1>37 DEF Next, Client, Task, TaskFails, Move, Scan, Process

LEMMA TypeInit == Init => TypeOK
BY EmptyListType, NumbersAssumption
   DEF Init, TypeOK, RedisOK, TasksOK, MoversOK, ResurrectorsOK, TaskPC, MoverPC, ResurrectorPC

(* Every variable keeps its type; a task that is past its load holds an    *)
(* envelope, and a resurrector that empties a list knows whose it is.      *)
THEOREM Typing == Spec => []TypeOK
BY TypeInit, TypeStep, PTL DEF Spec

---------------------------------------------------------------------------
(* Where a job can be lost                                                 *)
(*                                                                         *)
(* The argument: every id that is in a list, a set or the memory of a      *)
(* process belongs to an accepted job; an accepted job that is not settled *)
(* has its envelope (so a reader that finds none may drop the id); and a   *)
(* step that takes an id out of one place puts it into another, or settles *)
(* the job, or is a disturbance of a process that carries the id.          *)

(* The ids in each place are ids of accepted jobs. *)
QueueIds == \A j \in Job : queue[j] > 0 => j \in accepted
ProcessingIds == \A p \in Proc, j \in Job : processing[p][j] > 0 => j \in accepted
ZSetIds == \A z \in ZSet : zset[z] \subseteq accepted
TaskIds == \A w \in Worker : pc[w] /= "free" => job[w] \in accepted
MoverIds == \A m \in Mover : mids[m] \subseteq accepted
ResurrectorIds ==
    \A r \in Proc :
        /\ \A j \in Job : batch[r][j] > 0 => j \in accepted
        /\ rpc[r] = "found" => found[r] \in accepted

IdsAccepted ==
    QueueIds /\ ProcessingIds /\ ZSetIds /\ TaskIds /\ MoverIds /\ ResurrectorIds

(* A job that is not settled has its envelope ... *)
EnvelopesKept == \A j \in accepted : j \notin settled => jobs[j] /= None

(* ... and what a task found missing is settled. *)
MissingSettled == \A w \in Worker : pc[w] = "missing" => job[w] \in settled

(* A resurrector holds popped ids only inside its inner loop. *)
BatchesEmptied ==
    \A r \in Proc : rpc[r] \notin {"inspecting", "found"} => batch[r] = EmptyList

LossInv == TypeOK /\ IdsAccepted /\ EnvelopesKept /\ MissingSettled /\ BatchesEmptied

USE DEF LossInv, IdsAccepted

---------------------------------------------------------------------------
(* LossInv is inductive *)

(* What does not change stays as it is while history only grows. *)
LEMMA LossSame ==
    ASSUME LossInv, accepted \subseteq accepted', settled \subseteq settled'
    PROVE  /\ UNCHANGED queue => QueueIds'
           /\ UNCHANGED processing => ProcessingIds'
           /\ UNCHANGED zset => ZSetIds'
           /\ UNCHANGED <<pc, job>> => TaskIds' /\ MissingSettled'
           /\ UNCHANGED mids => MoverIds'
           /\ UNCHANGED <<rpc, batch, found>> => ResurrectorIds' /\ BatchesEmptied'
           /\ UNCHANGED <<jobs, accepted>> => EnvelopesKept'
BY DEF QueueIds, ProcessingIds, ZSetIds, TaskIds, MissingSettled, MoverIds, ResurrectorIds,
       BatchesEmptied, EnvelopesKept

LEMMA LossFree ==
    ASSUME LossInv, accepted \subseteq accepted', settled \subseteq settled',
           NEW w \in Worker, Free(w)
    PROVE  TaskIds' /\ MissingSettled'
BY DEF Free, TaskIds, MissingSettled, TypeOK, TasksOK

LEMMA LossDropTasks ==
    ASSUME LossInv, accepted \subseteq accepted', settled \subseteq settled',
           NEW p \in Proc, DropTasks(p)
    PROVE  TaskIds' /\ MissingSettled'
BY DEF DropTasks, TaskIds, MissingSettled, TypeOK, TasksOK

(* LREM takes no new id into a list. *)
LEMMA LossLRem ==
    ASSUME LossInv, accepted \subseteq accepted', NEW p \in Proc, NEW j \in Job,
           processing' = [processing EXCEPT ![p] = LRem(@, j)]
    PROVE  ProcessingIds'
<1>1. processing[p] \in [Job -> Nat]
  BY DEF TypeOK, RedisOK
<1>2. \A i \in Job : LRem(processing[p], j)[i] > 0 => processing[p][i] > 0
  BY <1>1, ListTypes DEF LRem
<1> QED
  BY <1>2 DEF ProcessingIds, TypeOK, RedisOK

LEMMA LossReset ==
    ASSUME LossInv, accepted \subseteq accepted', NEW p \in Proc, NEW at \in {"init", "idle"},
           ResetResurrector(p, at)
    PROVE  ResurrectorIds' /\ BatchesEmptied'
<1>1. batch' = [batch EXCEPT ![p] = EmptyList] /\ rpc' = [rpc EXCEPT ![p] = at]
      /\ found' = [found EXCEPT ![p] = None]
  BY DEF ResetResurrector
<1>2. \A r \in Proc : r /= p => batch'[r] = batch[r] /\ rpc'[r] = rpc[r] /\ found'[r] = found[r]
  BY <1>1 DEF TypeOK, ResurrectorsOK
<1>3. batch'[p] = EmptyList /\ rpc'[p] = at
  BY <1>1 DEF TypeOK, ResurrectorsOK
<1>4. ResurrectorIds'
  BY <1>2, <1>3, EmptyListType DEF ResurrectorIds
<1>5. BatchesEmptied'
  BY <1>2, <1>3 DEF BatchesEmptied
<1> QED
  BY <1>4, <1>5

LEMMA LossNextTarget ==
    ASSUME LossInv, accepted \subseteq accepted', NEW r \in Proc, NEW left,
           rpc[r] \notin {"inspecting", "found"}, NextTarget(r, left), UNCHANGED <<batch, found>>
    PROVE  ResurrectorIds' /\ BatchesEmptied'
<1>1. rpc' = [rpc EXCEPT ![r] = "idle"] \/ rpc' = [rpc EXCEPT ![r] = "popping"]
  BY DEF NextTarget
<1>2. \A q \in Proc : rpc'[q] \in {"inspecting", "found"} => q /= r /\ rpc'[q] = rpc[q]
  BY <1>1 DEF TypeOK, ResurrectorsOK
<1>3. \A q \in Proc : rpc'[q] \notin {"inspecting", "found"} => rpc[q] \notin {"inspecting", "found"}
  BY <1>1 DEF TypeOK, ResurrectorsOK
<1> QED
  BY <1>2, <1>3 DEF ResurrectorIds, BatchesEmptied

LEMMA LossAfterOne ==
    ASSUME LossInv, accepted \subseteq accepted', NEW r \in Proc, NEW j \in Job, AfterOne(r, j)
    PROVE  ResurrectorIds' /\ BatchesEmptied'
<1>0. batch[r] \in [Job -> Nat]
  BY DEF TypeOK, ResurrectorsOK
<1>1. /\ batch'[r] = LRem(batch[r], j)
      /\ rpc'[r] = IF LRem(batch[r], j) = EmptyList THEN "popping" ELSE "inspecting"
      /\ \A q \in Proc : q /= r => batch'[q] = batch[q] /\ rpc'[q] = rpc[q] /\ found'[q] = found[q]
  BY DEF AfterOne, TypeOK, ResurrectorsOK
<1>2. \A i \in Job : batch'[r][i] > 0 => batch[r][i] > 0
  BY <1>0, <1>1, ListTypes DEF LRem
<1>3. ResurrectorIds'
  BY <1>1, <1>2 DEF ResurrectorIds
<1>4. BatchesEmptied'
  BY <1>1 DEF BatchesEmptied
<1> QED
  BY <1>3, <1>4

LEMMA LossStep == LossInv /\ [Next]_vars => LossInv'
<1> SUFFICES ASSUME LossInv, [Next]_vars PROVE LossInv'
  OBVIOUS
<1>t. TypeOK'
  BY TypeStep
<1>1. ASSUME NEW j \in Job, Enqueue(j) PROVE LossInv'
  <2>1. accepted \subseteq accepted' /\ settled \subseteq settled'
    BY <1>1 DEF Enqueue, history
  <2>2. QueueIds'
    BY <1>1 DEF Enqueue, QueueIds, LPush, TypeOK, RedisOK
  <2>3. EnvelopesKept'
    BY <1>1, NoneAssumption DEF Enqueue, EnvelopesKept, TypeOK, RedisOK
  <2> QED
    BY <1>1, <1>t, <2>1, <2>2, <2>3, LossSame DEF Enqueue, redis, tasks, movers, resurrectors, history
<1>2. ASSUME NEW j \in Job, EnqueueAt(j) PROVE LossInv'
  <2>1. accepted \subseteq accepted' /\ settled \subseteq settled'
    BY <1>2 DEF EnqueueAt, history
  <2>2. ZSetIds'
    BY <1>2 DEF EnqueueAt, ZSetIds, TypeOK, RedisOK
  <2>3. EnvelopesKept'
    BY <1>2, NoneAssumption DEF EnqueueAt, EnvelopesKept, TypeOK, RedisOK
  <2> QED
    BY <1>2, <1>t, <2>1, <2>2, <2>3, LossSame DEF EnqueueAt, redis, tasks, movers, resurrectors, history
<1>3. ASSUME NEW w \in Worker, Dequeue(w) PROVE LossInv'
  <2>1. accepted \subseteq accepted' /\ settled \subseteq settled'
    BY <1>3 DEF Dequeue, history
  <2>2. PICK j \in Job :
          /\ queue[j] > 0
          /\ queue' = LRem(queue, j)
          /\ processing' = [processing EXCEPT ![Host[w]] = LPush(@, j)]
          /\ job' = [job EXCEPT ![w] = j]
    BY <1>3 DEF Dequeue
  <2>3. j \in accepted /\ accepted' = accepted
    BY <1>3, <2>2 DEF QueueIds, Dequeue, history
  <2>4. QueueIds'
    BY <2>2, <2>3 DEF QueueIds, LRem, TypeOK, RedisOK
  <2>5. ProcessingIds'
    <3>1. \A i \in Job : processing'[Host[w]][i] > 0 => i = j \/ processing[Host[w]][i] > 0
      BY <2>2, HostAssumption DEF LPush, TypeOK, RedisOK
    <3>2. \A q \in Proc : q /= Host[w] => processing'[q] = processing[q]
      BY <2>2 DEF TypeOK, RedisOK
    <3> QED
      BY <2>3, <3>1, <3>2 DEF ProcessingIds
  <2>6. TaskIds' /\ MissingSettled'
    BY <1>3, <2>2, <2>3 DEF Dequeue, TaskIds, MissingSettled, TypeOK, TasksOK, history
  <2> QED
    BY <1>3, <1>t, <2>1, <2>4, <2>5, <2>6, LossSame DEF Dequeue, redis, tasks, movers, resurrectors, history
<1>4. ASSUME NEW w \in Worker, Load(w) PROVE LossInv'
  <2>1. accepted \subseteq accepted' /\ settled \subseteq settled'
    BY <1>4 DEF Load, history
  <2>2. TaskIds' /\ MissingSettled'
    BY <1>4 DEF Load, TaskIds, MissingSettled, TypeOK, TasksOK, history
  <2> QED
    BY <1>4, <1>t, <2>1, <2>2, LossSame DEF Load, redis, tasks, movers, resurrectors, history
<1>5. ASSUME NEW w \in Worker, LoadMissing(w) PROVE LossInv'
  <2>1. accepted \subseteq accepted' /\ settled \subseteq settled'
    BY <1>5 DEF LoadMissing, history
  <2>2. TaskIds' /\ MissingSettled'
    BY <1>5 DEF LoadMissing, TaskIds, MissingSettled, EnvelopesKept, TypeOK, TasksOK, history
  <2> QED
    BY <1>5, <1>t, <2>1, <2>2, LossSame DEF LoadMissing, redis, tasks, movers, resurrectors, history
<1>6. ASSUME NEW w \in Worker, DeleteJob(w) PROVE LossInv'
  <2>1. accepted \subseteq accepted' /\ settled \subseteq settled'
    BY <1>6 DEF DeleteJob, history
  <2>2. ProcessingIds'
    BY <1>6, <2>1, LossLRem, HostAssumption DEF DeleteJob, TypeOK, TasksOK
  <2>3. TaskIds' /\ MissingSettled'
    BY <1>6, <2>1, LossFree DEF DeleteJob
  <2>4. EnvelopesKept'
    BY <1>6 DEF DeleteJob, EnvelopesKept, MissingSettled, TypeOK, RedisOK, history
  <2> QED
    BY <1>6, <1>t, <2>1, <2>2, <2>3, <2>4, LossSame DEF DeleteJob, redis, tasks, movers, resurrectors, history
<1>7. ASSUME NEW w \in Worker, SetStartedAt(w) PROVE LossInv'
  <2>1. accepted \subseteq accepted' /\ settled \subseteq settled'
    BY <1>7 DEF SetStartedAt, history
  <2>2. TaskIds' /\ MissingSettled'
    BY <1>7 DEF SetStartedAt, TaskIds, MissingSettled, TypeOK, TasksOK, history
  <2>3. EnvelopesKept'
    BY <1>7, NoneAssumption DEF SetStartedAt, EnvelopesKept, TypeOK, RedisOK, TasksOK, Envelope, history
  <2> QED
    BY <1>7, <1>t, <2>1, <2>2, <2>3, LossSame DEF SetStartedAt, redis, tasks, movers, resurrectors, history
<1>8. ASSUME NEW w \in Worker, Kill(w) PROVE LossInv'
  <2>1. accepted \subseteq accepted' /\ settled \subseteq settled'
    BY <1>8 DEF Kill, history
  <2>2. ProcessingIds'
    BY <1>8, <2>1, LossLRem, HostAssumption DEF Kill, TypeOK, TasksOK
  <2>3. TaskIds' /\ MissingSettled'
    BY <1>8, <2>1, LossFree DEF Kill
  <2>4. EnvelopesKept'
    BY <1>8 DEF Kill, EnvelopesKept, TypeOK, RedisOK
  <2> QED
    BY <1>8, <1>t, <2>1, <2>2, <2>3, <2>4, LossSame DEF Kill, redis, tasks, movers, resurrectors, history
<1>9. ASSUME NEW w \in Worker, FinishWithSuccess(w) PROVE LossInv'
  <2>1. accepted \subseteq accepted' /\ settled \subseteq settled'
    BY <1>9 DEF FinishWithSuccess, history
  <2>2. ProcessingIds'
    BY <1>9, <2>1, LossLRem, HostAssumption DEF FinishWithSuccess, TypeOK, TasksOK
  <2>3. TaskIds' /\ MissingSettled'
    BY <1>9, <2>1, LossFree DEF FinishWithSuccess
  <2>4. EnvelopesKept'
    BY <1>9 DEF FinishWithSuccess, EnvelopesKept, TypeOK, RedisOK
  <2> QED
    BY <1>9, <1>t, <2>1, <2>2, <2>3, <2>4, LossSame DEF FinishWithSuccess, redis, tasks, movers, resurrectors, history
<1>10. ASSUME NEW w \in Worker, FinishWithFailure(w) PROVE LossInv'
  <2>1. accepted \subseteq accepted' /\ settled \subseteq settled'
    BY <1>10 DEF FinishWithFailure, history
  <2>2. ProcessingIds'
    <3>1. CASE processing' = [processing EXCEPT ![Host[w]] = LRem(@, job[w])]
      BY <1>10, <2>1, <3>1, LossLRem, HostAssumption DEF FinishWithFailure, TypeOK, TasksOK
    <3>2. CASE UNCHANGED processing
      BY <2>1, <3>2, LossSame
    <3> QED
      BY <1>10, <3>1, <3>2 DEF FinishWithFailure
  <2>3. TaskIds' /\ MissingSettled'
    BY <1>10 DEF FinishWithFailure, TaskIds, MissingSettled, TypeOK, TasksOK, history
  <2> QED
    BY <1>10, <1>t, <2>1, <2>2, <2>3, LossSame DEF FinishWithFailure, redis, tasks, movers, resurrectors, history
<1>11. ASSUME NEW w \in Worker, RetryInRead(w) PROVE LossInv'
  <2>1. accepted \subseteq accepted' /\ settled \subseteq settled'
    BY <1>11 DEF RetryInRead, history
  <2>2. TaskIds' /\ MissingSettled'
    <3>1. CASE Free(w)
      BY <2>1, <3>1, LossFree
    <3>2. CASE pc' = [pc EXCEPT ![w] = "retrying"] /\ UNCHANGED job
      BY <1>11, <3>2 DEF RetryInRead, TaskIds, MissingSettled, TypeOK, TasksOK, history
    <3> QED
      BY <1>11, <3>1, <3>2 DEF RetryInRead
  <2> QED
    BY <1>11, <1>t, <2>1, <2>2, LossSame DEF RetryInRead, redis, tasks, movers, resurrectors, history
<1>12. ASSUME NEW w \in Worker, RetryInWrite(w) PROVE LossInv'
  <2>1. accepted \subseteq accepted' /\ settled \subseteq settled'
    BY <1>12 DEF RetryInWrite, history
  <2>2. ZSetIds'
    BY <1>12 DEF RetryInWrite, ZSetIds, TaskIds, TypeOK, RedisOK, history
  <2>3. TaskIds' /\ MissingSettled'
    BY <1>12, <2>1, LossFree DEF RetryInWrite
  <2>4. EnvelopesKept'
    BY <1>12, NoneAssumption DEF RetryInWrite, EnvelopesKept, TypeOK, RedisOK, TasksOK, Envelope, history
  <2> QED
    BY <1>12, <1>t, <2>1, <2>2, <2>3, <2>4, LossSame DEF RetryInWrite, redis, tasks, movers, resurrectors, history
<1>13. ASSUME NEW w \in Worker, LoadFails(w) PROVE LossInv'
  <2>1. accepted \subseteq accepted' /\ settled \subseteq settled'
    BY <1>13 DEF LoadFails, history
  <2>2. TaskIds' /\ MissingSettled'
    BY <1>13, <2>1, LossFree DEF LoadFails
  <2> QED
    BY <1>13, <1>t, <2>1, <2>2, LossSame DEF LoadFails, redis, tasks, movers, resurrectors, history
<1>14. ASSUME NEW w \in Worker, FinishFails(w) PROVE LossInv'
  <2>1. accepted \subseteq accepted' /\ settled \subseteq settled'
    BY <1>14 DEF FinishFails, history
  <2>2. TaskIds' /\ MissingSettled'
    BY <1>14, <2>1, LossFree DEF FinishFails
  <2> QED
    BY <1>14, <1>t, <2>1, <2>2, LossSame DEF FinishFails, redis, tasks, movers, resurrectors, history
<1>15. ASSUME NEW w \in Worker, RetryInFails(w) PROVE LossInv'
  <2>1. accepted \subseteq accepted' /\ settled \subseteq settled'
    BY <1>15 DEF RetryInFails, history
  <2>2. TaskIds' /\ MissingSettled'
    BY <1>15, <2>1, LossFree DEF RetryInFails
  <2> QED
    BY <1>15, <1>t, <2>1, <2>2, LossSame DEF RetryInFails, redis, tasks, movers, resurrectors, history
<1>16. ASSUME NEW w \in Worker, SetStartedAtFails(w) PROVE LossInv'
  <2>1. accepted \subseteq accepted' /\ settled \subseteq settled'
    BY <1>16 DEF SetStartedAtFails, history
  <2>2. TaskIds' /\ MissingSettled'
    BY <1>16, <2>1, LossDropTasks, HostAssumption DEF SetStartedAtFails
  <2> QED
    BY <1>16, <1>t, <2>1, <2>2, LossSame DEF SetStartedAtFails, redis, tasks, movers, resurrectors, history
<1>17. ASSUME NEW m \in Mover, ListDue(m) PROVE LossInv'
  <2>1. accepted \subseteq accepted' /\ settled \subseteq settled'
    BY <1>17 DEF ListDue, history
  <2>2. MoverIds'
    <3>1. PICK due \in SUBSET zset[m[2]] : mids' = [mids EXCEPT ![m] = due]
      BY <1>17 DEF ListDue
    <3>z. m[2] \in ZSet
      OBVIOUS
    <3>2. due \subseteq accepted /\ accepted' = accepted
      BY <1>17, <3>1, <3>z DEF ListDue, ZSetIds, history
    <3> QED
      BY <3>1, <3>2 DEF MoverIds, TypeOK, MoversOK
  <2> QED
    BY <1>17, <1>t, <2>1, <2>2, LossSame DEF ListDue, redis, tasks, movers, resurrectors, history
<1>18. ASSUME NEW m \in Mover, Claim(m) PROVE LossInv'
  <2>1. accepted \subseteq accepted' /\ settled \subseteq settled'
    BY <1>18 DEF Claim, history
  <2>2. ZSetIds'
    BY <1>18 DEF Claim, ZSetIds, TypeOK, RedisOK, history
  <2>3. MoverIds'
    BY <1>18 DEF Claim, MoverIds, TypeOK, MoversOK, history
  <2> QED
    BY <1>18, <1>t, <2>1, <2>2, <2>3, LossSame DEF Claim, redis, tasks, movers, resurrectors, history
<1>19. ASSUME NEW m \in Mover, GetMany(m) PROVE LossInv'
  <2>1. accepted \subseteq accepted' /\ settled \subseteq settled'
    BY <1>19 DEF GetMany, history
  <2>2. MoverIds'
    BY <1>19 DEF GetMany, MoverIds, TypeOK, MoversOK, history
  <2> QED
    BY <1>19, <1>t, <2>1, <2>2, LossSame DEF GetMany, redis, tasks, movers, resurrectors, history
<1>20. ASSUME NEW m \in Mover, EnqueueClaimed(m) PROVE LossInv'
  <2>1. accepted \subseteq accepted' /\ settled \subseteq settled'
    BY <1>20 DEF EnqueueClaimed, history
  <2>2. QueueIds'
    BY <1>20 DEF EnqueueClaimed, QueueIds, MoverIds, LPushAll, TypeOK, RedisOK, MoversOK, history
  <2>3. MoverIds'
    BY <1>20 DEF EnqueueClaimed, MoverIds, TypeOK, MoversOK, history
  <2> QED
    BY <1>20, <1>t, <2>1, <2>2, <2>3, LossSame DEF EnqueueClaimed, redis, tasks, movers, resurrectors, history
<1>21. ASSUME NEW m \in Mover, MoverFails(m) PROVE LossInv'
  <2>1. accepted \subseteq accepted' /\ settled \subseteq settled'
    BY <1>21 DEF MoverFails, history
  <2>2. MoverIds'
    BY <1>21 DEF MoverFails, MoverIds, TypeOK, MoversOK, history
  <2> QED
    BY <1>21, <1>t, <2>1, <2>2, LossSame DEF MoverFails, redis, tasks, movers, resurrectors, history
<1>22. ASSUME NEW p \in Proc, InitialPing(p) PROVE LossInv'
  <2>1. accepted \subseteq accepted' /\ settled \subseteq settled'
    BY <1>22 DEF InitialPing, history
  <2>2. ResurrectorIds' /\ BatchesEmptied'
    BY <1>22 DEF InitialPing, ResurrectorIds, BatchesEmptied, TypeOK, ResurrectorsOK, history
  <2> QED
    BY <1>22, <1>t, <2>1, <2>2, LossSame DEF InitialPing, redis, tasks, movers, resurrectors, history
<1>23. ASSUME NEW p \in Proc, ScanProcesses(p) PROVE LossInv'
  <2>1. accepted \subseteq accepted' /\ settled \subseteq settled'
    BY <1>23 DEF ScanProcesses, history
  <2>2. ResurrectorIds' /\ BatchesEmptied'
    BY <1>23 DEF ScanProcesses, ResurrectorIds, BatchesEmptied, TypeOK, ResurrectorsOK, history
  <2> QED
    BY <1>23, <1>t, <2>1, <2>2, LossSame DEF ScanProcesses, redis, tasks, movers, resurrectors, history
<1>24. ASSUME NEW p \in Proc, ScanQueues(p) PROVE LossInv'
  <2>1. accepted \subseteq accepted' /\ settled \subseteq settled'
    BY <1>24 DEF ScanQueues, history
  <2>2. ResurrectorIds' /\ BatchesEmptied'
    BY <1>24, <2>1, LossNextTarget DEF ScanQueues
  <2> QED
    BY <1>24, <1>t, <2>1, <2>2, LossSame DEF ScanQueues, redis, tasks, movers, resurrectors, history
<1>25. ASSUME NEW p \in Proc, PopProcessing(p) PROVE LossInv'
  <2>1. accepted \subseteq accepted' /\ settled \subseteq settled'
    BY <1>25 DEF PopProcessing, history
  <2>2. target[p] \in Proc /\ processing[target[p]] \in [Job -> Nat]
    BY <1>25 DEF PopProcessing, TypeOK, RedisOK, ResurrectorsOK
  <2>3. PICK b \in LPop(processing[target[p]], PopLimit) :
          /\ processing' = [processing EXCEPT ![target[p]] = Without(@, b)]
          /\ batch' = [batch EXCEPT ![p] = b]
          /\ rpc' = [rpc EXCEPT ![p] = IF b = EmptyList THEN "unregistering" ELSE "inspecting"]
    BY <1>25 DEF PopProcessing
  <2>4. \A i \in Job : /\ b[i] \in Nat /\ b[i] <= processing[target[p]][i]
                       /\ Without(processing[target[p]], b)[i] <= processing[target[p]][i]
    BY <2>2, <2>3, LPopType DEF Without
  <2>5. ProcessingIds'
    <3>0. /\ processing'[target[p]] = Without(processing[target[p]], b)
          /\ Without(processing[target[p]], b) \in [Job -> Nat]
      BY <2>2, <2>3, LPopType DEF TypeOK, RedisOK
    <3>1. \A i \in Job : processing'[target[p]][i] > 0 => processing[target[p]][i] > 0
      BY <2>2, <2>4, <3>0
    <3>2. \A q \in Proc : q /= target[p] => processing'[q] = processing[q]
      BY <2>3 DEF TypeOK, RedisOK
    <3> QED
      BY <2>1, <3>1, <3>2 DEF ProcessingIds
  <2>6. ResurrectorIds' /\ BatchesEmptied'
    <3>1. \A i \in Job : b[i] > 0 => i \in accepted
      BY <2>2, <2>4 DEF ProcessingIds
    <3>2. batch'[p] = b /\ rpc'[p] = IF b = EmptyList THEN "unregistering" ELSE "inspecting"
      BY <2>3 DEF TypeOK, ResurrectorsOK
    <3>3. \A q \in Proc : q /= p => batch'[q] = batch[q] /\ rpc'[q] = rpc[q]
      BY <2>3 DEF TypeOK, ResurrectorsOK
    <3>4. UNCHANGED found
      BY <1>25 DEF PopProcessing
    <3> QED
      BY <2>1, <3>1, <3>2, <3>3, <3>4 DEF ResurrectorIds, BatchesEmptied
  <2> QED
    BY <1>25, <1>t, <2>1, <2>5, <2>6, LossSame DEF PopProcessing, redis, tasks, movers, resurrectors, history
<1>26. ASSUME NEW p \in Proc, Inspect(p) PROVE LossInv'
  <2>1. accepted \subseteq accepted' /\ settled \subseteq settled'
    BY <1>26 DEF Inspect, history
  <2>2. PICK j \in Job :
          /\ batch[p][j] > 0
          /\ \/ AfterOne(p, j)
             \/ /\ found' = [found EXCEPT ![p] = j]
                /\ rpc' = [rpc EXCEPT ![p] = "found"]
                /\ UNCHANGED batch
    BY <1>26 DEF Inspect
  <2>3. ResurrectorIds' /\ BatchesEmptied'
    <3>1. CASE AfterOne(p, j)
      BY <2>1, <3>1, LossAfterOne
    <3>2. CASE /\ found' = [found EXCEPT ![p] = j]
               /\ rpc' = [rpc EXCEPT ![p] = "found"]
               /\ UNCHANGED batch
      BY <2>1, <2>2, <3>2 DEF ResurrectorIds, BatchesEmptied, TypeOK, ResurrectorsOK
    <3> QED
      BY <2>2, <3>1, <3>2
  <2> QED
    BY <1>26, <1>t, <2>1, <2>3, LossSame DEF Inspect, redis, tasks, movers, resurrectors, history
<1>27. ASSUME NEW p \in Proc, Resurrect(p) PROVE LossInv'
  <2>1. accepted \subseteq accepted' /\ settled \subseteq settled'
    BY <1>27 DEF Resurrect, history
  <2>2. found[p] \in Job /\ found[p] \in accepted /\ accepted' = accepted
    BY <1>27 DEF Resurrect, ResurrectorIds, TypeOK, ResurrectorsOK
  <2>3. ResurrectorIds' /\ BatchesEmptied'
    BY <1>27, <2>1, <2>2, LossAfterOne DEF Resurrect
  <2>4. UNCHANGED <<processing, zset, pc, job, mids>>
    BY <1>27 DEF Resurrect, tasks, movers
  <2>5. QueueIds' /\ EnvelopesKept'
    <3>1. CASE queue' = LPush(queue, found[p]) /\ UNCHANGED <<jobs, settled>>
      BY <2>2, <3>1 DEF QueueIds, EnvelopesKept, LPush, TypeOK, RedisOK
    <3>2. CASE jobs' = [jobs EXCEPT ![found[p]] = None] /\ settled' = settled \cup {found[p]}
               /\ UNCHANGED queue
      BY <2>2, <3>2 DEF QueueIds, EnvelopesKept, TypeOK, RedisOK
    <3> QED
      BY <1>27, <3>1, <3>2 DEF Resurrect
  <2> QED
    BY <1>t, <2>1, <2>3, <2>4, <2>5, LossSame
<1>28. ASSUME NEW p \in Proc, Unregister(p) PROVE LossInv'
  <2>1. accepted \subseteq accepted' /\ settled \subseteq settled'
    BY <1>28 DEF Unregister, history
  <2>2. ResurrectorIds' /\ BatchesEmptied'
    BY <1>28, <2>1, LossNextTarget DEF Unregister
  <2> QED
    BY <1>28, <1>t, <2>1, <2>2, LossSame DEF Unregister, redis, tasks, movers, resurrectors, history
<1>29. ASSUME NEW p \in Proc, ResurrectFails(p) PROVE LossInv'
  <2>1. accepted \subseteq accepted' /\ settled \subseteq settled'
    BY <1>29 DEF ResurrectFails, history
  <2>2. ResurrectorIds' /\ BatchesEmptied'
    BY <1>29, <2>1, LossReset DEF ResurrectFails
  <2> QED
    BY <1>29, <1>t, <2>1, <2>2, LossSame DEF ResurrectFails, redis, tasks, movers, resurrectors, history
<1>30. ASSUME NEW p \in Proc, Start(p) PROVE LossInv'
  <2>1. accepted \subseteq accepted' /\ settled \subseteq settled'
    BY <1>30 DEF Start, history
  <2> QED
    BY <1>30, <1>t, <2>1, LossSame DEF Start, redis, tasks, movers, resurrectors, history
<1>31. ASSUME NEW p \in Proc, Crash(p) PROVE LossInv'
  <2>1. accepted \subseteq accepted' /\ settled \subseteq settled'
    BY <1>31 DEF Crash, history
  <2>2. TaskIds' /\ MissingSettled'
    BY <1>31, <2>1, LossDropTasks DEF Crash
  <2>3. MoverIds'
    BY <1>31 DEF Crash, MoverIds, TypeOK, MoversOK, history
  <2>4. ResurrectorIds' /\ BatchesEmptied'
    BY <1>31, <2>1, LossReset DEF Crash
  <2> QED
    BY <1>31, <1>t, <2>1, <2>2, <2>3, <2>4, LossSame DEF Crash, redis, tasks, movers, resurrectors, history
<1>32. ASSUME NEW p \in Proc, Cancel(p) PROVE LossInv'
  <2>1. accepted \subseteq accepted' /\ settled \subseteq settled'
    BY <1>32 DEF Cancel, history
  <2> QED
    BY <1>32, <1>t, <2>1, LossSame DEF Cancel, redis, tasks, movers, resurrectors, history
<1>33. ASSUME NEW p \in Proc, LeaveLoop(p) PROVE LossInv'
  <2>1. accepted \subseteq accepted' /\ settled \subseteq settled'
    BY <1>33 DEF LeaveLoop, history
  <2> QED
    BY <1>33, <1>t, <2>1, LossSame DEF LeaveLoop, redis, tasks, movers, resurrectors, history
<1>34. ASSUME NEW p \in Proc, Exit(p) PROVE LossInv'
  <2>1. accepted \subseteq accepted' /\ settled \subseteq settled'
    BY <1>34 DEF Exit, history
  <2>2. TaskIds' /\ MissingSettled'
    BY <1>34, <2>1, LossDropTasks DEF Exit
  <2>3. ResurrectorIds' /\ BatchesEmptied'
    BY <1>34, <2>1, LossReset DEF Exit
  <2> QED
    BY <1>34, <1>t, <2>1, <2>2, <2>3, LossSame DEF Exit, redis, tasks, movers, resurrectors, history
<1>35. ASSUME NEW p \in Proc, Ping(p) PROVE LossInv'
  <2>1. accepted \subseteq accepted' /\ settled \subseteq settled'
    BY <1>35 DEF Ping, history
  <2> QED
    BY <1>35, <1>t, <2>1, LossSame DEF Ping, redis, tasks, movers, resurrectors, history
<1>36. ASSUME NEW p \in Proc, HeartbeatExpires(p) PROVE LossInv'
  <2>1. accepted \subseteq accepted' /\ settled \subseteq settled'
    BY <1>36 DEF HeartbeatExpires, history
  <2> QED
    BY <1>36, <1>t, <2>1, LossSame DEF HeartbeatExpires, redis, tasks, movers, resurrectors, history
<1>37. CASE UNCHANGED vars
  BY <1>37, <1>t, LossSame DEF vars, redis, tasks, movers, resurrectors, history
<1> QED
  BY <1>1, <1>2, <1>3, <1>4, <1>5, <1>6, <1>7, <1>8, <1>9, <1>10, <1>11, <1>12, <1>13,
     <1>14, <1>15, <1>16, <1>17, <1>18, <1>19, <1>20, <1>21, <1>22, <1>23, <1>24, <1>25,
     <1>26, <1>27, <1>28, <1>29, <1>30, <1>31, <1>32, <1>33, <1>34, <1>35, <1>36, <1>37
     DEF Next, Client, Task, TaskFails, Move, Scan, Process

LEMMA LossInit == Init => LossInv
<1> SUFFICES ASSUME Init PROVE LossInv
  OBVIOUS
<1>1. TypeOK
  BY TypeInit
<1> QED
  BY <1>1, EmptyListType DEF Init, QueueIds, ProcessingIds, ZSetIds, TaskIds, MoverIds,
     ResurrectorIds, EnvelopesKept, MissingSettled, BatchesEmptied

(* Ids in Redis and in memory belong to accepted jobs, an unsettled job    *)
(* has its envelope, and a resurrector holds ids only inside its loop.     *)
THEOREM LossInvariant == Spec => []LossInv
BY LossInit, LossStep, PTL DEF Spec

---------------------------------------------------------------------------
(* Where job j is *)

InQueue(j) == queue[j] > 0
InProcessing(j) == \E p \in Proc : processing[p][j] > 0
InZSet(j) == \E z \in ZSet : j \in zset[z]
InTask(j) == \E w \in Worker : pc[w] \in {"released", "retrying"} /\ job[w] = j
InMover(j) == \E m \in Mover : mpc[m] \in {"claimed", "fetched"} /\ j \in mids[m]
InBatch(j) == \E p \in Proc : batch[p][j] > 0

Placed(j) ==
    InQueue(j) \/ InProcessing(j) \/ InZSet(j) \/ InTask(j) \/ InMover(j) \/ InBatch(j)

(* Some process may crash or see a Redis call fail. *)
AnyLoss == \E p \in Proc : <<"crash", p>> \in Faults \/ <<"redis", p>> \in Faults

(* A crash or a failed call while j is carried in memory. *)
Disturbance(j) ==
    /\ faults' < faults
    /\ InTask(j) \/ InMover(j) \/ InBatch(j)
    /\ AnyLoss

LEMMA DisturbCounts ==
    ASSUME TypeOK, NEW p \in Proc, NEW k \in {"crash", "redis"}, Disturb(k, p)
    PROVE  faults' < faults /\ AnyLoss
<1>1. faults' < faults
  BY DEF Disturb, TypeOK
<1>2. AnyLoss
  BY DEF Disturb, AnyLoss
<1> QED
  BY <1>1, <1>2

LEMMA PlacedMeans ==
    ASSUME NEW j \in Job
    PROVE  /\ Placed(j) <=> Durable(j) \/ \E p \in Proc : Carries(p, j)
           /\ InTask(j) \/ InMover(j) \/ InBatch(j) => \E p \in Proc : Carries(p, j)
<1>1. InTask(j) => \E p \in Proc : Carries(p, j)
  BY HostAssumption DEF InTask, Carries
<1>2. InMover(j) => \E p \in Proc : Carries(p, j)
  <2> SUFFICES ASSUME NEW m \in Mover, mpc[m] \in {"claimed", "fetched"}, j \in mids[m]
               PROVE  \E p \in Proc : Carries(p, j)
    BY DEF InMover
  <2>1. PICK p \in Proc, z \in ZSet : m = <<p, z>>
    OBVIOUS
  <2> QED
    BY <2>1 DEF Carries
<1>3. InBatch(j) => \E p \in Proc : Carries(p, j)
  BY DEF InBatch, Carries
<1>4. ASSUME NEW p \in Proc, Carries(p, j) PROVE InTask(j) \/ InMover(j) \/ InBatch(j)
  <2>1. ASSUME NEW z \in ZSet, mpc[<<p, z>>] \in {"claimed", "fetched"}, j \in mids[<<p, z>>]
        PROVE  InMover(j)
    <3>1. <<p, z>> \in Mover
      OBVIOUS
    <3> QED
      BY <2>1, <3>1 DEF InMover
  <2> QED
    BY <1>4, <2>1 DEF Carries, InTask, InBatch
<1> QED
  BY <1>1, <1>2, <1>3, <1>4 DEF Placed, Durable, InQueue, InProcessing, InZSet

LEMMA PlaceSame ==
    ASSUME NEW j \in Job
    PROVE  /\ UNCHANGED queue => InQueue(j)' = InQueue(j)
           /\ UNCHANGED processing => InProcessing(j)' = InProcessing(j)
           /\ UNCHANGED zset => InZSet(j)' = InZSet(j)
           /\ UNCHANGED <<pc, job>> => InTask(j)' = InTask(j)
           /\ UNCHANGED <<mpc, mids>> => InMover(j)' = InMover(j)
           /\ UNCHANGED batch => InBatch(j)' = InBatch(j)
BY DEF InQueue, InProcessing, InZSet, InTask, InMover, InBatch

(* A task that does not carry j may go where it likes. *)
LEMMA TaskKept ==
    ASSUME NEW j \in Job, NEW w \in Worker,
           pc[w] \notin {"released", "retrying"} \/ job[w] /= j,
           \A v \in Worker : v /= w => pc'[v] = pc[v] /\ job'[v] = job[v]
    PROVE  InTask(j) => InTask(j)'
BY DEF InTask

LEMMA FreeKeeps ==
    ASSUME TypeOK, NEW j \in Job, NEW w \in Worker, Free(w),
           pc[w] \notin {"released", "retrying"} \/ job[w] /= j
    PROVE  InTask(j) => InTask(j)'
BY TaskKept DEF Free, TypeOK, TasksOK

LEMMA LRemKeeps ==
    ASSUME TypeOK, NEW i \in Job, NEW j \in Job, i /= j, NEW p \in Proc,
           processing' = [processing EXCEPT ![p] = LRem(@, i)]
    PROVE  InProcessing(j) => InProcessing(j)'
<1>1. processing'[p][j] = processing[p][j]
  BY DEF LRem, TypeOK, RedisOK
<1>2. \A q \in Proc : q /= p => processing'[q] = processing[q]
  BY DEF TypeOK, RedisOK
<1> QED
  BY <1>1, <1>2 DEF InProcessing

LEMMA AfterOneKeeps ==
    ASSUME TypeOK, NEW i \in Job, NEW j \in Job, i /= j, NEW p \in Proc, AfterOne(p, i)
    PROVE  InBatch(j) => InBatch(j)'
<1>1. batch'[p][j] = batch[p][j]
  BY DEF AfterOne, LRem, TypeOK, ResurrectorsOK
<1>2. \A q \in Proc : q /= p => batch'[q] = batch[q]
  BY DEF AfterOne, TypeOK, ResurrectorsOK
<1> QED
  BY <1>1, <1>2 DEF InBatch

(* A step takes an unsettled job from one place to another, settles it, or *)
(* is a disturbance of a process that carries it.                          *)
LEMMA PlacedStep ==
    ASSUME LossInv, [Next]_vars, NEW j \in accepted, j \in Job, j \notin settled, j \notin settled',
           Placed(j)
    PROVE  Placed(j)' \/ Disturbance(j)
<1>1. ASSUME NEW i \in Job, Enqueue(i) PROVE Placed(j)'
  <2>1. InQueue(j) => InQueue(j)'
    BY <1>1 DEF Enqueue, InQueue, LPush, TypeOK, RedisOK
  <2> QED
    BY <1>1, <2>1, PlaceSame DEF Enqueue, Placed, redis, tasks, movers, resurrectors, history
<1>2. ASSUME NEW i \in Job, EnqueueAt(i) PROVE Placed(j)'
  <2>1. InZSet(j) => InZSet(j)'
    BY <1>2 DEF EnqueueAt, InZSet, TypeOK, RedisOK
  <2> QED
    BY <1>2, <2>1, PlaceSame DEF EnqueueAt, Placed, redis, tasks, movers, resurrectors, history
<1>3. ASSUME NEW w \in Worker, Dequeue(w) PROVE Placed(j)'
  <2>1. PICK i \in Job :
          /\ queue' = LRem(queue, i)
          /\ processing' = [processing EXCEPT ![Host[w]] = LPush(@, i)]
          /\ job' = [job EXCEPT ![w] = i]
    BY <1>3 DEF Dequeue
  <2>2. /\ processing'[Host[w]][i] > 0
        /\ \A q \in Proc : processing[q][j] > 0 => processing'[q][j] > 0
    BY <2>1, HostAssumption DEF LPush, TypeOK, RedisOK
  <2>3. InProcessing(j) => InProcessing(j)'
    BY <2>2 DEF InProcessing
  <2>4. InQueue(j) => InQueue(j)' \/ InProcessing(j)'
    BY <2>1, <2>2, HostAssumption DEF InQueue, InProcessing, LRem, TypeOK, RedisOK
  <2>5. InTask(j) => InTask(j)'
    BY <1>3, <2>1, TaskKept DEF Dequeue
  <2> QED
    BY <1>3, <2>3, <2>4, <2>5, PlaceSame DEF Dequeue, Placed, redis, tasks, movers, resurrectors, history
<1>4. ASSUME NEW w \in Worker, Load(w) PROVE Placed(j)'
  <2>1. /\ pc[w] \notin {"released", "retrying"}
        /\ \A v \in Worker : v /= w => pc'[v] = pc[v] /\ job'[v] = job[v]
    BY <1>4 DEF Load, TypeOK, TasksOK
  <2>2. InTask(j) => InTask(j)'
    BY <2>1, TaskKept
  <2> QED
    BY <1>4, <2>2, PlaceSame DEF Load, Placed, redis, tasks, movers, resurrectors, history
<1>5. ASSUME NEW w \in Worker, LoadMissing(w) PROVE Placed(j)'
  <2>1. /\ pc[w] \notin {"released", "retrying"}
        /\ \A v \in Worker : v /= w => pc'[v] = pc[v] /\ job'[v] = job[v]
    BY <1>5 DEF LoadMissing, TypeOK, TasksOK
  <2>2. InTask(j) => InTask(j)'
    BY <2>1, TaskKept
  <2> QED
    BY <1>5, <2>2, PlaceSame DEF LoadMissing, Placed, redis, tasks, movers, resurrectors, history
<1>6. ASSUME NEW w \in Worker, SetStartedAt(w) PROVE Placed(j)'
  <2>1. /\ pc[w] \notin {"released", "retrying"}
        /\ \A v \in Worker : v /= w => pc'[v] = pc[v] /\ job'[v] = job[v]
    BY <1>6 DEF SetStartedAt, TypeOK, TasksOK
  <2>2. InTask(j) => InTask(j)'
    BY <2>1, TaskKept
  <2> QED
    BY <1>6, <2>2, PlaceSame DEF SetStartedAt, Placed, redis, tasks, movers, resurrectors, history
<1>7. ASSUME NEW w \in Worker, DeleteJob(w) PROVE Placed(j)'
  <2>1. job[w] \in Job /\ job[w] /= j
    BY <1>7 DEF DeleteJob, MissingSettled, TypeOK, TasksOK, history
  <2>2. InTask(j) => InTask(j)'
    BY <1>7, <2>1, FreeKeeps DEF DeleteJob
  <2>3. InProcessing(j) => InProcessing(j)'
    BY <1>7, <2>1, LRemKeeps, HostAssumption DEF DeleteJob
  <2> QED
    BY <1>7, <2>2, <2>3, PlaceSame DEF DeleteJob, Placed, redis, tasks, movers, resurrectors, history
<1>8. ASSUME NEW w \in Worker, Kill(w) PROVE Placed(j)'
  <2>1. job[w] \in Job /\ job[w] /= j
    BY <1>8 DEF Kill, TypeOK, TasksOK, history
  <2>2. InTask(j) => InTask(j)'
    BY <1>8, <2>1, FreeKeeps DEF Kill
  <2>3. InProcessing(j) => InProcessing(j)'
    BY <1>8, <2>1, LRemKeeps, HostAssumption DEF Kill
  <2> QED
    BY <1>8, <2>2, <2>3, PlaceSame DEF Kill, Placed, redis, tasks, movers, resurrectors, history
<1>9. ASSUME NEW w \in Worker, FinishWithSuccess(w) PROVE Placed(j)'
  <2>1. job[w] \in Job /\ job[w] /= j
    BY <1>9 DEF FinishWithSuccess, TypeOK, TasksOK, history
  <2>2. InTask(j) => InTask(j)'
    BY <1>9, <2>1, FreeKeeps DEF FinishWithSuccess
  <2>3. InProcessing(j) => InProcessing(j)'
    BY <1>9, <2>1, LRemKeeps, HostAssumption DEF FinishWithSuccess
  <2> QED
    BY <1>9, <2>2, <2>3, PlaceSame DEF FinishWithSuccess, Placed, redis, tasks, movers, resurrectors, history
<1>10. ASSUME NEW w \in Worker, FinishWithFailure(w) PROVE Placed(j)'
  <2>1. job[w] \in Job /\ job' = job /\ pc' = [pc EXCEPT ![w] = "released"]
    BY <1>10 DEF FinishWithFailure, TypeOK, TasksOK
  <2>2. InTask(j) => InTask(j)'
    BY <1>10, <2>1, TaskKept DEF FinishWithFailure, TypeOK, TasksOK
  <2>3. InProcessing(j) => InProcessing(j)' \/ InTask(j)'
    <3>1. CASE job[w] = j
      BY <2>1, <3>1 DEF InTask, TypeOK, TasksOK
    <3>2. CASE job[w] /= j /\ processing' = [processing EXCEPT ![Host[w]] = LRem(@, job[w])]
      BY <2>1, <3>2, LRemKeeps, HostAssumption
    <3>3. CASE UNCHANGED processing
      BY <3>3, PlaceSame
    <3> QED
      BY <1>10, <3>1, <3>2, <3>3 DEF FinishWithFailure
  <2> QED
    BY <1>10, <2>2, <2>3, PlaceSame DEF FinishWithFailure, Placed, redis, tasks, movers, resurrectors, history
<1>11. ASSUME NEW w \in Worker, RetryInRead(w) PROVE Placed(j)'
  <2>1. InTask(j) => InTask(j)'
    <3>1. CASE jobs[job[w]] = None
      <4>1. job[w] /= j /\ Free(w)
        BY <1>11, <3>1 DEF RetryInRead, EnvelopesKept, history
      <4> QED
        BY <4>1, FreeKeeps
    <3>2. CASE pc' = [pc EXCEPT ![w] = "retrying"] /\ UNCHANGED job
      BY <3>2 DEF InTask, TypeOK, TasksOK
    <3> QED
      BY <1>11, <3>1, <3>2 DEF RetryInRead
  <2> QED
    BY <1>11, <2>1, PlaceSame DEF RetryInRead, Placed, redis, tasks, movers, resurrectors, history
<1>12. ASSUME NEW w \in Worker, RetryInWrite(w) PROVE Placed(j)'
  <2>1. InTask(j) => InTask(j)' \/ InZSet(j)'
    <3>1. CASE job[w] = j
      BY <1>12, <3>1 DEF RetryInWrite, InZSet, TypeOK, RedisOK
    <3>2. CASE job[w] /= j
      BY <1>12, <3>2, FreeKeeps DEF RetryInWrite
    <3> QED
      BY <3>1, <3>2
  <2>2. InZSet(j) => InZSet(j)'
    BY <1>12 DEF RetryInWrite, InZSet, TypeOK, RedisOK
  <2> QED
    BY <1>12, <2>1, <2>2, PlaceSame DEF RetryInWrite, Placed, redis, tasks, movers, resurrectors, history
<1>13. ASSUME NEW w \in Worker, LoadFails(w) PROVE Placed(j)'
  <2>1. InTask(j) => InTask(j)'
    BY <1>13, FreeKeeps DEF LoadFails
  <2> QED
    BY <1>13, <2>1, PlaceSame DEF LoadFails, Placed, redis, tasks, movers, resurrectors, history
<1>14. ASSUME NEW w \in Worker, FinishFails(w) PROVE Placed(j)'
  <2>1. InTask(j) => InTask(j)'
    BY <1>14, FreeKeeps DEF FinishFails
  <2> QED
    BY <1>14, <2>1, PlaceSame DEF FinishFails, Placed, redis, tasks, movers, resurrectors, history
<1>15. ASSUME NEW w \in Worker, RetryInFails(w) PROVE Placed(j)' \/ Disturbance(j)
  <2>1. Host[w] \in Proc /\ Disturb("redis", Host[w])
    BY <1>15, HostAssumption DEF RetryInFails
  <2>2. faults' < faults /\ AnyLoss
    BY <2>1, DisturbCounts
  <2> QED
    BY <1>15, <2>2, PlaceSame DEF RetryInFails, Placed, Disturbance, redis, tasks, movers, resurrectors, history
<1>16. ASSUME NEW w \in Worker, SetStartedAtFails(w) PROVE Placed(j)' \/ Disturbance(j)
  <2>1. Host[w] \in Proc /\ Disturb("redis", Host[w])
    BY <1>16, HostAssumption DEF SetStartedAtFails
  <2>2. faults' < faults /\ AnyLoss
    BY <2>1, DisturbCounts
  <2> QED
    BY <1>16, <2>2, PlaceSame DEF SetStartedAtFails, Placed, Disturbance, redis, tasks, movers, resurrectors, history
<1>17. ASSUME NEW m \in Mover, ListDue(m) PROVE Placed(j)'
  <2>1. InMover(j) => InMover(j)'
    BY <1>17 DEF ListDue, InMover, TypeOK, MoversOK
  <2> QED
    BY <1>17, <2>1, PlaceSame DEF ListDue, Placed, redis, tasks, movers, resurrectors, history
<1>18. ASSUME NEW m \in Mover, Claim(m) PROVE Placed(j)'
  <2>1. InZSet(j) => InZSet(j)' \/ InMover(j)'
    BY <1>18 DEF Claim, InZSet, InMover, TypeOK, RedisOK, MoversOK
  <2>2. InMover(j) => InMover(j)'
    BY <1>18 DEF Claim, InMover, TypeOK, MoversOK
  <2> QED
    BY <1>18, <2>1, <2>2, PlaceSame DEF Claim, Placed, redis, tasks, movers, resurrectors, history
<1>19. ASSUME NEW m \in Mover, GetMany(m) PROVE Placed(j)'
  <2>1. jobs[j] /= None
    BY <1>19 DEF GetMany, EnvelopesKept, history
  <2>2. InMover(j) => InMover(j)'
    BY <1>19, <2>1 DEF GetMany, InMover, TypeOK, MoversOK
  <2> QED
    BY <1>19, <2>1, <2>2, PlaceSame DEF GetMany, Placed, redis, tasks, movers, resurrectors, history
<1>20. ASSUME NEW m \in Mover, EnqueueClaimed(m) PROVE Placed(j)'
  <2>1. InQueue(j) => InQueue(j)'
    BY <1>20 DEF EnqueueClaimed, InQueue, LPushAll, TypeOK, RedisOK
  <2>2. InMover(j) => InMover(j)' \/ InQueue(j)'
    BY <1>20 DEF EnqueueClaimed, InMover, InQueue, LPushAll, TypeOK, RedisOK, MoversOK
  <2> QED
    BY <1>20, <2>1, <2>2, PlaceSame DEF EnqueueClaimed, Placed, redis, tasks, movers, resurrectors, history
<1>21. ASSUME NEW m \in Mover, MoverFails(m) PROVE Placed(j)' \/ Disturbance(j)
  <2>1. m[1] \in Proc /\ Disturb("redis", m[1])
    BY <1>21, HostAssumption DEF MoverFails
  <2>2. faults' < faults /\ AnyLoss
    BY <2>1, DisturbCounts
  <2> QED
    BY <1>21, <2>2, PlaceSame DEF MoverFails, Placed, Disturbance, redis, tasks, movers, resurrectors, history
<1>22. ASSUME NEW p \in Proc, InitialPing(p) PROVE Placed(j)'
  <2> QED
    BY <1>22, PlaceSame DEF InitialPing, Placed, redis, tasks, movers, resurrectors, history
<1>23. ASSUME NEW p \in Proc, ScanProcesses(p) PROVE Placed(j)'
  <2> QED
    BY <1>23, PlaceSame DEF ScanProcesses, Placed, redis, tasks, movers, resurrectors, history
<1>24. ASSUME NEW p \in Proc, ScanQueues(p) PROVE Placed(j)'
  <2> QED
    BY <1>24, PlaceSame DEF ScanQueues, Placed, redis, tasks, movers, resurrectors, history
<1>25. ASSUME NEW p \in Proc, PopProcessing(p) PROVE Placed(j)'
  <2>1. /\ target[p] \in Proc /\ processing[target[p]] \in [Job -> Nat]
        /\ batch[p] = EmptyList
    BY <1>25 DEF PopProcessing, BatchesEmptied, TypeOK, RedisOK, ResurrectorsOK
  <2>2. PICK b \in LPop(processing[target[p]], PopLimit) :
          /\ processing' = [processing EXCEPT ![target[p]] = Without(@, b)]
          /\ batch' = [batch EXCEPT ![p] = b]
    BY <1>25 DEF PopProcessing
  <2>3. processing[target[p]][j] > 0 => b[j] > 0 \/ Without(processing[target[p]], b)[j] > 0
    BY <2>1, <2>2, LPopType
  <2>4. /\ processing'[target[p]] = Without(processing[target[p]], b)
        /\ batch'[p] = b
        /\ \A q \in Proc : q /= target[p] => processing'[q] = processing[q]
        /\ \A q \in Proc : q /= p => batch'[q] = batch[q]
    BY <2>1, <2>2 DEF TypeOK, RedisOK, ResurrectorsOK
  <2>5. InProcessing(j) => InProcessing(j)' \/ InBatch(j)'
    BY <2>1, <2>3, <2>4 DEF InProcessing, InBatch
  <2>6. InBatch(j) => InBatch(j)'
    BY <2>1, <2>4, EmptyListType DEF InBatch
  <2> QED
    BY <1>25, <2>5, <2>6, PlaceSame DEF PopProcessing, Placed, redis, tasks, movers, resurrectors, history
<1>26. ASSUME NEW p \in Proc, Inspect(p) PROVE Placed(j)'
  <2>1. PICK i \in Job :
          \/ jobs[i] = None /\ AfterOne(p, i)
          \/ UNCHANGED batch
    BY <1>26 DEF Inspect
  <2>2. jobs[j] /= None
    BY <1>26 DEF Inspect, EnvelopesKept, history
  <2>3. InBatch(j) => InBatch(j)'
    <3>1. CASE jobs[i] = None /\ AfterOne(p, i)
      BY <2>2, <3>1, AfterOneKeeps
    <3>2. CASE UNCHANGED batch
      BY <3>2, PlaceSame
    <3> QED
      BY <2>1, <3>1, <3>2
  <2> QED
    BY <1>26, <2>3, PlaceSame DEF Inspect, Placed, redis, tasks, movers, resurrectors, history
<1>27. ASSUME NEW p \in Proc, Resurrect(p) PROVE Placed(j)'
  <2>1. found[p] \in Job /\ AfterOne(p, found[p])
    BY <1>27 DEF Resurrect, TypeOK, ResurrectorsOK
  <2>2. UNCHANGED <<processing, zset, pc, job, mpc, mids>>
    BY <1>27 DEF Resurrect, tasks, movers
  <2>3. CASE found[p] = j
    <3>1. queue' = LPush(queue, j)
      BY <1>27, <2>3 DEF Resurrect
    <3>2. InQueue(j)'
      BY <3>1 DEF InQueue, LPush, TypeOK, RedisOK
    <3> QED
      BY <3>2 DEF Placed
  <2>4. CASE found[p] /= j
    <3>1. InBatch(j) => InBatch(j)'
      BY <2>1, <2>4, AfterOneKeeps
    <3>2. queue' = queue \/ queue' = LPush(queue, found[p])
      BY <1>27 DEF Resurrect
    <3>3. InQueue(j) => InQueue(j)'
      BY <2>1, <2>4, <3>2 DEF InQueue, LPush, TypeOK, RedisOK
    <3> QED
      BY <2>2, <3>1, <3>3, PlaceSame DEF Placed
  <2> QED
    BY <2>3, <2>4
<1>28. ASSUME NEW p \in Proc, Unregister(p) PROVE Placed(j)'
  <2> QED
    BY <1>28, PlaceSame DEF Unregister, Placed, redis, tasks, movers, resurrectors, history
<1>29. ASSUME NEW r \in Proc, ResurrectFails(r) PROVE Placed(j)' \/ Disturbance(j)
  <2>1. r \in Proc /\ Disturb("redis", r)
    BY <1>29, HostAssumption DEF ResurrectFails
  <2>2. faults' < faults /\ AnyLoss
    BY <2>1, DisturbCounts
  <2> QED
    BY <1>29, <2>2, PlaceSame DEF ResurrectFails, Placed, Disturbance, redis, tasks, movers, resurrectors, history
<1>30. ASSUME NEW p \in Proc, Start(p) PROVE Placed(j)'
  <2> QED
    BY <1>30, PlaceSame DEF Start, Placed, redis, tasks, movers, resurrectors, history
<1>31. ASSUME NEW r \in Proc, Crash(r) PROVE Placed(j)' \/ Disturbance(j)
  <2>1. r \in Proc /\ Disturb("crash", r)
    BY <1>31, HostAssumption DEF Crash
  <2>2. faults' < faults /\ AnyLoss
    BY <2>1, DisturbCounts
  <2> QED
    BY <1>31, <2>2, PlaceSame DEF Crash, Placed, Disturbance, redis, tasks, movers, resurrectors, history
<1>32. ASSUME NEW p \in Proc, Cancel(p) PROVE Placed(j)'
  <2> QED
    BY <1>32, PlaceSame DEF Cancel, Placed, redis, tasks, movers, resurrectors, history
<1>33. ASSUME NEW p \in Proc, LeaveLoop(p) PROVE Placed(j)'
  <2> QED
    BY <1>33, PlaceSame DEF LeaveLoop, Placed, redis, tasks, movers, resurrectors, history
<1>34. ASSUME NEW p \in Proc, Exit(p) PROVE Placed(j)'
  <2>1. InTask(j) => InTask(j)'
    BY <1>34 DEF Exit, DropTasks, InTask, TypeOK, TasksOK
  <2>2. batch' = [batch EXCEPT ![p] = EmptyList] /\ batch[p] = EmptyList
    BY <1>34 DEF Exit, ResetResurrector, BatchesEmptied
  <2>3. InBatch(j) => InBatch(j)'
    BY <2>2 DEF InBatch, TypeOK, ResurrectorsOK
  <2> QED
    BY <1>34, <2>1, <2>3, PlaceSame DEF Exit, Placed, redis, tasks, movers, resurrectors, history
<1>35. ASSUME NEW p \in Proc, Ping(p) PROVE Placed(j)'
  <2> QED
    BY <1>35, PlaceSame DEF Ping, Placed, redis, tasks, movers, resurrectors, history
<1>36. ASSUME NEW p \in Proc, HeartbeatExpires(p) PROVE Placed(j)'
  <2> QED
    BY <1>36, PlaceSame DEF HeartbeatExpires, Placed, redis, tasks, movers, resurrectors, history
<1>37. CASE UNCHANGED vars
  BY <1>37, PlaceSame DEF vars, Placed, redis, tasks, movers, resurrectors, history
<1> QED
  BY <1>1, <1>2, <1>3, <1>4, <1>5, <1>6, <1>7, <1>8, <1>9, <1>10, <1>11, <1>12, <1>13,
     <1>14, <1>15, <1>16, <1>17, <1>18, <1>19, <1>20, <1>21, <1>22, <1>23, <1>24, <1>25,
     <1>26, <1>27, <1>28, <1>29, <1>30, <1>31, <1>32, <1>33, <1>34, <1>35, <1>36, <1>37
     DEF Next, Client, Task, TaskFails, Move, Scan, Process

(* Only a client accepts jobs, and what it accepts it puts into a list or  *)
(* a set; nothing is ever unsettled.                                       *)
LEMMA HistoryGrows ==
    ASSUME [Next]_vars
    PROVE  accepted \subseteq accepted' /\ settled \subseteq settled'
           /\ (UNCHANGED accepted \/ \E j \in Job : Enqueue(j) \/ EnqueueAt(j))
<1> DEFINE Grows == UNCHANGED accepted /\ settled \subseteq settled'
<1>1. CASE Client
  BY <1>1 DEF Client, Enqueue, EnqueueAt
<1>2. ASSUME NEW w \in Worker, Task(w) PROVE Grows
  BY <1>2 DEF Task, Dequeue, Load, LoadMissing, DeleteJob, SetStartedAt, Kill,
     FinishWithSuccess, FinishWithFailure, RetryInRead, RetryInWrite, history
<1>3. ASSUME NEW w \in Worker, TaskFails(w) PROVE Grows
  BY <1>3 DEF TaskFails, LoadFails, SetStartedAtFails, FinishFails, RetryInFails, history
<1>4. ASSUME NEW m \in Mover, Move(m) PROVE Grows
  BY <1>4 DEF Move, ListDue, Claim, GetMany, EnqueueClaimed, history
<1>5. ASSUME NEW m \in Mover, MoverFails(m) PROVE Grows
  BY <1>5 DEF MoverFails, history
<1>6. ASSUME NEW p \in Proc, Scan(p) PROVE Grows
  BY <1>6 DEF Scan, InitialPing, ScanProcesses, ScanQueues, PopProcessing, Inspect,
     Resurrect, Unregister, history
<1>7. ASSUME NEW p \in Proc, ResurrectFails(p) PROVE Grows
  BY <1>7 DEF ResurrectFails, history
<1>8. ASSUME NEW p \in Proc, Process(p) PROVE Grows
  BY <1>8 DEF Process, Start, Crash, Cancel, LeaveLoop, Exit, Ping, HeartbeatExpires,
     history
<1>9. CASE UNCHANGED vars
  BY <1>9 DEF vars, history
<1> QED
  BY <1>1, <1>2, <1>3, <1>4, <1>5, <1>6, <1>7, <1>8, <1>9 DEF Next, Client

LEMMA NewlySafe ==
    ASSUME LossInv', TypeOK, [Next]_vars, NEW j \in accepted', j \notin accepted
    PROVE  Safe(j)'
<1>1. PICK i \in Job : Enqueue(i) \/ EnqueueAt(i)
  BY HistoryGrows
<1>2. i = j /\ jobs'[j] /= None
  BY <1>1, NoneAssumption DEF Enqueue, EnqueueAt, TypeOK, RedisOK
<1>3. CASE Enqueue(i)
  <2>1. queue'[j] > 0
    BY <1>2, <1>3 DEF Enqueue, LPush, TypeOK, RedisOK
  <2> QED
    BY <1>2, <2>1 DEF Safe, Durable
<1>4. CASE EnqueueAt(i)
  <2>1. j \in zset'["schedule"]
    BY <1>2, <1>4 DEF EnqueueAt, TypeOK, RedisOK
  <2> QED
    BY <1>2, <2>1 DEF Safe, Durable
<1> QED
  BY <1>1, <1>3, <1>4

(* PlacedMeans, of the next state. *)
PlacedIsSafe == \A j \in Job : Placed(j) <=> Durable(j) \/ \E p \in Proc : Carries(p, j)

LEMMA PlacedMeansAlways == PlacedIsSafe
BY PlacedMeans DEF PlacedIsSafe

LEMMA PlacedMeansNext == PlacedIsSafe'
BY PlacedMeansAlways, PTL

(* A step that loses j is a disturbance of a process that carries it. *)
LEMMA SafeStep ==
    ASSUME LossInv, LossInv', [Next]_vars, NEW j \in accepted, Safe(j), ~Safe(j)'
    PROVE  /\ faults' < faults /\ AnyLoss
           /\ \E p \in Proc : Carries(p, j) /\ ~Carries(p, j)'
<1>1. j \in Job /\ j \in accepted' /\ settled \subseteq settled'
  BY HistoryGrows DEF TypeOK
<1>2. j \notin settled' /\ jobs'[j] /= None
  BY <1>1 DEF Safe, EnvelopesKept
<1>3. ~Placed(j)' /\ \A p \in Proc : ~Carries(p, j)'
  BY <1>1, <1>2, PlacedMeansNext DEF Safe, PlacedIsSafe
<1>4. Placed(j)
  BY <1>1, <1>2, PlacedMeans DEF Safe
<1>5. Disturbance(j)
  BY <1>1, <1>2, <1>3, <1>4, PlacedStep
<1> QED
  BY <1>1, <1>3, <1>5, PlacedMeans DEF Disturbance

(* LostOnlyInTransit holds of every system: a job is forgotten only by a   *)
(* process that carries it between two Redis keys, and only by a crash or  *)
(* a failed call of that process.                                          *)
THEOREM LossOnlyInTransit == Spec => LostOnlyInTransit
<1>1. LossInv /\ LossInv' /\ [Next]_vars =>
        [\A j \in accepted : Safe(j) /\ ~Safe(j)' =>
            \E p \in Proc : Carries(p, j) /\ ~Carries(p, j)' /\ faults' < faults]_vars
  BY SafeStep
<1> QED
  BY <1>1, LossInvariant, PTL DEF Spec, LostOnlyInTransit

(* Where no process crashes and no Redis call fails, no job is lost,       *)
(* however often processes start, stop, or are taken for dead while alive. *)
THEOREM NothingLost ==
    ASSUME ~AnyLoss
    PROVE  Spec => []NoJobLost
<1>1. Init => NoJobLost
  BY DEF Init, NoJobLost
<1>2. LossInv /\ LossInv' /\ NoJobLost /\ [Next]_vars => NoJobLost'
  <2> SUFFICES ASSUME LossInv, LossInv', NoJobLost, [Next]_vars, NEW j \in accepted' PROVE Safe(j)'
    BY DEF NoJobLost
  <2>1. CASE j \in accepted
    BY <2>1, SafeStep DEF NoJobLost
  <2>2. CASE j \notin accepted
    BY <2>2, NewlySafe
  <2> QED
    BY <2>1, <2>2
<1> QED
  BY <1>1, <1>2, LossInvariant, PTL DEF Spec

---------------------------------------------------------------------------
(* What holds as long as processes may crash and be stopped, but a running *)
(* process pings in time, no process comes back under an id that was used  *)
(* before, and Redis answers: every job is in at most one place, so it is  *)
(* run once at a time, its envelope is written by one task at a time, and  *)
(* its outcome is final.  Then JobLifecycle implements JobService.         *)

(* The disturbances the argument allows. *)
Steady == Faults \subseteq {"crash", "stop"} \X Proc

(* Nothing but a crash or a stop disturbs a steady system. *)
LEMMA SteadyFaults ==
    ASSUME Steady, NEW k, NEW p, Disturb(k, p)
    PROVE  k \in {"crash", "stop"}
BY DEF Steady, Disturb

---------------------------------------------------------------------------
(* Only processes that are down are taken for dead *)

UpIsFresh == \A p \in Proc : phase[p] /= "down" => processes[p] = "fresh"
DyingDown == \A r \in Proc : \A p \in dying[r] : phase[p] = "down"
ScansSeeAll ==
    \A r \in Proc : rpc[r] = "scanning" => \A p \in Proc : phase[p] /= "down" => p \in known[r]
TargetsDown ==
    \A r \in Proc : rpc[r] \in {"popping", "inspecting", "found", "unregistering"}
                      => phase[target[r]] = "down"

Heartbeats == UpIsFresh /\ DyingDown /\ ScansSeeAll /\ TargetsDown

(* A process that is down runs nothing. *)
DownIdle == \A w \in Worker : phase[Host[w]] = "down" => pc[w] = "free"

LEMMA HeartbeatsSame ==
    ASSUME Heartbeats, UNCHANGED <<phase, processes, rpc, known, dying, target>>
    PROVE  Heartbeats'
BY DEF Heartbeats, UpIsFresh, DyingDown, ScansSeeAll, TargetsDown

(* The head of the loop over dead processes, when all of them are down. *)
LEMMA NextTargetDown ==
    ASSUME TypeOK, Heartbeats, UNCHANGED phase, NEW r \in Proc,
           NEW left \in SUBSET Proc, \A p \in left : phase[p] = "down",
           NextTarget(r, left), \A q \in Proc : q /= r => known'[q] = known[q]
    PROVE  DyingDown' /\ ScansSeeAll' /\ TargetsDown'
<1>1. /\ dying' = [dying EXCEPT ![r] = left]
      /\ \/ target' = [target EXCEPT ![r] = None] /\ rpc' = [rpc EXCEPT ![r] = "idle"]
         \/ \E p \in left : target' = [target EXCEPT ![r] = p] /\ rpc' = [rpc EXCEPT ![r] = "popping"]
  BY DEF NextTarget
<1>2. DyingDown'
  BY <1>1 DEF Heartbeats, DyingDown, TypeOK, ResurrectorsOK
<1>3. ScansSeeAll'
  BY <1>1 DEF Heartbeats, ScansSeeAll, TypeOK, ResurrectorsOK
<1>4. TargetsDown'
  BY <1>1 DEF Heartbeats, TargetsDown, TypeOK, ResurrectorsOK
<1> QED
  BY <1>2, <1>3, <1>4

(* A process that goes down, with its own loop reset. *)
LEMMA GoesDown ==
    ASSUME TypeOK, Heartbeats, NEW p \in Proc, phase' = [phase EXCEPT ![p] = "down"],
           ResetResurrector(p, "init"),
           \A q \in Proc : q /= p => processes'[q] = processes[q]
    PROVE  Heartbeats'
<1>1. \A q \in Proc : phase'[q] /= "down" => q /= p /\ phase[q] /= "down"
  BY DEF TypeOK
<1>2. \A q \in Proc : phase[q] = "down" => phase'[q] = "down"
  BY DEF TypeOK
<1>3. /\ rpc'[p] = "init" /\ dying'[p] = {}
      /\ \A r \in Proc : r /= p => /\ rpc'[r] = rpc[r] /\ dying'[r] = dying[r]
                                   /\ known'[r] = known[r] /\ target'[r] = target[r]
  BY DEF ResetResurrector, TypeOK, ResurrectorsOK
<1>4. UpIsFresh'
  BY <1>1 DEF Heartbeats, UpIsFresh
<1>5. DyingDown'
  BY <1>2, <1>3 DEF Heartbeats, DyingDown, TypeOK, ResurrectorsOK
<1>6. ScansSeeAll'
  BY <1>1, <1>3 DEF Heartbeats, ScansSeeAll
<1>7. TargetsDown'
  BY <1>2, <1>3 DEF Heartbeats, TargetsDown, TypeOK, ResurrectorsOK
<1> QED
  BY <1>4, <1>5, <1>6, <1>7 DEF Heartbeats

LEMMA HeartbeatsStep ==
    ASSUME Steady, LossInv, Heartbeats, [Next]_vars
    PROVE  Heartbeats'
<1>0. TypeOK
  OBVIOUS
<1>1. CASE Client
  BY <1>1, HeartbeatsSame DEF Client, Enqueue, EnqueueAt, resurrectors
<1>2. ASSUME NEW w \in Worker, Task(w) PROVE Heartbeats'
  BY <1>2, HeartbeatsSame DEF Task, Dequeue, Load, LoadMissing, DeleteJob, SetStartedAt, Kill,
     FinishWithSuccess, FinishWithFailure, RetryInRead, RetryInWrite, redis, resurrectors
<1>3. ASSUME NEW w \in Worker, TaskFails(w) PROVE Heartbeats'
  BY <1>3, SteadyFaults DEF TaskFails, LoadFails, SetStartedAtFails, FinishFails, RetryInFails
<1>4. ASSUME NEW m \in Mover, Move(m) \/ MoverFails(m) PROVE Heartbeats'
  BY <1>4, HeartbeatsSame DEF Move, ListDue, Claim, GetMany, EnqueueClaimed, MoverFails,
     redis, resurrectors
<1>5. ASSUME NEW r \in Proc, InitialPing(r) PROVE Heartbeats'
  <2>1. UpIsFresh'
    BY <1>0, <1>5 DEF InitialPing, Heartbeats, UpIsFresh, TypeOK, RedisOK
  <2> QED
    BY <1>0, <1>5, <2>1 DEF InitialPing, Heartbeats, DyingDown, ScansSeeAll, TargetsDown,
       TypeOK, ResurrectorsOK
<1>6. ASSUME NEW r \in Proc, ScanProcesses(r) PROVE Heartbeats'
  <2>1. /\ known'[r] = {p \in Proc : processes[p] /= "absent"}
        /\ dying'[r] = {p \in Proc : processes[p] = "stale"}
        /\ rpc'[r] = "scanning"
        /\ \A q \in Proc : q /= r => /\ known'[q] = known[q] /\ dying'[q] = dying[q]
                                     /\ rpc'[q] = rpc[q]
    BY <1>0, <1>6 DEF ScanProcesses, TypeOK, ResurrectorsOK
  <2>2. UNCHANGED <<phase, processes, target>>
    BY <1>6 DEF ScanProcesses, redis
  <2>3. DyingDown'
    BY <1>0, <2>1, <2>2 DEF Heartbeats, DyingDown, UpIsFresh
  <2>4. ScansSeeAll'
    BY <1>0, <2>1, <2>2 DEF Heartbeats, ScansSeeAll, UpIsFresh
  <2>5. TargetsDown' /\ UpIsFresh'
    BY <1>0, <2>1, <2>2 DEF Heartbeats, TargetsDown, UpIsFresh
  <2> QED
    BY <2>3, <2>4, <2>5 DEF Heartbeats
<1>7. ASSUME NEW r \in Proc, ScanQueues(r) PROVE Heartbeats'
  <2> DEFINE left == dying[r] \cup {p \in Proc \ known[r] : processing[p] /= EmptyList}
  <2>1. left \in SUBSET Proc /\ \A p \in left : phase[p] = "down"
    BY <1>0, <1>7 DEF ScanQueues, Heartbeats, DyingDown, ScansSeeAll, TypeOK, ResurrectorsOK
  <2>2. NextTarget(r, left) /\ UNCHANGED phase /\ \A q \in Proc : q /= r => known'[q] = known[q]
    BY <1>0, <1>7 DEF ScanQueues, TypeOK, ResurrectorsOK
  <2>3. DyingDown' /\ ScansSeeAll' /\ TargetsDown'
    BY <1>0, <2>1, <2>2, NextTargetDown
  <2> QED
    BY <1>7, <2>3 DEF ScanQueues, Heartbeats, UpIsFresh, redis
<1>8. ASSUME NEW r \in Proc, PopProcessing(r) PROVE Heartbeats'
  <2>1. /\ rpc'[r] \in {"unregistering", "inspecting"} /\ rpc[r] = "popping"
        /\ \A q \in Proc : q /= r => rpc'[q] = rpc[q]
        /\ UNCHANGED <<phase, processes, known, dying, target>>
    BY <1>0, <1>8 DEF PopProcessing, TypeOK, ResurrectorsOK
  <2> QED
    BY <2>1 DEF Heartbeats, UpIsFresh, DyingDown, ScansSeeAll, TargetsDown
<1>9. ASSUME NEW r \in Proc, Inspect(r) \/ Resurrect(r) PROVE Heartbeats'
  <2>1. /\ rpc'[r] \in {"popping", "inspecting", "found"} /\ rpc[r] \in {"inspecting", "found"}
        /\ \A q \in Proc : q /= r => rpc'[q] = rpc[q]
        /\ UNCHANGED <<phase, processes, known, dying, target>>
    BY <1>0, <1>9 DEF Inspect, Resurrect, AfterOne, TypeOK, ResurrectorsOK, redis
  <2> QED
    BY <2>1 DEF Heartbeats, UpIsFresh, DyingDown, ScansSeeAll, TargetsDown
<1>10. ASSUME NEW r \in Proc, Unregister(r) PROVE Heartbeats'
  <2>1. target[r] \in Proc /\ phase[target[r]] = "down"
    BY <1>0, <1>10 DEF Unregister, Heartbeats, TargetsDown, TypeOK, ResurrectorsOK
  <2>2. UpIsFresh'
    BY <1>0, <1>10, <2>1 DEF Unregister, Heartbeats, UpIsFresh, TypeOK, RedisOK
  <2>3. dying[r] \ {target[r]} \in SUBSET Proc /\ \A p \in dying[r] \ {target[r]} : phase[p] = "down"
    BY <1>0 DEF Heartbeats, DyingDown, TypeOK, ResurrectorsOK
  <2>4. NextTarget(r, dying[r] \ {target[r]}) /\ UNCHANGED <<phase, known>>
    BY <1>10 DEF Unregister
  <2> QED
    BY <1>0, <2>2, <2>3, <2>4, NextTargetDown DEF Heartbeats
<1>11. ASSUME NEW p \in Proc, ResurrectFails(p) \/ Start(p) PROVE Heartbeats'
  BY <1>11, SteadyFaults DEF ResurrectFails, Start
<1>12. ASSUME NEW p \in Proc, Crash(p) PROVE Heartbeats'
  BY <1>0, <1>12, GoesDown DEF Crash, redis
<1>13. ASSUME NEW p \in Proc, Exit(p) PROVE Heartbeats'
  <2>1. \A q \in Proc : q /= p => processes'[q] = processes[q]
    BY <1>0, <1>13 DEF Exit, TypeOK, RedisOK
  <2> QED
    BY <1>0, <1>13, <2>1, GoesDown DEF Exit
<1>14. ASSUME NEW p \in Proc, Cancel(p) \/ LeaveLoop(p) PROVE Heartbeats'
  <2>1. /\ \A q \in Proc : phase'[q] = "down" <=> phase[q] = "down"
        /\ UNCHANGED <<processes, rpc, known, dying, target>>
    BY <1>0, <1>14 DEF Cancel, LeaveLoop, redis, resurrectors, TypeOK
  <2> QED
    BY <1>0, <2>1 DEF Heartbeats, UpIsFresh, DyingDown, ScansSeeAll, TargetsDown, TypeOK,
       ResurrectorsOK
<1>15. ASSUME NEW p \in Proc, Ping(p) PROVE Heartbeats'
  BY <1>0, <1>15 DEF Ping, resurrectors, Heartbeats, UpIsFresh, DyingDown, ScansSeeAll,
     TargetsDown, TypeOK, RedisOK
<1>16. ASSUME NEW p \in Proc, HeartbeatExpires(p) PROVE Heartbeats'
  <2>1. phase[p] = "down"
    BY <1>16, SteadyFaults DEF HeartbeatExpires
  <2> QED
    BY <1>0, <1>16, <2>1 DEF HeartbeatExpires, resurrectors, Heartbeats, UpIsFresh, DyingDown,
       ScansSeeAll, TargetsDown, TypeOK, RedisOK
<1>17. CASE UNCHANGED vars
  BY <1>17, HeartbeatsSame DEF vars, redis, resurrectors
<1> QED
  BY <1>1, <1>2, <1>3, <1>4, <1>5, <1>6, <1>7, <1>8, <1>9, <1>10, <1>11, <1>12, <1>13, <1>14,
     <1>15, <1>16, <1>17 DEF Next, Scan, Process

(* A dispatcher takes a job only while its process is up. *)
LEMMA DownIdleStep ==
    ASSUME Steady, TypeOK, DownIdle, [Next]_vars
    PROVE  DownIdle'
<1>1. ASSUME NEW w \in Worker, Task(w) PROVE DownIdle'
  <2>1. UNCHANGED phase /\ \A v \in Worker : v /= w => pc'[v] = pc[v]
    BY <1>1 DEF Task, Dequeue, Load, LoadMissing, DeleteJob, SetStartedAt, Kill, Free,
       FinishWithSuccess, FinishWithFailure, RetryInRead, RetryInWrite, TypeOK, TasksOK
  <2>2. phase[Host[w]] /= "down"
    BY <1>1 DEF Task, Dequeue, Load, LoadMissing, DeleteJob, SetStartedAt, Kill, Dispatching,
       FinishWithSuccess, FinishWithFailure, RetryInRead, RetryInWrite, DownIdle
  <2> QED
    BY <2>1, <2>2 DEF DownIdle
<1>2. ASSUME NEW w \in Worker, TaskFails(w) PROVE DownIdle'
  BY <1>2, SteadyFaults DEF TaskFails, LoadFails, SetStartedAtFails, FinishFails, RetryInFails
<1>3. ASSUME NEW p \in Proc, Crash(p) \/ Exit(p) PROVE DownIdle'
  <2>1. \A w \in Worker : pc'[w] = IF Host[w] = p THEN "free" ELSE pc[w]
    BY <1>3 DEF Crash, Exit, DropTasks
  <2>2. \A q \in Proc : q /= p => phase'[q] = phase[q]
    BY <1>3 DEF Crash, Exit, TypeOK
  <2> QED
    BY <2>1, <2>2, HostAssumption DEF DownIdle
<1>4. ASSUME NEW p \in Proc, Start(p) \/ Cancel(p) \/ LeaveLoop(p) PROVE DownIdle'
  <2>1. UNCHANGED pc /\ \A q \in Proc : phase'[q] = "down" => phase[q] = "down"
    BY <1>4 DEF Start, Cancel, LeaveLoop, tasks, TypeOK
  <2> QED
    BY <2>1, HostAssumption DEF DownIdle
<1>5. CASE UNCHANGED <<phase, pc>>
  BY <1>5 DEF DownIdle
<1>6. CASE Client
  BY <1>5, <1>6 DEF Client, Enqueue, EnqueueAt, tasks
<1>7. ASSUME NEW m \in Mover, Move(m) \/ MoverFails(m) PROVE DownIdle'
  BY <1>5, <1>7 DEF Move, ListDue, Claim, GetMany, EnqueueClaimed, MoverFails, tasks
<1>8. ASSUME NEW p \in Proc, Scan(p) \/ ResurrectFails(p) \/ Ping(p) \/ HeartbeatExpires(p)
      PROVE  DownIdle'
  BY <1>5, <1>8 DEF Scan, InitialPing, ScanProcesses, ScanQueues, PopProcessing, Inspect,
     Resurrect, Unregister, ResurrectFails, Ping, HeartbeatExpires, tasks
<1>9. CASE UNCHANGED vars
  BY <1>5, <1>9 DEF vars, tasks
<1> QED
  BY <1>1, <1>2, <1>3, <1>4, <1>6, <1>7, <1>8, <1>9 DEF Next, Process

---------------------------------------------------------------------------
(* Every job is in at most one place *)

(* Job j is in the place of kind k that belongs to o: a list or a set of   *)
(* Redis, or the memory of whoever carries it from one to another.         *)
At(k, o, j) ==
    \/ k = "queue" /\ o = None /\ queue[j] > 0
    \/ k = "processing" /\ o \in Proc /\ processing[o][j] > 0
    \/ k = "zset" /\ o \in ZSet /\ j \in zset[o]
    \/ k = "task" /\ o \in Worker /\ pc[o] \in {"released", "retrying"} /\ job[o] = j
    \/ k = "mover" /\ o \in Mover /\ mpc[o] \in {"claimed", "fetched"} /\ j \in mids[o]
    \/ k = "batch" /\ o \in Proc /\ batch[o][j] > 0

(* The task works on a job that is in the processing list of its process. *)
Holding == {"popped", "missing", "loaded", "running"}

OneCopy ==
    \A j \in Job : queue[j] <= 1 /\ \A p \in Proc : processing[p][j] <= 1 /\ batch[p][j] <= 1
Exclusive ==
    \A j \in Job : \A k, o, l, u : At(k, o, j) /\ At(l, u, j) => k = l /\ o = u
SettledGone ==
    \A j \in settled : j \in accepted /\ jobs[j] = None /\ \A k, o : ~At(k, o, j)
HeldListed == \A w \in Worker : pc[w] \in Holding => processing[Host[w]][job[w]] > 0
OneHolder ==
    \A v, w \in Worker : pc[v] \in Holding /\ pc[w] \in Holding /\ job[v] = job[w] => v = w
FoundInBatch == \A r \in Proc : rpc[r] = "found" => batch[r][found[r]] > 0

(* What a task knows of its job's envelope is what Redis holds. *)
EnvelopeKnown ==
    \A w \in Worker :
        /\ pc[w] \in {"loaded", "running"} => env[w] = jobs[job[w]]
        /\ pc[w] \in {"released", "retrying"} =>
              jobs[job[w]] /= None /\ jobs[job[w]].retries < MaxRetries
        /\ pc[w] = "retrying" => env[w] = [retries |-> jobs[job[w]].retries + 1]

(* No envelope is written before its job is accepted. *)
NoneBefore == \A j \in Job : j \notin accepted => jobs[j] = None

Apart == OneCopy /\ Exclusive /\ SettledGone /\ HeldListed /\ OneHolder /\ FoundInBatch

SafetyInv ==
    LossInv /\ Heartbeats /\ DownIdle /\ Apart /\ EnvelopeKnown /\ NoneBefore /\ RetriesBounded

LEMMA PlacedAt == ASSUME NEW j \in Job PROVE Placed(j) <=> \E k, o : At(k, o, j)
<1>1. Placed(j) => \E k, o : At(k, o, j)
  BY DEF Placed, InQueue, InProcessing, InZSet, InTask, InMover, InBatch, At
<1>2. (\E k, o : At(k, o, j)) => Placed(j)
  BY DEF Placed, InQueue, InProcessing, InZSet, InTask, InMover, InBatch, At
<1> QED
  BY <1>1, <1>2

(* Where only some of the places change, the others hold what they held. *)
LEMMA AtSame ==
    /\ UNCHANGED queue => \A o, j : At("queue", o, j)' <=> At("queue", o, j)
    /\ UNCHANGED processing => \A o, j : At("processing", o, j)' <=> At("processing", o, j)
    /\ UNCHANGED zset => \A o, j : At("zset", o, j)' <=> At("zset", o, j)
    /\ UNCHANGED <<pc, job>> => \A o, j : At("task", o, j)' <=> At("task", o, j)
    /\ UNCHANGED movers => \A o, j : At("mover", o, j)' <=> At("mover", o, j)
    /\ UNCHANGED batch => \A o, j : At("batch", o, j)' <=> At("batch", o, j)
BY DEF At, movers

Kinds == {"queue", "processing", "zset", "task", "mover", "batch"}

LEMMA AtKinds == \A k, o, j : /\ At(k, o, j) => k \in Kinds
                              /\ At(k, o, j)' => k \in Kinds
BY DEF At, Kinds

(* What a step does to the places of job j: it takes j out of some, or it  *)
(* leaves j in one place, and j was somewhere before or is new.            *)
JobStep(j) ==
    \/ \A k, o : At(k, o, j)' => At(k, o, j)
    \/ /\ j \notin accepted \/ \E k, o : At(k, o, j)
       /\ \E k, o : \A l, u : At(l, u, j)' => l = k /\ u = o

LEMMA StepDequeue ==
    ASSUME LossInv, Apart, NEW w \in Worker, Dequeue(w), NEW i \in Job
    PROVE  JobStep(i)
<1>0. PICK j \in Job :
        /\ queue[j] > 0
        /\ queue' = LRem(queue, j)
        /\ processing' = [processing EXCEPT ![Host[w]] = LPush(@, j)]
        /\ job' = [job EXCEPT ![w] = j]
  BY DEF Dequeue
<1>1. \A u, n : /\ At("zset", u, n)' <=> At("zset", u, n)
                /\ At("mover", u, n)' <=> At("mover", u, n)
                /\ At("batch", u, n)' <=> At("batch", u, n)
  BY AtSame DEF Dequeue, resurrectors
<1>2. \A u, n : At("task", u, n)' <=> At("task", u, n)
  BY DEF Dequeue, At, TypeOK, TasksOK
<1>3. \A u : At("queue", u, i)' => At("queue", u, i) /\ i /= j
  BY <1>0 DEF At, LRem, TypeOK, RedisOK, Apart, OneCopy
<1>4. \A u : At("processing", u, i)' => At("processing", u, i) \/ (i = j /\ u = Host[w])
  BY <1>0 DEF At, LPush, TypeOK, RedisOK
<1>5. CASE i /= j
  BY <1>1, <1>2, <1>3, <1>4, <1>5, AtKinds DEF JobStep, Kinds
<1>6. CASE i = j
  <2>1. At("queue", None, i) /\ ~At("queue", None, i)'
    BY <1>0, <1>3, <1>6 DEF At
  <2>2. \A k, o : At(k, o, i)' => At(k, o, i) \/ (k = "processing" /\ o = Host[w])
    BY <1>1, <1>2, <1>3, <1>4, AtKinds DEF Kinds
  <2>3. \A k, o : At(k, o, i)' => k = "processing" /\ o = Host[w]
    BY <2>1, <2>2 DEF Apart, Exclusive
  <2> QED
    BY <2>1, <2>3 DEF JobStep
<1> QED
  BY <1>5, <1>6

(* Ids are in places of accepted jobs only. *)
LEMMA NewIsNowhere ==
    ASSUME LossInv, NEW j \in Job, j \notin accepted
    PROVE  \A k, o : ~At(k, o, j)
BY DEF At, QueueIds, ProcessingIds, ZSetIds, TaskIds, MoverIds, ResurrectorIds

(* LREM from the processing list of process p. *)
LEMMA LRemTakes ==
    ASSUME TypeOK, OneCopy, NEW p \in Proc, NEW j \in Job, NEW i \in Job,
           processing' = [processing EXCEPT ![p] = LRem(@, j)]
    PROVE  /\ \A u : At("processing", u, i)' => At("processing", u, i)
           /\ i = j => ~At("processing", p, i)'
BY DEF At, LRem, TypeOK, RedisOK, OneCopy

(* A task that carries nothing, before and after. *)
LEMMA TaskTakes ==
    ASSUME NEW w \in Worker, NEW i,
           pc'[w] \notin {"released", "retrying"},
           \A v \in Worker : v /= w => pc'[v] = pc[v] /\ job'[v] = job[v]
    PROVE  /\ \A u : At("task", u, i)' => At("task", u, i)
           /\ ~At("task", w, i)'
BY DEF At

LEMMA FreeTakes ==
    ASSUME TypeOK, NEW w \in Worker, NEW i, Free(w)
    PROVE  /\ \A u : At("task", u, i)' => At("task", u, i)
           /\ ~At("task", w, i)'
<1>1. /\ pc'[w] = "free"
      /\ \A v \in Worker : v /= w => pc'[v] = pc[v] /\ job'[v] = job[v]
  BY DEF Free, TypeOK, TasksOK
<1> QED
  BY <1>1, TaskTakes

LEMMA DropTakes ==
    ASSUME TypeOK, NEW p \in Proc, NEW i, DropTasks(p)
    PROVE  \A u : At("task", u, i)' => At("task", u, i)
BY DEF At, DropTasks

LEMMA AfterOneTakes ==
    ASSUME TypeOK, OneCopy, NEW r \in Proc, NEW j \in Job, NEW i \in Job, AfterOne(r, j)
    PROVE  /\ \A u : At("batch", u, i)' => At("batch", u, i)
           /\ i = j => ~At("batch", r, i)'
<1>1. /\ batch'[r] = LRem(batch[r], j)
      /\ \A q \in Proc : q /= r => batch'[q] = batch[q]
  BY DEF AfterOne, TypeOK, ResurrectorsOK
<1>2. batch[r] \in [Job -> Nat] /\ batch[r][i] <= 1
  BY DEF TypeOK, ResurrectorsOK, OneCopy
<1>3. LRem(batch[r], j)[i] > 0 => batch[r][i] > 0 /\ i /= j
  BY <1>2 DEF LRem
<1> QED
  BY <1>1, <1>3 DEF At

LEMMA ResetTakes ==
    ASSUME TypeOK, NEW p \in Proc, NEW at, NEW i \in Job, ResetResurrector(p, at)
    PROVE  \A u : At("batch", u, i)' => At("batch", u, i)
<1>1. batch'[p] = EmptyList /\ \A q \in Proc : q /= p => batch'[q] = batch[q]
  BY DEF ResetResurrector, TypeOK, ResurrectorsOK
<1> QED
  BY <1>1, EmptyListType DEF At

LEMMA StepClient ==
    ASSUME LossInv, NEW j \in Job, Enqueue(j) \/ EnqueueAt(j), NEW i \in Job
    PROVE  JobStep(i)
<1>1. \A u, n : /\ At("processing", u, n)' <=> At("processing", u, n)
                /\ At("task", u, n)' <=> At("task", u, n)
                /\ At("mover", u, n)' <=> At("mover", u, n)
                /\ At("batch", u, n)' <=> At("batch", u, n)
  BY AtSame DEF Enqueue, EnqueueAt, tasks, resurrectors
<1>2. CASE Enqueue(j)
  <2>1. \A u : At("zset", u, i)' <=> At("zset", u, i)
    BY <1>2, AtSame DEF Enqueue
  <2>2. \A u : At("queue", u, i)' => u = None /\ (At("queue", u, i) \/ i = j)
    BY <1>2 DEF Enqueue, At, LPush, TypeOK, RedisOK
  <2>3. CASE i = j
    <3>1. i \notin accepted /\ \A k, o : ~At(k, o, i)
      BY <1>2, <2>3, NewIsNowhere DEF Enqueue
    <3>2. \A k, o : At(k, o, i)' => k = "queue" /\ o = None
      BY <1>1, <2>1, <2>2, <3>1, AtKinds DEF Kinds
    <3> QED
      BY <3>1, <3>2 DEF JobStep
  <2> QED
    BY <1>1, <2>1, <2>2, <2>3, AtKinds DEF JobStep, Kinds
<1>3. CASE EnqueueAt(j)
  <2>1. \A u : At("queue", u, i)' <=> At("queue", u, i)
    BY <1>3, AtSame DEF EnqueueAt
  <2>2. \A u : At("zset", u, i)' => At("zset", u, i) \/ (i = j /\ u = "schedule")
    BY <1>3 DEF EnqueueAt, At, TypeOK, RedisOK
  <2>3. CASE i = j
    <3>1. i \notin accepted /\ \A k, o : ~At(k, o, i)
      BY <1>3, <2>3, NewIsNowhere DEF EnqueueAt
    <3>2. \A k, o : At(k, o, i)' => k = "zset" /\ o = "schedule"
      BY <1>1, <2>1, <2>2, <3>1, AtKinds DEF Kinds
    <3> QED
      BY <3>1, <3>2 DEF JobStep
  <2> QED
    BY <1>1, <2>1, <2>2, <2>3, AtKinds DEF JobStep, Kinds
<1> QED
  BY <1>2, <1>3

(* Steps of a task that leave the places alone or take its job out of one. *)
LEMMA StepTask ==
    ASSUME LossInv, Apart, NEW w \in Worker, NEW i \in Job,
           \/ Load(w) \/ LoadMissing(w) \/ DeleteJob(w) \/ SetStartedAt(w)
           \/ Kill(w) \/ FinishWithSuccess(w) \/ RetryInRead(w)
    PROVE  JobStep(i)
<1>0. Host[w] \in Proc
  BY HostAssumption
<1>1. \A u, n : /\ At("queue", u, n)' <=> At("queue", u, n)
                /\ At("zset", u, n)' <=> At("zset", u, n)
                /\ At("mover", u, n)' <=> At("mover", u, n)
                /\ At("batch", u, n)' <=> At("batch", u, n)
  BY AtSame DEF Load, LoadMissing, DeleteJob, SetStartedAt, Kill, FinishWithSuccess, RetryInRead,
     redis, resurrectors
<1>2. \A u : At("task", u, i)' => At("task", u, i)
  <2>1. CASE Free(w)
    BY <2>1, FreeTakes
  <2>2. CASE Load(w) \/ LoadMissing(w) \/ SetStartedAt(w)
    <3>1. /\ pc'[w] \notin {"released", "retrying"}
          /\ \A v \in Worker : v /= w => pc'[v] = pc[v] /\ job'[v] = job[v]
      BY <2>2 DEF Load, LoadMissing, SetStartedAt, TypeOK, TasksOK
    <3> QED
      BY <3>1, TaskTakes
  <2>3. CASE RetryInRead(w) /\ ~Free(w)
    BY <2>3 DEF RetryInRead, At, TypeOK, TasksOK
  <2> QED
    BY <2>1, <2>2, <2>3 DEF DeleteJob, Kill, FinishWithSuccess
<1>3. \A u : At("processing", u, i)' => At("processing", u, i)
  <2>1. CASE UNCHANGED processing
    BY <2>1, AtSame
  <2>2. CASE DeleteJob(w) \/ Kill(w) \/ FinishWithSuccess(w)
    <3>1. job[w] \in Job /\ processing' = [processing EXCEPT ![Host[w]] = LRem(@, job[w])]
      BY <2>2 DEF DeleteJob, Kill, FinishWithSuccess, TypeOK, TasksOK
    <3> QED
      BY <1>0, <3>1, LRemTakes DEF Apart
  <2> QED
    BY <2>1, <2>2 DEF Load, LoadMissing, SetStartedAt, RetryInRead, redis
<1> QED
  BY <1>1, <1>2, <1>3, AtKinds DEF JobStep, Kinds

LEMMA StepFailure ==
    ASSUME Steady, LossInv, Apart, NEW w \in Worker, NEW i \in Job, FinishWithFailure(w)
    PROVE  JobStep(i)
<1>0. Host[w] \in Proc /\ job[w] \in Job
  BY HostAssumption DEF FinishWithFailure, TypeOK, TasksOK
<1>1. \A u, n : /\ At("queue", u, n)' <=> At("queue", u, n)
                /\ At("zset", u, n)' <=> At("zset", u, n)
                /\ At("mover", u, n)' <=> At("mover", u, n)
                /\ At("batch", u, n)' <=> At("batch", u, n)
  BY AtSame DEF FinishWithFailure, redis, resurrectors
<1>2. processing' = [processing EXCEPT ![Host[w]] = LRem(@, job[w])]
  BY SteadyFaults DEF FinishWithFailure
<1>3. /\ \A u : At("processing", u, i)' => At("processing", u, i)
      /\ i = job[w] => ~At("processing", Host[w], i)'
  BY <1>0, <1>2, LRemTakes DEF Apart
<1>4. \A u : At("task", u, i)' => At("task", u, i) \/ (i = job[w] /\ u = w)
  BY DEF FinishWithFailure, At, TypeOK, TasksOK
<1>5. CASE i /= job[w]
  BY <1>1, <1>3, <1>4, <1>5, AtKinds DEF JobStep, Kinds
<1>6. CASE i = job[w]
  <2>1. At("processing", Host[w], i) /\ ~At("processing", Host[w], i)'
    <3>1. processing[Host[w]][i] > 0
      BY <1>6 DEF FinishWithFailure, Apart, HeldListed, Holding
    <3>2. At("processing", Host[w], i)
      BY <1>0, <3>1 DEF At
    <3> QED
      BY <1>3, <1>6, <3>2
  <2>2. \A k, o : At(k, o, i)' => At(k, o, i) \/ (k = "task" /\ o = w)
    BY <1>1, <1>3, <1>4, AtKinds DEF Kinds
  <2>3. \A k, o : At(k, o, i)' => k = "task" /\ o = w
    BY <2>1, <2>2 DEF Apart, Exclusive
  <2> QED
    BY <2>1, <2>3 DEF JobStep
<1> QED
  BY <1>5, <1>6

LEMMA StepRetry ==
    ASSUME LossInv, Apart, NEW w \in Worker, NEW i \in Job, RetryInWrite(w)
    PROVE  JobStep(i)
<1>1. \A u, n : /\ At("queue", u, n)' <=> At("queue", u, n)
                /\ At("processing", u, n)' <=> At("processing", u, n)
                /\ At("mover", u, n)' <=> At("mover", u, n)
                /\ At("batch", u, n)' <=> At("batch", u, n)
  BY AtSame DEF RetryInWrite, redis, resurrectors
<1>2. /\ \A u : At("task", u, i)' => At("task", u, i)
      /\ ~At("task", w, i)'
  BY FreeTakes DEF RetryInWrite
<1>3. \A u : At("zset", u, i)' => At("zset", u, i) \/ (i = job[w] /\ u = "retry")
  BY DEF RetryInWrite, At, TypeOK, RedisOK
<1>4. CASE i /= job[w]
  BY <1>1, <1>2, <1>3, <1>4, AtKinds DEF JobStep, Kinds
<1>5. CASE i = job[w]
  <2>1. At("task", w, i)
    BY <1>5 DEF RetryInWrite, At
  <2>2. \A k, o : At(k, o, i)' => At(k, o, i) \/ (k = "zset" /\ o = "retry")
    BY <1>1, <1>2, <1>3, AtKinds DEF Kinds
  <2>3. \A k, o : At(k, o, i)' => k = "zset" /\ o = "retry"
    BY <1>2, <2>1, <2>2 DEF Apart, Exclusive
  <2> QED
    BY <2>1, <2>3 DEF JobStep
<1> QED
  BY <1>4, <1>5

LEMMA StepMove ==
    ASSUME LossInv, Apart, NEW m \in Mover, NEW i \in Job, Move(m)
    PROVE  JobStep(i)
<1>1. \A u, n : /\ At("processing", u, n)' <=> At("processing", u, n)
                /\ At("task", u, n)' <=> At("task", u, n)
                /\ At("batch", u, n)' <=> At("batch", u, n)
  BY AtSame DEF Move, ListDue, Claim, GetMany, EnqueueClaimed, redis, tasks, resurrectors
<1>2. CASE ListDue(m) \/ GetMany(m)
  <2>1. \A u, n : /\ At("queue", u, n)' <=> At("queue", u, n)
                  /\ At("zset", u, n)' <=> At("zset", u, n)
    BY <1>2, AtSame DEF ListDue, GetMany, redis
  <2>2. \A u : At("mover", u, i)' => At("mover", u, i)
    BY <1>2 DEF ListDue, GetMany, At, TypeOK, MoversOK
  <2> QED
    BY <1>1, <2>1, <2>2, AtKinds DEF JobStep, Kinds
<1>3. CASE Claim(m)
  <2>0. m[2] \in ZSet
    OBVIOUS
  <2>1. \A u, n : At("queue", u, n)' <=> At("queue", u, n)
    BY <1>3, AtSame DEF Claim
  <2>2. /\ \A u : At("zset", u, i)' => At("zset", u, i)
        /\ i \in mids[m] => ~At("zset", m[2], i)'
    BY <1>3 DEF Claim, At, TypeOK, RedisOK
  <2>3. \A u : At("mover", u, i)' =>
                 At("mover", u, i) \/ (u = m /\ i \in mids[m] /\ i \in zset[m[2]])
    BY <1>3 DEF Claim, At, TypeOK, MoversOK
  <2>4. CASE i \in mids[m] /\ i \in zset[m[2]]
    <3>1. At("zset", m[2], i)
      BY <2>0, <2>4 DEF At
    <3>2. \A k, o : At(k, o, i)' => At(k, o, i) \/ (k = "mover" /\ o = m)
      BY <1>1, <2>1, <2>2, <2>3, AtKinds DEF Kinds
    <3>3. \A k, o : At(k, o, i)' => k = "mover" /\ o = m
      BY <2>2, <2>4, <3>1, <3>2 DEF Apart, Exclusive
    <3> QED
      BY <3>1, <3>3 DEF JobStep
  <2> QED
    BY <1>1, <2>1, <2>2, <2>3, <2>4, AtKinds DEF JobStep, Kinds
<1>4. CASE EnqueueClaimed(m)
  <2>1. \A u, n : At("zset", u, n)' <=> At("zset", u, n)
    BY <1>4, AtSame DEF EnqueueClaimed
  <2>2. /\ \A u : At("mover", u, i)' => At("mover", u, i)
        /\ ~At("mover", m, i)'
    BY <1>4 DEF EnqueueClaimed, At, TypeOK, MoversOK
  <2>3. \A u : At("queue", u, i)' => At("queue", u, i) \/ (u = None /\ i \in mids[m])
    BY <1>4 DEF EnqueueClaimed, At, LPushAll, TypeOK, RedisOK
  <2>4. CASE i \in mids[m]
    <3>1. At("mover", m, i)
      BY <1>4, <2>4 DEF EnqueueClaimed, At
    <3>2. \A k, o : At(k, o, i)' => At(k, o, i) \/ (k = "queue" /\ o = None)
      BY <1>1, <2>1, <2>2, <2>3, AtKinds DEF Kinds
    <3>3. \A k, o : At(k, o, i)' => k = "queue" /\ o = None
      BY <2>2, <3>1, <3>2 DEF Apart, Exclusive
    <3> QED
      BY <3>1, <3>3 DEF JobStep
  <2> QED
    BY <1>1, <2>1, <2>2, <2>3, <2>4, AtKinds DEF JobStep, Kinds
<1> QED
  BY <1>2, <1>3, <1>4 DEF Move

(* LPOP from the list of the process being resurrected. *)
LEMMA PopTakes ==
    ASSUME LossInv, Apart, NEW r \in Proc, PopProcessing(r)
    PROVE  \E b \in [Job -> Nat] :
             /\ \A i \in Job : b[i] <= 1 /\ b[i] <= processing[target[r]][i]
             /\ processing' = [processing EXCEPT ![target[r]] = Without(@, b)]
             /\ batch' = [batch EXCEPT ![r] = b]
             /\ batch[r] = EmptyList
             /\ target[r] \in Proc
<1>1. target[r] \in Proc /\ processing[target[r]] \in [Job -> Nat] /\ batch[r] = EmptyList
  BY DEF PopProcessing, BatchesEmptied, TypeOK, RedisOK, ResurrectorsOK
<1>2. PICK b \in LPop(processing[target[r]], PopLimit) :
        /\ processing' = [processing EXCEPT ![target[r]] = Without(@, b)]
        /\ batch' = [batch EXCEPT ![r] = b]
  BY DEF PopProcessing
<1>3. b \in [Job -> Nat] /\ \A i \in Job : b[i] <= processing[target[r]][i]
  BY <1>1, <1>2, LPopType
<1>4. \A i \in Job : processing[target[r]][i] <= 1
  BY <1>1 DEF Apart, OneCopy
<1>5. \A i \in Job : b[i] <= 1
  BY <1>1, <1>3, <1>4
<1> QED
  BY <1>1, <1>2, <1>3, <1>5

LEMMA StepPop ==
    ASSUME LossInv, Apart, NEW r \in Proc, NEW i \in Job, PopProcessing(r)
    PROVE  JobStep(i)
<1>1. \A u, n : /\ At("queue", u, n)' <=> At("queue", u, n)
                /\ At("zset", u, n)' <=> At("zset", u, n)
                /\ At("task", u, n)' <=> At("task", u, n)
                /\ At("mover", u, n)' <=> At("mover", u, n)
  BY AtSame DEF PopProcessing, tasks
<1>t. PICK t \in Proc : t = target[r]
  BY PopTakes
<1>2. PICK b \in [Job -> Nat] :
        /\ \A n \in Job : b[n] <= 1 /\ b[n] <= processing[t][n]
        /\ processing' = [processing EXCEPT ![t] = Without(@, b)]
        /\ batch' = [batch EXCEPT ![r] = b]
        /\ batch[r] = EmptyList
  BY <1>t, PopTakes
<1>3. processing[t] \in [Job -> Nat] /\ processing[t][i] <= 1
  BY <1>2 DEF TypeOK, RedisOK, Apart, OneCopy
<1>4. Without(processing[t], b)[i] = processing[t][i] - b[i]
  BY DEF Without
<1>5. /\ processing'[t][i] = processing[t][i] - b[i]
      /\ \A q \in Proc : q /= t => processing'[q] = processing[q]
      /\ batch'[r] = b /\ \A q \in Proc : q /= r => batch'[q] = batch[q]
  BY <1>2, <1>4 DEF TypeOK, RedisOK, ResurrectorsOK
<1>6. /\ \A u : At("processing", u, i)' => At("processing", u, i)
      /\ b[i] > 0 => ~At("processing", t, i)' /\ At("processing", t, i)
  <2>1. /\ processing'[t][i] > 0 => processing[t][i] > 0
        /\ b[i] > 0 => ~(processing'[t][i] > 0) /\ processing[t][i] > 0
    <3>1. processing[t][i] \in Nat /\ b[i] \in Nat /\ b[i] <= processing[t][i]
      BY <1>2, <1>3
    <3> QED
      BY <1>3, <1>5, <3>1
  <2>2. \A u : At("processing", u, i)' => At("processing", u, i)
    BY <1>5, <2>1 DEF At
  <2>3. b[i] > 0 => ~At("processing", t, i)' /\ At("processing", t, i)
    BY <1>2, <2>1 DEF At
  <2> QED
    BY <2>2, <2>3
<1>7. \A u : At("batch", u, i)' => At("batch", u, i) \/ (u = r /\ b[i] > 0)
  BY <1>5 DEF At
<1>8. CASE b[i] > 0
  <2>0. ~At("processing", t, i)' /\ At("processing", t, i)
    BY <1>6, <1>8
  <2>1. \A k, o : At(k, o, i)' => At(k, o, i) \/ (k = "batch" /\ o = r)
    BY <1>1, <1>6, <1>7, AtKinds DEF Kinds
  <2>2. \A k, o : At(k, o, i)' => k = "batch" /\ o = r
    BY <2>0, <2>1 DEF Apart, Exclusive
  <2> QED
    BY <2>0, <2>2 DEF JobStep
<1> QED
  BY <1>1, <1>6, <1>7, <1>8, AtKinds DEF JobStep, Kinds

LEMMA StepInspect ==
    ASSUME LossInv, Apart, NEW r \in Proc, NEW i \in Job, Inspect(r)
    PROVE  JobStep(i)
<1>1. \A u, n : /\ At("queue", u, n)' <=> At("queue", u, n)
                /\ At("processing", u, n)' <=> At("processing", u, n)
                /\ At("zset", u, n)' <=> At("zset", u, n)
                /\ At("task", u, n)' <=> At("task", u, n)
                /\ At("mover", u, n)' <=> At("mover", u, n)
  BY AtSame DEF Inspect, redis, tasks
<1>2. PICK j \in Job : AfterOne(r, j) \/ UNCHANGED batch
  BY DEF Inspect
<1>3. \A u : At("batch", u, i)' => At("batch", u, i)
  BY <1>2, AfterOneTakes, AtSame DEF Apart
<1> QED
  BY <1>1, <1>3, AtKinds DEF JobStep, Kinds

LEMMA StepResurrect ==
    ASSUME LossInv, Apart, NEW r \in Proc, NEW i \in Job, Resurrect(r)
    PROVE  JobStep(i)
<1>0. found[r] \in Job /\ AfterOne(r, found[r]) /\ batch[r][found[r]] > 0
  BY DEF Resurrect, TypeOK, ResurrectorsOK, Apart, FoundInBatch
<1>1. \A u, n : /\ At("processing", u, n)' <=> At("processing", u, n)
                /\ At("zset", u, n)' <=> At("zset", u, n)
                /\ At("task", u, n)' <=> At("task", u, n)
                /\ At("mover", u, n)' <=> At("mover", u, n)
  BY AtSame DEF Resurrect, tasks
<1>2. /\ \A u : At("batch", u, i)' => At("batch", u, i)
      /\ i = found[r] => ~At("batch", r, i)'
  BY <1>0, AfterOneTakes DEF Apart
<1>3. \A u : At("queue", u, i)' => At("queue", u, i) \/ (u = None /\ i = found[r])
  BY <1>0 DEF Resurrect, At, LPush, TypeOK, RedisOK
<1>4. CASE i = found[r]
  <2>1. At("batch", r, i)
    BY <1>0, <1>4 DEF At
  <2>2. \A k, o : At(k, o, i)' => At(k, o, i) \/ (k = "queue" /\ o = None)
    BY <1>1, <1>2, <1>3, AtKinds DEF Kinds
  <2>3. \A k, o : At(k, o, i)' => k = "queue" /\ o = None
    BY <1>2, <1>4, <2>1, <2>2 DEF Apart, Exclusive
  <2> QED
    BY <2>1, <2>3 DEF JobStep
<1> QED
  BY <1>1, <1>2, <1>3, <1>4, AtKinds DEF JobStep, Kinds

(* A process that goes down only forgets. *)
LEMMA StepDown ==
    ASSUME LossInv, NEW p \in Proc, NEW i \in Job, Crash(p) \/ Exit(p)
    PROVE  JobStep(i)
<1>1. \A u, n : /\ At("queue", u, n)' <=> At("queue", u, n)
                /\ At("processing", u, n)' <=> At("processing", u, n)
                /\ At("zset", u, n)' <=> At("zset", u, n)
  BY AtSame DEF Crash, Exit, redis
<1>2. \A u : At("task", u, i)' => At("task", u, i)
  BY DropTakes DEF Crash, Exit
<1>3. \A u : At("mover", u, i)' => At("mover", u, i)
  BY AtSame DEF Crash, Exit, At
<1>4. \A u : At("batch", u, i)' => At("batch", u, i)
  BY ResetTakes DEF Crash, Exit
<1> QED
  BY <1>1, <1>2, <1>3, <1>4, AtKinds DEF JobStep, Kinds

LEMMA JobSteps ==
    ASSUME Steady, LossInv, Apart, [Next]_vars
    PROVE  \A i \in Job : JobStep(i)
<1> SUFFICES ASSUME NEW i \in Job PROVE JobStep(i)
  OBVIOUS
<1>1. CASE Client
  BY <1>1, StepClient DEF Client
<1>2. ASSUME NEW w \in Worker, Task(w) PROVE JobStep(i)
  BY <1>2, StepDequeue, StepTask, StepFailure, StepRetry DEF Task
<1>3. ASSUME NEW w \in Worker, TaskFails(w) PROVE JobStep(i)
  BY <1>3, SteadyFaults DEF TaskFails, LoadFails, SetStartedAtFails, FinishFails, RetryInFails
<1>4. ASSUME NEW m \in Mover, Move(m) PROVE JobStep(i)
  BY <1>4, StepMove
<1>5. ASSUME NEW m \in Mover, MoverFails(m) PROVE JobStep(i)
  BY <1>5, SteadyFaults DEF MoverFails
<1>6. CASE UNCHANGED <<queue, processing, zset, pc, job, mpc, mids, batch>>
  <2>1. \A k, o : At(k, o, i)' => At(k, o, i)
    BY <1>6 DEF At
  <2> QED
    BY <2>1 DEF JobStep
<1>7. ASSUME NEW r \in Proc, Scan(r) PROVE JobStep(i)
  <2>1. CASE InitialPing(r) \/ ScanProcesses(r) \/ ScanQueues(r) \/ Unregister(r)
    BY <1>6, <2>1 DEF InitialPing, ScanProcesses, ScanQueues, Unregister, redis, tasks, movers
  <2> QED
    BY <1>7, <2>1, StepPop, StepInspect, StepResurrect DEF Scan
<1>8. ASSUME NEW r \in Proc, ResurrectFails(r) PROVE JobStep(i)
  BY <1>8, SteadyFaults DEF ResurrectFails
<1>9. ASSUME NEW p \in Proc, Process(p) PROVE JobStep(i)
  <2>1. CASE Start(p) \/ Cancel(p) \/ LeaveLoop(p) \/ Ping(p) \/ HeartbeatExpires(p)
    BY <1>6, <2>1 DEF Start, Cancel, LeaveLoop, Ping, HeartbeatExpires, redis, tasks, movers,
       resurrectors
  <2> QED
    BY <1>9, <2>1, StepDown DEF Process
<1>10. CASE UNCHANGED vars
  BY <1>6, <1>10 DEF vars, redis, tasks, movers, resurrectors
<1> QED
  BY <1>1, <1>2, <1>3, <1>4, <1>5, <1>7, <1>8, <1>9, <1>10 DEF Next

LEMMA ExclusiveStep ==
    ASSUME Steady, LossInv, Apart, [Next]_vars
    PROVE  Exclusive'
<1> SUFFICES ASSUME NEW j \in Job, NEW k, NEW o, NEW l, NEW u, At(k, o, j)', At(l, u, j)'
             PROVE  k = l /\ o = u
  BY DEF Exclusive
<1>1. JobStep(j)
  BY JobSteps
<1> QED
  BY <1>1 DEF JobStep, Apart, Exclusive

(* A job whose outcome is decided does not turn up again. *)
LEMMA GoneStays ==
    ASSUME Steady, LossInv, Apart, [Next]_vars, NEW j \in settled
    PROVE  j \in accepted' /\ \A k, o : ~At(k, o, j)'
<1>1. JobStep(j) /\ j \in accepted /\ \A k, o : ~At(k, o, j)
  BY JobSteps DEF TypeOK, Apart, SettledGone
<1> QED
  BY <1>1, HistoryGrows DEF JobStep

(* A job a task works on, or carries, is in its one place. *)
LEMMA HeldAt ==
    ASSUME LossInv, Apart, NEW w \in Worker, pc[w] /= "free"
    PROVE  /\ job[w] \in Job /\ job[w] \in accepted /\ job[w] \notin settled
           /\ pc[w] \in Holding => At("processing", Host[w], job[w])
           /\ pc[w] \notin Holding => At("task", w, job[w])
<1>1. job[w] \in Job /\ job[w] \in accepted
  BY DEF TypeOK, TasksOK, TaskIds
<1>2. pc[w] \in Holding => At("processing", Host[w], job[w])
  BY HostAssumption DEF Apart, HeldListed, At
<1>3. pc[w] \notin Holding => At("task", w, job[w])
  BY DEF TypeOK, TasksOK, TaskPC, Holding, At
<1> QED
  BY <1>1, <1>2, <1>3 DEF Apart, SettledGone

(* So no task ever finds the envelope of its job missing. *)
LEMMA NeverMissing ==
    ASSUME LossInv, Apart, NEW w \in Worker, pc[w] /= "free"
    PROVE  pc[w] /= "missing" /\ jobs[job[w]] /= None
BY HeldAt DEF MissingSettled, EnvelopesKept

LEMMA NewlySettled ==
    ASSUME Steady, LossInv, Apart, [Next]_vars, NEW j \in settled', j \notin settled
    PROVE  \/ \E w \in Worker : (Kill(w) \/ FinishWithSuccess(w)) /\ j = job[w]
           \/ \E r \in Proc : Resurrect(r) /\ j = found[r] /\ j \notin Resurrectable
<1>1. ASSUME NEW w \in Worker, Task(w)
      PROVE  (Kill(w) \/ FinishWithSuccess(w)) /\ j = job[w]
  BY <1>1 DEF Task, Dequeue, Load, LoadMissing, DeleteJob, SetStartedAt, Kill,
     FinishWithSuccess, FinishWithFailure, RetryInRead, RetryInWrite, history
<1>2. ASSUME NEW r \in Proc, Scan(r)
      PROVE  Resurrect(r) /\ j = found[r] /\ j \notin Resurrectable
  BY <1>2 DEF Scan, InitialPing, ScanProcesses, ScanQueues, PopProcessing, Inspect,
     Resurrect, Unregister, history
<1>3. ~Client
  BY DEF Client, Enqueue, EnqueueAt
<1>4. \A w \in Worker : ~TaskFails(w)
  BY DEF TaskFails, LoadFails, SetStartedAtFails, FinishFails, RetryInFails, history
<1>5. \A m \in Mover : ~Move(m) /\ ~MoverFails(m)
  BY DEF Move, ListDue, Claim, GetMany, EnqueueClaimed, MoverFails, history
<1>6. \A p \in Proc : ~ResurrectFails(p) /\ ~Process(p)
  BY DEF ResurrectFails, Process, Start, Crash, Cancel, LeaveLoop, Exit, Ping,
     HeartbeatExpires, history
<1>7. ~UNCHANGED vars
  BY DEF vars, history
<1> QED
  BY <1>1, <1>2, <1>3, <1>4, <1>5, <1>6, <1>7 DEF Next

(* What settles a job takes it out of the place it was in. *)
LEMMA SettledLeaves ==
    ASSUME Steady, LossInv, Apart, [Next]_vars, NEW j \in settled', j \notin settled
    PROVE  j \in accepted' /\ jobs'[j] = None /\ \A k, o : ~At(k, o, j)'
<1>1. ASSUME NEW w \in Worker, Kill(w) \/ FinishWithSuccess(w), j = job[w]
      PROVE  j \in accepted' /\ jobs'[j] = None /\ \A k, o : ~At(k, o, j)'
  <2>1. /\ pc[w] \in {"loaded", "running"}
        /\ processing' = [processing EXCEPT ![Host[w]] = LRem(@, j)]
        /\ jobs' = [jobs EXCEPT ![j] = None]
    BY <1>1 DEF Kill, FinishWithSuccess
  <2>2. j \in Job /\ j \in accepted /\ At("processing", Host[w], j) /\ Host[w] \in Proc
    BY <1>1, <2>1, HeldAt, HostAssumption DEF Holding
  <2>3. ~At("processing", Host[w], j)'
    BY <2>1, <2>2, LRemTakes DEF Apart
  <2>4. \A k, o : At(k, o, j)' => At(k, o, j)
    <3>1. \A u : At("processing", u, j)' => At("processing", u, j)
      BY <2>1, <2>2, LRemTakes DEF Apart
    <3>2. \A u : At("task", u, j)' => At("task", u, j)
      BY <1>1, FreeTakes DEF Kill, FinishWithSuccess
    <3>3. \A u, n : /\ At("queue", u, n)' <=> At("queue", u, n)
                    /\ At("zset", u, n)' <=> At("zset", u, n)
                    /\ At("mover", u, n)' <=> At("mover", u, n)
                    /\ At("batch", u, n)' <=> At("batch", u, n)
      BY <1>1, AtSame DEF Kill, FinishWithSuccess, redis, resurrectors
    <3> QED
      BY <3>1, <3>2, <3>3, AtKinds DEF Kinds
  <2>5. \A k, o : ~At(k, o, j)'
    BY <2>2, <2>3, <2>4 DEF Apart, Exclusive
  <2> QED
    BY <2>1, <2>2, <2>5, HistoryGrows DEF TypeOK, RedisOK
<1>2. ASSUME NEW r \in Proc, Resurrect(r), j = found[r], j \notin Resurrectable
      PROVE  j \in accepted' /\ jobs'[j] = None /\ \A k, o : ~At(k, o, j)'
  <2>1. /\ j \in Job /\ AfterOne(r, j) /\ batch[r][j] > 0 /\ j \in accepted
        /\ jobs' = [jobs EXCEPT ![j] = None] /\ UNCHANGED queue
    BY <1>2 DEF Resurrect, TypeOK, ResurrectorsOK, Apart, FoundInBatch, ResurrectorIds
  <2>2. At("batch", r, j) /\ ~At("batch", r, j)'
    BY <2>1, AfterOneTakes DEF At, Apart
  <2>3. \A k, o : At(k, o, j)' => At(k, o, j)
    <3>1. \A u : At("batch", u, j)' => At("batch", u, j)
      BY <2>1, AfterOneTakes DEF Apart
    <3>2. \A u, n : /\ At("queue", u, n)' <=> At("queue", u, n)
                    /\ At("processing", u, n)' <=> At("processing", u, n)
                    /\ At("zset", u, n)' <=> At("zset", u, n)
                    /\ At("task", u, n)' <=> At("task", u, n)
                    /\ At("mover", u, n)' <=> At("mover", u, n)
      BY <1>2, <2>1, AtSame DEF Resurrect, tasks
    <3> QED
      BY <3>1, <3>2, AtKinds DEF Kinds
  <2>4. \A k, o : ~At(k, o, j)'
    BY <2>1, <2>2, <2>3 DEF Apart, Exclusive
  <2> QED
    BY <2>1, <2>4, HistoryGrows DEF TypeOK, RedisOK
<1> QED
  BY <1>1, <1>2, NewlySettled

(* Envelopes are written by whoever has the job in its place. *)
LEMMA EnvelopeWrites ==
    ASSUME Steady, LossInv, Apart, [Next]_vars, NEW j \in Job, jobs'[j] /= jobs[j]
    PROVE  \/ Enqueue(j) \/ EnqueueAt(j)
           \/ \E w \in Worker : (SetStartedAt(w) \/ RetryInWrite(w) \/ DeleteJob(w)) /\ job[w] = j
           \/ j \in settled' /\ jobs'[j] = None
<1>1. CASE Client
  BY <1>1 DEF Client, Enqueue, EnqueueAt, TypeOK, RedisOK
<1>2. ASSUME NEW w \in Worker, Task(w)
      PROVE  \/ (SetStartedAt(w) \/ RetryInWrite(w) \/ DeleteJob(w)) /\ job[w] = j
             \/ j \in settled' /\ jobs'[j] = None
  <2>1. CASE Kill(w) \/ FinishWithSuccess(w)
    BY <2>1 DEF Kill, FinishWithSuccess, TypeOK, RedisOK
  <2>2. CASE SetStartedAt(w) \/ RetryInWrite(w) \/ DeleteJob(w)
    BY <2>2 DEF SetStartedAt, RetryInWrite, DeleteJob, TypeOK, RedisOK
  <2> QED
    BY <1>2, <2>1, <2>2 DEF Task, Dequeue, Load, LoadMissing, FinishWithFailure, RetryInRead, redis
<1>3. ASSUME NEW w \in Worker, TaskFails(w) PROVE FALSE
  BY <1>3, SteadyFaults DEF TaskFails, LoadFails, SetStartedAtFails, FinishFails, RetryInFails
<1>4. \A m \in Mover : ~Move(m) /\ ~MoverFails(m)
  BY DEF Move, ListDue, Claim, GetMany, EnqueueClaimed, MoverFails, redis
<1>5. ASSUME NEW r \in Proc, Scan(r) PROVE j \in settled' /\ jobs'[j] = None
  BY <1>5 DEF Scan, InitialPing, ScanProcesses, ScanQueues, PopProcessing, Inspect,
     Resurrect, Unregister, redis, TypeOK, RedisOK
<1>6. \A p \in Proc : ~ResurrectFails(p) /\ ~Process(p)
  BY DEF ResurrectFails, Process, Start, Crash, Cancel, LeaveLoop, Exit, Ping,
     HeartbeatExpires, redis
<1>7. ~UNCHANGED vars
  BY DEF vars, redis
<1> QED
  BY <1>1, <1>2, <1>3, <1>4, <1>5, <1>6, <1>7 DEF Next, Client

LEMMA SettledStep ==
    ASSUME Steady, LossInv, Apart, [Next]_vars
    PROVE  SettledGone'
<1>1. ASSUME NEW j \in settled
      PROVE  j \in accepted' /\ jobs'[j] = None /\ \A k, o : ~At(k, o, j)'
  <2>1. j \in accepted /\ jobs[j] = None /\ j \in Job
    BY DEF Apart, SettledGone, TypeOK
  <2>2. j \in accepted' /\ \A k, o : ~At(k, o, j)'
    BY GoneStays
  <2>3. ~Enqueue(j) /\ ~EnqueueAt(j)
    BY <2>1 DEF Enqueue, EnqueueAt
  <2>4. ASSUME NEW w \in Worker, SetStartedAt(w) \/ RetryInWrite(w) \/ DeleteJob(w), job[w] = j
        PROVE  FALSE
    BY <2>4, HeldAt DEF SetStartedAt, RetryInWrite, DeleteJob
  <2>5. jobs'[j] = jobs[j]
    BY <2>1, <2>3, <2>4, EnvelopeWrites
  <2> QED
    BY <2>1, <2>2, <2>5
<1> QED
  BY <1>1, SettledLeaves DEF SettledGone

LEMMA OneCopyStep ==
    ASSUME Steady, LossInv, Apart, [Next]_vars
    PROVE  OneCopy'
<1>0. TypeOK /\ OneCopy /\ Exclusive
  BY DEF Apart
<1>1. CASE UNCHANGED <<queue, processing, batch>>
  BY <1>0, <1>1 DEF OneCopy
<1>2. ASSUME NEW j \in Job, Enqueue(j) PROVE OneCopy'
  <2>1. queue[j] = 0
    BY <1>0, <1>2 DEF Enqueue, QueueIds, TypeOK, RedisOK
  <2> QED
    BY <1>0, <1>2, <2>1 DEF Enqueue, resurrectors, LPush, OneCopy, TypeOK, RedisOK
<1>3. ASSUME NEW w \in Worker, Dequeue(w) PROVE OneCopy'
  <2>1. PICK j \in Job :
          /\ queue[j] > 0
          /\ queue' = LRem(queue, j)
          /\ processing' = [processing EXCEPT ![Host[w]] = LPush(@, j)]
    BY <1>3 DEF Dequeue
  <2>2. At("queue", None, j) /\ Host[w] \in Proc
    BY <2>1, HostAssumption DEF At
  <2>3. ~At("processing", Host[w], j)
    BY <1>0, <2>2 DEF Exclusive
  <2>4. processing[Host[w]][j] = 0
    BY <1>0, <2>2, <2>3 DEF At, TypeOK, RedisOK
  <2>5. \A i \in Job : queue'[i] <= 1
    BY <1>0, <2>1 DEF LRem, OneCopy, TypeOK, RedisOK
  <2>6. \A p \in Proc, i \in Job : processing'[p][i] <= 1
    BY <1>0, <2>1, <2>2, <2>4 DEF LPush, OneCopy, TypeOK, RedisOK
  <2> QED
    BY <1>0, <1>3, <2>5, <2>6 DEF Dequeue, resurrectors, OneCopy
<1>4. ASSUME NEW w \in Worker, DeleteJob(w) \/ Kill(w) \/ FinishWithSuccess(w) \/ FinishWithFailure(w)
      PROVE  OneCopy'
  <2>1. /\ job[w] \in Job /\ Host[w] \in Proc
        /\ processing' = [processing EXCEPT ![Host[w]] = LRem(@, job[w])]
        /\ UNCHANGED <<queue, batch>>
    BY <1>0, <1>4, SteadyFaults, HostAssumption DEF DeleteJob, Kill, FinishWithSuccess,
       FinishWithFailure, resurrectors, TypeOK, TasksOK
  <2>2. \A p \in Proc, i \in Job : processing'[p][i] <= 1
    BY <1>0, <2>1 DEF LRem, OneCopy, TypeOK, RedisOK
  <2> QED
    BY <1>0, <2>1, <2>2 DEF OneCopy
<1>5. ASSUME NEW w \in Worker, Task(w) PROVE OneCopy'
  BY <1>1, <1>3, <1>4, <1>5 DEF Task, Load, LoadMissing, SetStartedAt, RetryInRead, RetryInWrite,
     redis, resurrectors
<1>6. ASSUME NEW w \in Worker, TaskFails(w) PROVE OneCopy'
  BY <1>6, SteadyFaults DEF TaskFails, LoadFails, SetStartedAtFails, FinishFails, RetryInFails
<1>7. ASSUME NEW m \in Mover, EnqueueClaimed(m) PROVE OneCopy'
  <2>1. ASSUME NEW j \in mids[m] PROVE j \in Job /\ queue[j] = 0
    <3>1. j \in Job /\ At("mover", m, j)
      BY <1>0, <1>7 DEF EnqueueClaimed, At, TypeOK, MoversOK
    <3>2. ~At("queue", None, j)
      BY <1>0, <3>1 DEF Exclusive
    <3> QED
      BY <1>0, <3>1, <3>2 DEF At, TypeOK, RedisOK
  <2>2. \A i \in Job : queue'[i] <= 1
    BY <1>0, <1>7, <2>1 DEF EnqueueClaimed, LPushAll, OneCopy
  <2> QED
    BY <1>0, <1>7, <2>2 DEF EnqueueClaimed, resurrectors, OneCopy
<1>8. ASSUME NEW m \in Mover, Move(m) \/ MoverFails(m) PROVE OneCopy'
  BY <1>1, <1>7, <1>8 DEF Move, ListDue, Claim, GetMany, MoverFails, redis, resurrectors
<1>9. ASSUME NEW r \in Proc, PopProcessing(r) PROVE OneCopy'
  <2>1. PICK b \in [Job -> Nat] :
          /\ \A i \in Job : b[i] <= 1 /\ b[i] <= processing[target[r]][i]
          /\ processing' = [processing EXCEPT ![target[r]] = Without(@, b)]
          /\ batch' = [batch EXCEPT ![r] = b]
          /\ target[r] \in Proc
    BY <1>9, PopTakes
  <2>2. \A p \in Proc, i \in Job : processing'[p][i] <= 1
    BY <1>0, <2>1 DEF Without, OneCopy, TypeOK, RedisOK
  <2>3. \A p \in Proc, i \in Job : batch'[p][i] <= 1
    BY <1>0, <2>1 DEF OneCopy, TypeOK, ResurrectorsOK
  <2> QED
    BY <1>0, <1>9, <2>2, <2>3 DEF PopProcessing, OneCopy
<1>10. ASSUME NEW r \in Proc, NEW j \in Job, AfterOne(r, j)
       PROVE  \A p \in Proc, i \in Job : batch'[p][i] <= 1
  BY <1>0, <1>10 DEF AfterOne, LRem, OneCopy, TypeOK, ResurrectorsOK
<1>11. ASSUME NEW r \in Proc, Inspect(r) PROVE OneCopy'
  <2>1. PICK j \in Job : AfterOne(r, j) \/ UNCHANGED batch
    BY <1>11 DEF Inspect
  <2> QED
    BY <1>0, <1>10, <1>11, <2>1 DEF Inspect, redis, OneCopy
<1>12. ASSUME NEW r \in Proc, Resurrect(r) PROVE OneCopy'
  <2>1. found[r] \in Job /\ AfterOne(r, found[r]) /\ At("batch", r, found[r])
    BY <1>0, <1>12 DEF Resurrect, TypeOK, ResurrectorsOK, Apart, FoundInBatch, At
  <2>2. ~At("queue", None, found[r])
    BY <1>0, <2>1 DEF Exclusive
  <2>3. queue[found[r]] = 0
    BY <1>0, <2>1, <2>2 DEF At, TypeOK, RedisOK
  <2>4. \A i \in Job : queue'[i] <= 1
    <3>1. UNCHANGED queue \/ queue' = [queue EXCEPT ![found[r]] = 1]
      BY <1>12, <2>3 DEF Resurrect, LPush
    <3> QED
      BY <1>0, <2>1, <3>1 DEF OneCopy, TypeOK, RedisOK
  <2>5. \A p \in Proc, i \in Job : batch'[p][i] <= 1
    BY <1>10, <2>1
  <2> QED
    BY <1>0, <1>12, <2>4, <2>5 DEF Resurrect, OneCopy
<1>13. ASSUME NEW r \in Proc, Scan(r) PROVE OneCopy'
  BY <1>1, <1>9, <1>11, <1>12, <1>13 DEF Scan, InitialPing, ScanProcesses, ScanQueues, Unregister, redis
<1>14. ASSUME NEW p \in Proc, Crash(p) \/ Exit(p) PROVE OneCopy'
  <2>1. \A q \in Proc, i \in Job : batch'[q][i] <= 1
    BY <1>0, <1>14, EmptyListType DEF Crash, Exit, ResetResurrector, OneCopy, TypeOK, ResurrectorsOK
  <2> QED
    BY <1>0, <1>14, <2>1 DEF Crash, Exit, redis, OneCopy
<1>15. ASSUME NEW p \in Proc, ResurrectFails(p) PROVE OneCopy'
  BY <1>15, SteadyFaults DEF ResurrectFails
<1>16. ASSUME NEW p \in Proc, Process(p) PROVE OneCopy'
  BY <1>1, <1>14, <1>16 DEF Process, Start, Cancel, LeaveLoop, Ping, HeartbeatExpires, redis, resurrectors
<1>17. CASE Client
  BY <1>1, <1>2, <1>17 DEF Client, EnqueueAt, resurrectors
<1>18. CASE UNCHANGED vars
  BY <1>1, <1>18 DEF vars, redis, resurrectors
<1> QED
  BY <1>5, <1>6, <1>8, <1>13, <1>15, <1>16, <1>17, <1>18 DEF Next

LEMMA FoundStep ==
    ASSUME Steady, LossInv, Apart, [Next]_vars
    PROVE  FoundInBatch'
<1>0. TypeOK /\ FoundInBatch
  BY DEF Apart
<1>1. CASE UNCHANGED <<rpc, batch, found>>
  BY <1>0, <1>1 DEF FoundInBatch
<1>2. ASSUME NEW r \in Proc, rpc'[r] /= "found",
             \A q \in Proc : q /= r => rpc'[q] = rpc[q] /\ batch'[q] = batch[q] /\ found'[q] = found[q]
      PROVE  FoundInBatch'
  BY <1>0, <1>2 DEF FoundInBatch
<1>3. ASSUME NEW r \in Proc, Inspect(r) PROVE FoundInBatch'
  BY <1>0, <1>2, <1>3 DEF Inspect, AfterOne, FoundInBatch, TypeOK, ResurrectorsOK
<1>4. ASSUME NEW r \in Proc, Scan(r) PROVE FoundInBatch'
  <2>1. CASE InitialPing(r) \/ ScanProcesses(r) \/ PopProcessing(r) \/ Resurrect(r)
    <3>1. rpc'[r] /= "found" /\ \A q \in Proc : q /= r =>
                                   rpc'[q] = rpc[q] /\ batch'[q] = batch[q] /\ found'[q] = found[q]
      BY <1>0, <2>1 DEF InitialPing, ScanProcesses, PopProcessing, Resurrect, AfterOne,
         TypeOK, ResurrectorsOK
    <3> QED
      BY <1>2, <3>1
  <2>2. CASE ScanQueues(r) \/ Unregister(r)
    <3>1. rpc'[r] /= "found" /\ \A q \in Proc : q /= r =>
                                   rpc'[q] = rpc[q] /\ batch'[q] = batch[q] /\ found'[q] = found[q]
      BY <1>0, <2>2 DEF ScanQueues, Unregister, NextTarget, TypeOK, ResurrectorsOK
    <3> QED
      BY <1>2, <3>1
  <2> QED
    BY <1>3, <1>4, <2>1, <2>2 DEF Scan
<1>5. ASSUME NEW p \in Proc, Crash(p) \/ Exit(p) PROVE FoundInBatch'
  <2>1. rpc'[p] /= "found" /\ \A q \in Proc : q /= p =>
                                   rpc'[q] = rpc[q] /\ batch'[q] = batch[q] /\ found'[q] = found[q]
    BY <1>0, <1>5 DEF Crash, Exit, ResetResurrector, TypeOK, ResurrectorsOK
  <2> QED
    BY <1>2, <2>1
<1>6. ASSUME NEW p \in Proc, ResurrectFails(p) \/ Process(p) PROVE FoundInBatch'
  BY <1>1, <1>5, <1>6, SteadyFaults DEF ResurrectFails, Process, Start, Cancel, LeaveLoop, Ping,
     HeartbeatExpires, resurrectors
<1>7. ASSUME NEW w \in Worker, Task(w) \/ TaskFails(w) PROVE FoundInBatch'
  BY <1>1, <1>7 DEF Task, TaskFails, Dequeue, Load, LoadMissing, DeleteJob, SetStartedAt, Kill,
     FinishWithSuccess, FinishWithFailure, RetryInRead, RetryInWrite, LoadFails,
     SetStartedAtFails, FinishFails, RetryInFails, resurrectors
<1>8. ASSUME NEW m \in Mover, Move(m) \/ MoverFails(m) PROVE FoundInBatch'
  BY <1>1, <1>8 DEF Move, ListDue, Claim, GetMany, EnqueueClaimed, MoverFails, resurrectors
<1>9. CASE Client \/ UNCHANGED vars
  BY <1>1, <1>9 DEF Client, Enqueue, EnqueueAt, vars, resurrectors
<1> QED
  BY <1>4, <1>6, <1>7, <1>8, <1>9 DEF Next

(* The state of one task changes by a step of that task, or to free. *)
LEMMA TaskOf ==
    ASSUME Steady, TypeOK, [Next]_vars, NEW w \in Worker
    PROVE  \/ pc'[w] = pc[w] /\ job'[w] = job[w] /\ env'[w] = env[w]
           \/ Task(w)
           \/ pc'[w] = "free"
<1>1. CASE UNCHANGED tasks
  BY <1>1 DEF tasks
<1>2. ASSUME NEW v \in Worker, Task(v), v /= w
      PROVE  pc'[w] = pc[w] /\ job'[w] = job[w] /\ env'[w] = env[w]
  BY <1>2 DEF Task, Dequeue, Load, LoadMissing, DeleteJob, SetStartedAt, Kill, Free,
     FinishWithSuccess, FinishWithFailure, RetryInRead, RetryInWrite, TypeOK, TasksOK
<1>3. ASSUME NEW v \in Worker, TaskFails(v) PROVE FALSE
  BY <1>3, SteadyFaults DEF TaskFails, LoadFails, SetStartedAtFails, FinishFails, RetryInFails
<1>4. ASSUME NEW p \in Proc, Crash(p) \/ Exit(p)
      PROVE  \/ pc'[w] = pc[w] /\ job'[w] = job[w] /\ env'[w] = env[w]
             \/ pc'[w] = "free"
  BY <1>4 DEF Crash, Exit, DropTasks
<1>5. ASSUME NEW m \in Mover, Move(m) \/ MoverFails(m) PROVE UNCHANGED tasks
  BY <1>5 DEF Move, ListDue, Claim, GetMany, EnqueueClaimed, MoverFails
<1>6. ASSUME NEW p \in Proc, Scan(p) \/ ResurrectFails(p) PROVE UNCHANGED tasks
  BY <1>6 DEF Scan, InitialPing, ScanProcesses, ScanQueues, PopProcessing, Inspect,
     Resurrect, Unregister, ResurrectFails
<1>7. ASSUME NEW p \in Proc, Process(p), ~Crash(p), ~Exit(p) PROVE UNCHANGED tasks
  BY <1>7 DEF Process, Start, Cancel, LeaveLoop, Ping, HeartbeatExpires
<1>8. CASE Client \/ UNCHANGED vars
  BY <1>1, <1>8 DEF Client, Enqueue, EnqueueAt, vars
<1> QED
  BY <1>1, <1>2, <1>3, <1>4, <1>5, <1>6, <1>7, <1>8 DEF Next

(* Two permits with the same job would have it in two places. *)
LEMMA OneTask ==
    ASSUME LossInv, Apart
    PROVE  SingleExecution
<1> SUFFICES ASSUME NEW v \in Worker, NEW w \in Worker, pc[v] /= "free", pc[w] /= "free",
                    job[v] = job[w]
             PROVE  v = w
  BY DEF SingleExecution
<1>1. CASE pc[v] \in Holding /\ pc[w] \in Holding
  BY <1>1 DEF Apart, OneHolder
<1>2. CASE pc[v] \notin Holding /\ pc[w] \notin Holding
  BY <1>2, HeldAt DEF Apart, Exclusive
<1>3. CASE pc[v] \in Holding /\ pc[w] \notin Holding
  BY <1>3, HeldAt DEF Apart, Exclusive
<1>4. CASE pc[v] \notin Holding /\ pc[w] \in Holding
  BY <1>4, HeldAt DEF Apart, Exclusive
<1> QED
  BY <1>1, <1>2, <1>3, <1>4

(* A task works on the job it worked on before, or has just taken it. *)
LEMMA HolderBefore ==
    ASSUME Steady, LossInv, [Next]_vars, NEW w \in Worker, pc'[w] \in Holding
    PROVE  (pc[w] \in Holding /\ job'[w] = job[w]) \/ Dequeue(w)
<1>1. CASE Task(w) /\ ~Dequeue(w)
  BY <1>1, SteadyFaults DEF Task, Load, LoadMissing, DeleteJob, SetStartedAt, Kill, Free, Holding,
     FinishWithSuccess, FinishWithFailure, RetryInRead, RetryInWrite, TypeOK, TasksOK
<1> QED
  BY <1>1, TaskOf DEF Holding

LEMMA OneHolderStep ==
    ASSUME Steady, LossInv, Apart, [Next]_vars
    PROVE  OneHolder'
<1> SUFFICES ASSUME NEW v \in Worker, NEW w \in Worker, pc'[v] \in Holding, pc'[w] \in Holding,
                    job'[v] = job'[w], v /= w
             PROVE  FALSE
  BY DEF OneHolder
<1>1. ASSUME NEW x \in Worker, NEW y \in Worker, x /= y, Dequeue(x), job'[x] = job'[y],
             pc[y] \in Holding, job'[y] = job[y]
      PROVE  FALSE
  <2>1. PICK j \in Job : queue[j] > 0 /\ job' = [job EXCEPT ![x] = j]
    BY <1>1 DEF Dequeue
  <2>2. At("queue", None, j) /\ job[y] = j
    BY <1>1, <2>1 DEF At, TypeOK, TasksOK
  <2>3. At("processing", Host[y], j)
    BY <1>1, <2>2, HeldAt DEF Holding
  <2> QED
    BY <2>2, <2>3 DEF Apart, Exclusive
<1>2. ~(Dequeue(v) /\ Dequeue(w))
  BY DEF Dequeue, TypeOK, TasksOK
<1>3. CASE pc[v] \in Holding /\ job'[v] = job[v] /\ pc[w] \in Holding /\ job'[w] = job[w]
  BY <1>3 DEF Apart, OneHolder
<1> QED
  BY <1>1, <1>2, <1>3, HolderBefore

(* Only the task that works on a job takes it off its processing list,     *)
(* and resurrectors do, once the process is down.                          *)
LEMMA HeldListedStep ==
    ASSUME Steady, LossInv, Heartbeats, DownIdle, Apart, [Next]_vars
    PROVE  HeldListed'
<1> SUFFICES ASSUME NEW w \in Worker, pc'[w] \in Holding
             PROVE  processing'[Host[w]][job'[w]] > 0
  BY DEF HeldListed
<1>0. Host[w] \in Proc
  BY HostAssumption
<1>1. CASE Dequeue(w)
  BY <1>0, <1>1 DEF Dequeue, LPush, TypeOK, RedisOK, TasksOK
<1>2. CASE pc[w] \in Holding /\ job'[w] = job[w]
  <2>1. processing[Host[w]][job[w]] > 0 /\ job[w] \in Job
    BY <1>2, HeldAt DEF Apart, HeldListed, Holding
  <2>2. CASE UNCHANGED processing
    BY <1>2, <2>1, <2>2
  <2>3. ASSUME NEW v \in Worker, Dequeue(v) PROVE processing'[Host[w]][job[w]] > 0
    BY <1>0, <2>1, <2>3, HostAssumption DEF Dequeue, LPush, TypeOK, RedisOK
  <2>4. ASSUME NEW v \in Worker,
               DeleteJob(v) \/ Kill(v) \/ FinishWithSuccess(v) \/ FinishWithFailure(v)
        PROVE  processing'[Host[w]][job[w]] > 0
    <3>1. pc[v] /= "free" /\ pc'[v] \notin Holding /\ job[v] \in Job
      BY <2>4 DEF DeleteJob, Kill, FinishWithSuccess, FinishWithFailure, Free, Holding,
         TypeOK, TasksOK
    <3>2. job[v] /= job[w]
      BY <1>2, <3>1, OneTask DEF SingleExecution, Holding
    <3>3. processing' = [processing EXCEPT ![Host[v]] = LRem(@, job[v])]
      BY <2>4, SteadyFaults DEF DeleteJob, Kill, FinishWithSuccess, FinishWithFailure
    <3> QED
      BY <1>0, <2>1, <3>1, <3>2, <3>3, HostAssumption DEF LRem, TypeOK, RedisOK
  <2>5. ASSUME NEW v \in Worker, Task(v) PROVE processing'[Host[w]][job[w]] > 0
    BY <1>2, <2>2, <2>3, <2>4, <2>5 DEF Task, Load, LoadMissing, SetStartedAt, RetryInRead,
       RetryInWrite, redis
  <2>6. ASSUME NEW r \in Proc, PopProcessing(r) PROVE processing'[Host[w]][job[w]] > 0
    <3>1. target[r] \in Proc /\ phase[target[r]] = "down"
      BY <2>6 DEF PopProcessing, Heartbeats, TargetsDown, TypeOK, ResurrectorsOK
    <3>2. Host[w] /= target[r]
      BY <1>2, <3>1 DEF DownIdle, Holding
    <3>3. processing'[Host[w]] = processing[Host[w]]
      BY <1>0, <2>6, <3>2 DEF PopProcessing, TypeOK, RedisOK
    <3> QED
      BY <2>1, <3>3
  <2>7. ASSUME NEW r \in Proc, Scan(r) PROVE processing'[Host[w]][job[w]] > 0
    BY <1>2, <2>2, <2>6, <2>7 DEF Scan, InitialPing, ScanProcesses, ScanQueues, Inspect, Resurrect,
       Unregister, redis
  <2>8. CASE Client \/ UNCHANGED vars
    BY <1>2, <2>2, <2>8 DEF Client, Enqueue, EnqueueAt, vars, redis
  <2>9. ASSUME NEW v \in Worker, TaskFails(v) PROVE UNCHANGED processing
    BY <2>9 DEF TaskFails, LoadFails, SetStartedAtFails, FinishFails, RetryInFails, redis
  <2>10. ASSUME NEW m \in Mover, Move(m) \/ MoverFails(m) PROVE UNCHANGED processing
    BY <2>10 DEF Move, ListDue, Claim, GetMany, EnqueueClaimed, MoverFails, redis
  <2>11. ASSUME NEW p \in Proc, ResurrectFails(p) \/ Process(p) PROVE UNCHANGED processing
    BY <2>11 DEF ResurrectFails, Process, Start, Crash, Cancel, LeaveLoop, Exit, Ping,
       HeartbeatExpires, redis
  <2> QED
    BY <1>2, <2>2, <2>5, <2>7, <2>8, <2>9, <2>10, <2>11 DEF Next
<1> QED
  BY <1>1, <1>2, HolderBefore

LEMMA ApartStep ==
    ASSUME Steady, LossInv, Heartbeats, DownIdle, Apart, [Next]_vars
    PROVE  Apart'
BY ExclusiveStep, SettledStep, OneCopyStep, FoundStep, OneHolderStep, HeldListedStep DEF Apart

---------------------------------------------------------------------------
(* Envelopes *)

(* The envelope of a job that a task has is written by that task only. *)
LEMMA OwnEnvelope ==
    ASSUME Steady, LossInv, Apart, [Next]_vars, NEW w \in Worker, pc[w] /= "free",
           jobs'[job[w]] /= jobs[job[w]]
    PROVE  SetStartedAt(w) \/ pc'[w] = "free"
<1> DEFINE j == job[w]
<1>0. j \in Job /\ j \in accepted /\ j \notin settled
  BY HeldAt
<1>1. ~Enqueue(j) /\ ~EnqueueAt(j)
  BY <1>0 DEF Enqueue, EnqueueAt
<1>2. ASSUME NEW v \in Worker, SetStartedAt(v) \/ RetryInWrite(v) \/ DeleteJob(v), job[v] = j
      PROVE  SetStartedAt(w) \/ pc'[w] = "free"
  <2>1. v = w
    BY <1>2, OneTask DEF SingleExecution, SetStartedAt, RetryInWrite, DeleteJob
  <2> QED
    BY <1>2, <2>1 DEF RetryInWrite, DeleteJob, Free, TypeOK, TasksOK
<1>3. CASE j \in settled'
  <2>1. ASSUME NEW v \in Worker, Kill(v) \/ FinishWithSuccess(v), j = job[v]
        PROVE  pc'[w] = "free"
    <3>1. v = w
      BY <2>1, OneTask DEF SingleExecution, Kill, FinishWithSuccess
    <3> QED
      BY <2>1, <3>1 DEF Kill, FinishWithSuccess, Free, TypeOK, TasksOK
  <2>2. ASSUME NEW r \in Proc, Resurrect(r), j = found[r] PROVE FALSE
    <3>1. At("batch", r, j)
      BY <2>2 DEF Resurrect, At, Apart, FoundInBatch
    <3>2. At("processing", Host[w], j) \/ At("task", w, j)
      BY HeldAt
    <3> QED
      BY <1>0, <3>1, <3>2 DEF Apart, Exclusive
  <2> QED
    BY <1>0, <1>3, <2>1, <2>2, NewlySettled
<1> QED
  BY <1>0, <1>1, <1>2, <1>3, EnvelopeWrites

LEMMA EnvelopeStep ==
    ASSUME Steady, LossInv, Apart, EnvelopeKnown, [Next]_vars
    PROVE  EnvelopeKnown'
<1> DEFINE Known(w) ==
        /\ pc[w] \in {"loaded", "running"} => env[w] = jobs[job[w]]
        /\ pc[w] \in {"released", "retrying"} =>
              jobs[job[w]] /= None /\ jobs[job[w]].retries < MaxRetries
        /\ pc[w] = "retrying" => env[w] = [retries |-> jobs[job[w]].retries + 1]
<1> SUFFICES ASSUME NEW w \in Worker PROVE Known(w)'
  BY DEF EnvelopeKnown
<1>0. Known(w)
  BY DEF EnvelopeKnown
<1>1. CASE pc'[w] = "free" \/ Dequeue(w) \/ LoadMissing(w)
  BY <1>1 DEF Dequeue, LoadMissing, TypeOK, TasksOK
<1>2. CASE pc'[w] /= "free" /\ pc'[w] = pc[w] /\ job'[w] = job[w] /\ env'[w] = env[w]
  <2>1. ~SetStartedAt(w)
    BY <1>2 DEF SetStartedAt, TypeOK, TasksOK
  <2>2. jobs'[job[w]] = jobs[job[w]]
    BY <1>2, <2>1, OwnEnvelope
  <2> QED
    BY <1>0, <1>2, <2>2
<1>3. CASE Load(w)
  BY <1>3 DEF Load, redis, TypeOK, TasksOK
<1>4. CASE SetStartedAt(w)
  BY <1>0, <1>4 DEF SetStartedAt, TypeOK, RedisOK, TasksOK
<1>5. CASE FinishWithFailure(w)
  <2>1. jobs[job[w]] /= None
    BY <1>5, NeverMissing DEF FinishWithFailure
  <2> QED
    BY <1>0, <1>5, <2>1 DEF FinishWithFailure, TypeOK, TasksOK
<1>6. CASE RetryInRead(w)
  <2>1. jobs[job[w]] /= None
    BY <1>6, NeverMissing DEF RetryInRead
  <2> QED
    BY <1>0, <1>6, <2>1 DEF RetryInRead, redis, TypeOK, TasksOK
<1>7. CASE DeleteJob(w) \/ Kill(w) \/ FinishWithSuccess(w) \/ RetryInWrite(w)
  BY <1>1, <1>7 DEF DeleteJob, Kill, FinishWithSuccess, RetryInWrite, Free, TypeOK, TasksOK
<1> QED
  BY <1>1, <1>2, <1>3, <1>4, <1>5, <1>6, <1>7, TaskOf DEF Task

LEMMA RetriesStep ==
    ASSUME Steady, LossInv, Apart, EnvelopeKnown, RetriesBounded, [Next]_vars
    PROVE  RetriesBounded'
<1> SUFFICES ASSUME NEW j \in Job, jobs'[j] /= None PROVE jobs'[j].retries <= MaxRetries
  BY DEF RetriesBounded
<1>1. CASE jobs'[j] = jobs[j]
  BY <1>1 DEF RetriesBounded
<1>2. CASE Enqueue(j) \/ EnqueueAt(j)
  BY <1>2, NumbersAssumption DEF Enqueue, EnqueueAt, TypeOK, RedisOK
<1>3. ASSUME NEW w \in Worker, SetStartedAt(w), job[w] = j
      PROVE  jobs'[j].retries <= MaxRetries
  <2>1. jobs'[j] = jobs[j]
    BY <1>3 DEF SetStartedAt, EnvelopeKnown, TypeOK, RedisOK
  <2> QED
    BY <1>1, <2>1
<1>4. ASSUME NEW w \in Worker, RetryInWrite(w), job[w] = j
      PROVE  jobs'[j].retries <= MaxRetries
  <2>1. /\ jobs'[j] = [retries |-> jobs[j].retries + 1]
        /\ jobs[j] /= None /\ jobs[j].retries < MaxRetries
    BY <1>4 DEF RetryInWrite, EnvelopeKnown, TypeOK, RedisOK
  <2>2. jobs[j].retries \in Nat
    BY <2>1 DEF TypeOK, RedisOK, Envelope
  <2> QED
    BY <2>1, <2>2, NumbersAssumption
<1>5. ASSUME NEW w \in Worker, DeleteJob(w) PROVE FALSE
  BY <1>5, NeverMissing DEF DeleteJob
<1> QED
  BY <1>1, <1>2, <1>3, <1>4, <1>5, EnvelopeWrites

LEMMA NoneBeforeStep ==
    ASSUME Steady, LossInv, Apart, NoneBefore, [Next]_vars
    PROVE  NoneBefore'
<1> SUFFICES ASSUME NEW j \in Job, j \notin accepted' PROVE jobs'[j] = None
  BY DEF NoneBefore
<1>1. j \notin accepted /\ jobs[j] = None
  BY HistoryGrows DEF NoneBefore
<1>2. ~Enqueue(j) /\ ~EnqueueAt(j)
  BY DEF Enqueue, EnqueueAt
<1>3. ASSUME NEW w \in Worker, SetStartedAt(w) \/ RetryInWrite(w) \/ DeleteJob(w), job[w] = j
      PROVE  FALSE
  BY <1>1, <1>3, HeldAt DEF SetStartedAt, RetryInWrite, DeleteJob
<1> QED
  BY <1>1, <1>2, <1>3, EnvelopeWrites

---------------------------------------------------------------------------
(* The safety invariants *)

LEMMA SafetyInit == Init => SafetyInv
<1> SUFFICES ASSUME Init PROVE SafetyInv
  OBVIOUS
<1>1. LossInv
  BY LossInit
<1>2. Heartbeats /\ DownIdle
  BY HostAssumption DEF Init, Heartbeats, UpIsFresh, DyingDown, ScansSeeAll, TargetsDown, DownIdle
<1>3. \A k, o, j : j \in Job => ~At(k, o, j)
  BY EmptyListType DEF Init, At
<1>4. Apart
  BY <1>3, EmptyListType DEF Init, Apart, OneCopy, Exclusive, SettledGone, HeldListed, OneHolder,
     FoundInBatch, Holding
<1>5. EnvelopeKnown /\ NoneBefore /\ RetriesBounded
  BY DEF Init, EnvelopeKnown, NoneBefore, RetriesBounded
<1> QED
  BY <1>1, <1>2, <1>4, <1>5 DEF SafetyInv

LEMMA SafetyStep == ASSUME Steady PROVE SafetyInv /\ [Next]_vars => SafetyInv'
<1> SUFFICES ASSUME SafetyInv, [Next]_vars PROVE SafetyInv'
  OBVIOUS
<1>0. LossInv /\ Heartbeats /\ DownIdle /\ Apart /\ EnvelopeKnown /\ NoneBefore
      /\ RetriesBounded
  BY DEF SafetyInv
<1>1. LossInv'
  BY <1>0, LossStep
<1>2. Heartbeats' /\ DownIdle'
  BY <1>0, HeartbeatsStep, DownIdleStep
<1>3. Apart'
  BY <1>0, ApartStep
<1>4. EnvelopeKnown' /\ NoneBefore' /\ RetriesBounded'
  BY <1>0, EnvelopeStep, NoneBeforeStep, RetriesStep
<1> QED
  BY <1>1, <1>2, <1>3, <1>4 DEF SafetyInv

(* In a steady system every job is in at most one place, a task that has a *)
(* job has it alone and knows its envelope, and only processes that are    *)
(* down are taken for dead.                                                *)
THEOREM SafetyInvariant == ASSUME Steady PROVE Spec => []SafetyInv
BY SafetyInit, SafetyStep, PTL DEF Spec

(* SingleExecution: two permits, of one process or of two, never hold the  *)
(* same job, though processes crash and their jobs are resurrected.        *)
THEOREM RunOnceAtATime == ASSUME Steady PROVE Spec => []SingleExecution
<1>1. SafetyInv => SingleExecution
  BY OneTask DEF SafetyInv
<1> QED
  BY <1>1, SafetyInvariant, PTL

(* NothingLeftBehind: once a job is settled no late write brings its       *)
(* envelope back, and no list, set or loop has its id.                     *)
THEOREM OutcomeFinal == ASSUME Steady PROVE Spec => []NothingLeftBehind
<1>1. SafetyInv => NothingLeftBehind
  <2> SUFFICES ASSUME SafetyInv, NEW j \in settled PROVE jobs[j] = None /\ ~Durable(j)
    BY DEF NothingLeftBehind
  <2>1. j \in Job /\ jobs[j] = None /\ \A k, o : ~At(k, o, j)
    BY DEF SafetyInv, Apart, SettledGone, TypeOK
  <2>2. ~Placed(j)
    BY <2>1, PlacedAt
  <2> QED
    BY <2>1, <2>2, PlacedMeans
<1> QED
  BY <1>1, SafetyInvariant, PTL

(* RetriesBounded: no envelope counts more retries than max_retries.       *)
THEOREM RetriesAreBounded == ASSUME Steady PROVE Spec => []RetriesBounded
<1>1. SafetyInv => RetriesBounded
  BY DEF SafetyInv
<1> QED
  BY <1>1, SafetyInvariant, PTL

(* OnlyDeadResurrected: a resurrector pops from the processing list of a   *)
(* process only when that process is not running, whatever it saw first in *)
(* its two scans.                                                          *)
THEOREM OnlyDeadAreResurrected == ASSUME Steady PROVE Spec => []OnlyDeadResurrected
<1>1. SafetyInv => OnlyDeadResurrected
  BY DEF SafetyInv, Heartbeats, TargetsDown, OnlyDeadResurrected
<1> QED
  BY <1>1, SafetyInvariant, PTL

---------------------------------------------------------------------------
(* JobLifecycle implements JobService *)

Somewhere(j) == \E k, o : At(k, o, j)

(* The status of a job, in terms of its place. *)
StatusByPlace ==
    \A j \in Job :
        StatusOf(j) = IF j \notin accepted THEN "new"
                      ELSE IF j \in settled THEN "settled"
                      ELSE IF ~Somewhere(j) THEN "lost"
                      ELSE IF Running(j) THEN "running"
                      ELSE "waiting"

LEMMA StatusPlace == SafetyInv => StatusByPlace
<1> SUFFICES ASSUME SafetyInv, NEW j \in Job, j \in accepted, j \notin settled
             PROVE  Safe(j) <=> Somewhere(j)
  BY DEF StatusByPlace, StatusOf
<1>1. jobs[j] /= None
  BY DEF SafetyInv, EnvelopesKept
<1>2. Placed(j) <=> Somewhere(j)
  BY PlacedAt DEF Somewhere
<1> QED
  BY <1>1, <1>2, PlacedMeans DEF Safe

LEMMA StatusPlaceNext == SafetyInv' => StatusByPlace'
BY StatusPlace, PTL

(* Placed is Somewhere, of the next state too. *)
PlacedBySomewhere == \A j \in Job : Placed(j) <=> Somewhere(j)

LEMMA PlacedSomewhere == PlacedBySomewhere
BY PlacedAt DEF PlacedBySomewhere, Somewhere

LEMMA PlacedSomewhereNext == PlacedBySomewhere'
BY PlacedSomewhere, PTL

(* An unsettled job comes from somewhere, and without a disturbance goes   *)
(* somewhere.                                                              *)
LEMMA SomewhereStep ==
    ASSUME Steady, SafetyInv, [Next]_vars, NEW j \in accepted
    PROVE  /\ Somewhere(j)' => Somewhere(j)
           /\ j \notin settled' /\ UNCHANGED faults /\ Somewhere(j) => Somewhere(j)'
<1>0. j \in Job /\ LossInv /\ Apart
  BY DEF SafetyInv, TypeOK
<1>1. JobStep(j)
  BY <1>0, JobSteps
<1>2. Somewhere(j)' => Somewhere(j)
  BY <1>1 DEF JobStep, Somewhere
<1>3. ASSUME j \notin settled', UNCHANGED faults, Somewhere(j) PROVE Somewhere(j)'
  <2>1. j \notin settled /\ Placed(j)
    BY <1>0, <1>3, HistoryGrows, PlacedSomewhere DEF PlacedBySomewhere
  <2>2. Placed(j)' \/ Disturbance(j)
    BY <1>0, <1>3, <2>1, PlacedStep
  <2>3. ~Disturbance(j)
    BY <1>0, <1>3 DEF Disturbance, TypeOK
  <2> QED
    BY <1>0, <2>2, <2>3, PlacedSomewhereNext DEF PlacedBySomewhere
<1> QED
  BY <1>2, <1>3

RetriesOf(j) == IF jobs[j] = None THEN 0 ELSE jobs[j].retries

(* Where nothing is accepted, settled, begun or ended, no status changes. *)
LEMMA StatusSame ==
    ASSUME Steady, SafetyInv, SafetyInv', [Next]_vars, NEW j \in Job, UNCHANGED faults,
           j \in accepted' <=> j \in accepted, j \in settled' <=> j \in settled,
           Running(j)' <=> Running(j)
    PROVE  StatusOf(j)' = StatusOf(j)
<1>1. StatusByPlace /\ StatusByPlace'
  BY StatusPlace, StatusPlaceNext
<1>2. j \in accepted /\ j \notin settled => (Somewhere(j)' <=> Somewhere(j))
  BY SomewhereStep
<1> QED
  BY <1>1, <1>2 DEF StatusByPlace

(* The steps of JobService, in terms of the status of each job. *)
LEMMA AbstractStutter ==
    ASSUME \A i \in Job : StatusOf(i)' = StatusOf(i) /\ RetriesOf(i)' = RetriesOf(i)
    PROVE  UNCHANGED Abstract!vars
BY DEF Abstract!vars, RetriesOf

LEMMA AbstractMove ==
    ASSUME NEW j \in Job, \A i \in Job : i /= j => StatusOf(i)' = StatusOf(i),
           \A i \in Job : RetriesOf(i)' = RetriesOf(i)
    PROVE  /\ StatusOf(j) = "new" /\ StatusOf(j)' = "waiting" => Abstract!Accept(j)
           /\ StatusOf(j) = "waiting" /\ StatusOf(j)' = "running" => Abstract!Begin(j)
BY DEF Abstract!Accept, Abstract!Begin, Abstract!Become, RetriesOf

LEMMA AbstractRetry ==
    ASSUME NEW j \in Job, \A i \in Job : i /= j => StatusOf(i)' = StatusOf(i),
           \A i \in Job : i /= j => RetriesOf(i)' = RetriesOf(i),
           StatusOf(j) = "running", StatusOf(j)' = "waiting",
           RetriesOf(j) < MaxRetries, RetriesOf(j)' = RetriesOf(j) + 1
    PROVE  Abstract!Retry(j)
BY DEF Abstract!Retry, Abstract!Become, RetriesOf

LEMMA AbstractSettle ==
    ASSUME NEW j \in Job, \A i \in Job : i /= j => StatusOf(i)' = StatusOf(i),
           \A i \in Job : i /= j => RetriesOf(i)' = RetriesOf(i),
           StatusOf(j) \in {"waiting", "running"}, StatusOf(j)' = "settled", RetriesOf(j)' = 0
    PROVE  Abstract!Settle(j)
BY DEF Abstract!Settle, Abstract!Become, RetriesOf

LEMMA AbstractInterrupt ==
    ASSUME \A i \in Job : RetriesOf(i)' = RetriesOf(i),
           \A i \in Job : \/ StatusOf(i)' = StatusOf(i)
                          \/ StatusOf(i) = "running" /\ StatusOf(i)' = "waiting"
                          \/ StatusOf(i) \in {"waiting", "running"} /\ StatusOf(i)' = "lost"
    PROVE  Abstract!Interrupt \/ UNCHANGED Abstract!vars
<1> DEFINE hit == {i \in Job : StatusOf(i) = "running" /\ StatusOf(i)' = "waiting"}
           gone == {i \in Job : StatusOf(i) \in {"waiting", "running"} /\ StatusOf(i)' = "lost"}
           was == [i \in Job |-> StatusOf(i)]
<1>1. \A i \in Job : was'[i] = IF i \in gone THEN "lost"
                               ELSE IF i \in hit THEN "waiting" ELSE was[i]
  OBVIOUS
<1>2. was' = [i \in Job |-> IF i \in gone THEN "lost" ELSE IF i \in hit THEN "waiting" ELSE was[i]]
  BY <1>1
<1>3. /\ hit \in SUBSET {i \in Job : was[i] = "running"}
      /\ gone \in SUBSET {i \in Job : was[i] \in {"waiting", "running"}}
  OBVIOUS
<1>4. CASE hit \cup gone /= {}
  BY <1>2, <1>3, <1>4 DEF Abstract!Interrupt, RetriesOf
<1>5. CASE hit \cup gone = {}
  <2>1. \A i \in Job : StatusOf(i)' = StatusOf(i)
    BY <1>5
  <2> QED
    BY <2>1, AbstractStutter
<1> QED
  BY <1>4, <1>5

LEMMA ImplementsInit == Init => Abstract!Init
BY DEF Init, Abstract!Init, StatusOf

(* Who runs a job. *)
RunPC == {"running", "released", "retrying"}

LEMMA RunningSame ==
    ASSUME \A w \in Worker : /\ pc'[w] \in RunPC <=> pc[w] \in RunPC
                             /\ pc[w] \in RunPC => job'[w] = job[w]
    PROVE  \A j : Running(j)' <=> Running(j)
BY DEF Running, RunPC

(* A step that is none of the service's. *)
LEMMA ImplementsStutter ==
    ASSUME Steady, SafetyInv, SafetyInv', [Next]_vars, UNCHANGED <<jobs, accepted, settled, faults>>,
           \A w \in Worker : /\ pc'[w] \in RunPC <=> pc[w] \in RunPC
                             /\ pc[w] \in RunPC => job'[w] = job[w]
    PROVE  UNCHANGED Abstract!vars
<1>1. \A j \in Job : Running(j)' <=> Running(j)
  BY RunningSame
<1>2. \A j \in Job : StatusOf(j)' = StatusOf(j)
  BY <1>1, StatusSame
<1> QED
  BY <1>2, AbstractStutter DEF RetriesOf

LEMMA ImplementsAccept ==
    ASSUME Steady, SafetyInv, SafetyInv', [Next]_vars, NEW j \in Job, Enqueue(j) \/ EnqueueAt(j)
    PROVE  Abstract!Accept(j)
<1>0. /\ j \notin accepted /\ accepted' = accepted \cup {j} /\ UNCHANGED <<settled, faults, pc, job>>
      /\ jobs' = [jobs EXCEPT ![j] = [retries |-> 0]]
  BY DEF Enqueue, EnqueueAt, tasks
<1>1. \A i \in Job : Running(i)' <=> Running(i)
  BY <1>0 DEF Running
<1>2. \A i \in Job : i /= j => StatusOf(i)' = StatusOf(i)
  BY <1>0, <1>1, StatusSame
<1>3. StatusOf(j) = "new"
  BY <1>0 DEF StatusOf
<1>4. StatusOf(j)' = "waiting"
  <2>1. j \in accepted' /\ j \notin settled' /\ ~Running(j)'
    BY <1>0, <1>1 DEF SafetyInv, Apart, SettledGone, Running, TaskIds
  <2>2. Safe(j)'
    BY <1>0, <2>1, NewlySafe DEF SafetyInv
  <2> QED
    BY <2>1, <2>2 DEF StatusOf
<1>5. \A i \in Job : RetriesOf(i)' = RetriesOf(i)
  BY <1>0, NoneAssumption DEF RetriesOf, SafetyInv, NoneBefore, TypeOK, RedisOK
<1> QED
  BY <1>2, <1>3, <1>4, <1>5, AbstractMove

LEMMA ImplementsBegin ==
    ASSUME Steady, SafetyInv, SafetyInv', [Next]_vars, NEW w \in Worker, SetStartedAt(w)
    PROVE  \E j \in Job : Abstract!Begin(j)
<1>a. LossInv /\ Apart /\ EnvelopeKnown
  BY DEF SafetyInv
<1>0. PICK j \in Job : j = job[w]
  BY <1>a, HeldAt DEF SetStartedAt
<1>1. /\ j \in accepted /\ j \notin settled /\ At("processing", Host[w], j)
  BY <1>a, <1>0, HeldAt DEF SetStartedAt, Holding
<1>2. /\ UNCHANGED <<accepted, settled, faults, job>> /\ pc' = [pc EXCEPT ![w] = "running"]
      /\ pc[w] = "loaded" /\ jobs' = [jobs EXCEPT ![j] = env[w]]
  BY <1>0 DEF SetStartedAt, history
<1>3. jobs' = jobs
  BY <1>a, <1>0, <1>2 DEF EnvelopeKnown, TypeOK, RedisOK
<1>4. ~Running(j) /\ Running(j)' /\ \A i \in Job : i /= j => (Running(i)' <=> Running(i))
  <2>1. ~Running(j)
    BY <1>a, <1>0, <1>2, OneTask DEF Running, SingleExecution
  <2>2. pc'[w] = "running" /\ \A v \in Worker : v /= w => pc'[v] = pc[v]
    BY <1>a, <1>2 DEF TypeOK, TasksOK
  <2> QED
    BY <1>0, <1>2, <2>1, <2>2 DEF Running
<1>5. Somewhere(j) /\ Somewhere(j)'
  BY <1>1, <1>2, SomewhereStep DEF Somewhere
<1>6. StatusOf(j) = "waiting" /\ StatusOf(j)' = "running"
  BY <1>1, <1>2, <1>4, <1>5, StatusPlace, StatusPlaceNext DEF StatusByPlace
<1>7. \A i \in Job : i /= j => StatusOf(i)' = StatusOf(i)
  BY <1>2, <1>4, StatusSame
<1>8. \A i \in Job : RetriesOf(i)' = RetriesOf(i)
  BY <1>3 DEF RetriesOf
<1> QED
  BY <1>6, <1>7, <1>8, AbstractMove

LEMMA ImplementsRetry ==
    ASSUME Steady, SafetyInv, SafetyInv', [Next]_vars, NEW w \in Worker, RetryInWrite(w)
    PROVE  \E j \in Job : Abstract!Retry(j)
<1>a. LossInv /\ Apart /\ EnvelopeKnown
  BY DEF SafetyInv
<1>0. PICK j \in Job : j = job[w]
  BY <1>a, HeldAt DEF RetryInWrite
<1>1. /\ j \in accepted /\ j \notin settled /\ At("task", w, j)
  BY <1>a, <1>0, HeldAt DEF RetryInWrite, Holding
<1>2. /\ UNCHANGED <<accepted, settled, faults>> /\ Free(w)
      /\ pc[w] = "retrying" /\ jobs' = [jobs EXCEPT ![j] = env[w]]
  BY <1>0 DEF RetryInWrite, history
<1>3. /\ jobs[j] /= None /\ jobs[j].retries < MaxRetries /\ jobs[j].retries \in Nat
      /\ jobs'[j] = [retries |-> jobs[j].retries + 1]
      /\ \A i \in Job : i /= j => jobs'[i] = jobs[i]
  BY <1>a, <1>0, <1>2 DEF EnvelopeKnown, TypeOK, RedisOK, Envelope
<1>4. Running(j) /\ ~Running(j)' /\ \A i \in Job : i /= j => (Running(i)' <=> Running(i))
  <2>1. \A v \in Worker : pc[v] /= "free" /\ job[v] = j => v = w
    BY <1>a, <1>0, <1>2, OneTask DEF SingleExecution
  <2>2. pc'[w] = "free" /\ \A v \in Worker : v /= w => pc'[v] = pc[v] /\ job'[v] = job[v]
    BY <1>a, <1>2 DEF Free, TypeOK, TasksOK
  <2> QED
    BY <1>0, <1>2, <2>1, <2>2 DEF Running
<1>5. Somewhere(j) /\ Somewhere(j)'
  BY <1>1, <1>2, SomewhereStep DEF Somewhere
<1>6. StatusOf(j) = "running" /\ StatusOf(j)' = "waiting"
  BY <1>1, <1>2, <1>4, <1>5, StatusPlace, StatusPlaceNext DEF StatusByPlace
<1>7. \A i \in Job : i /= j => StatusOf(i)' = StatusOf(i)
  BY <1>2, <1>4, StatusSame
<1>8. /\ RetriesOf(j) < MaxRetries /\ RetriesOf(j)' = RetriesOf(j) + 1
      /\ \A i \in Job : i /= j => RetriesOf(i)' = RetriesOf(i)
  BY <1>3, NoneAssumption DEF RetriesOf
<1> QED
  BY <1>6, <1>7, <1>8, AbstractRetry

LEMMA ImplementsSettle ==
    ASSUME Steady, SafetyInv, SafetyInv', [Next]_vars, UNCHANGED faults,
           NEW j \in Job, j \in accepted, j \notin settled, Somewhere(j),
           accepted' = accepted, settled' = settled \cup {j}, jobs' = [jobs EXCEPT ![j] = None],
           \A w \in Worker : job[w] /= j => /\ pc'[w] \in RunPC <=> pc[w] \in RunPC
                                            /\ pc[w] \in RunPC => job'[w] = job[w],
           \A w \in Worker : pc'[w] \in RunPC => job'[w] = job[w]
    PROVE  Abstract!Settle(j)
<1>1. \A i \in Job : i /= j => (Running(i)' <=> Running(i))
  BY DEF Running, RunPC
<1>2. \A i \in Job : i /= j => StatusOf(i)' = StatusOf(i)
  BY <1>1, StatusSame
<1>3. StatusOf(j) \in {"waiting", "running"}
  BY StatusPlace DEF StatusByPlace
<1>4. StatusOf(j)' = "settled"
  BY DEF StatusOf
<1>5. RetriesOf(j)' = 0 /\ \A i \in Job : i /= j => RetriesOf(i)' = RetriesOf(i)
  BY DEF RetriesOf, SafetyInv, TypeOK, RedisOK
<1> QED
  BY <1>2, <1>3, <1>4, <1>5, AbstractSettle

(* What a task does to the service. *)
LEMMA ImplementsTask ==
    ASSUME Steady, SafetyInv, SafetyInv', [Next]_vars, NEW w \in Worker, Task(w)
    PROVE  [Abstract!Next]_(Abstract!vars)
<1>0. LossInv /\ Apart /\ TypeOK
  BY DEF SafetyInv
<1>1. CASE Kill(w) \/ FinishWithSuccess(w)
  <2>1. pc[w] \in {"loaded", "running"}
    BY <1>1 DEF Kill, FinishWithSuccess
  <2>2. PICK j \in Job : j = job[w] /\ j \in accepted /\ j \notin settled /\ At("processing", Host[w], j)
    BY <1>0, <2>1, HeldAt DEF Holding
  <2>3. /\ UNCHANGED <<accepted, faults>> /\ settled' = settled \cup {j}
        /\ jobs' = [jobs EXCEPT ![j] = None] /\ Free(w)
    BY <1>1, <2>2 DEF Kill, FinishWithSuccess
  <2>4. pc'[w] = "free" /\ \A v \in Worker : v /= w => pc'[v] = pc[v] /\ job'[v] = job[v]
    BY <1>0, <2>3 DEF Free, TypeOK, TasksOK
  <2>5. Abstract!Settle(j)
    BY <2>2, <2>3, <2>4, ImplementsSettle DEF Somewhere, RunPC
  <2> QED
    BY <2>5 DEF Abstract!Next
<1>2. CASE SetStartedAt(w)
  BY <1>2, ImplementsBegin DEF Abstract!Next
<1>3. CASE RetryInWrite(w)
  BY <1>3, ImplementsRetry DEF Abstract!Next
<1>4. CASE Dequeue(w) \/ Load(w)
  <2>1. /\ UNCHANGED <<jobs, accepted, settled, faults>>
        /\ pc[w] \notin RunPC /\ pc'[w] \notin RunPC
        /\ \A v \in Worker : v /= w => pc'[v] = pc[v] /\ job'[v] = job[v]
    BY <1>0, <1>4 DEF Dequeue, Load, redis, history, RunPC, TypeOK, TasksOK
  <2>2. \A v \in Worker : /\ pc'[v] \in RunPC <=> pc[v] \in RunPC
                          /\ pc[v] \in RunPC => job'[v] = job[v]
    BY <2>1
  <2> QED
    BY <2>1, <2>2, ImplementsStutter
<1>5. CASE FinishWithFailure(w) \/ RetryInRead(w)
  <2>1. pc[w] \in RunPC /\ jobs[job[w]] /= None
    BY <1>0, <1>5, NeverMissing DEF FinishWithFailure, RetryInRead, RunPC
  <2>2. /\ UNCHANGED <<jobs, accepted, settled, faults, job>>
        /\ pc'[w] \in RunPC /\ \A v \in Worker : v /= w => pc'[v] = pc[v]
    BY <1>0, <1>5, <2>1, SteadyFaults DEF FinishWithFailure, RetryInRead, redis, history, RunPC,
       TypeOK, TasksOK
  <2>3. \A v \in Worker : /\ pc'[v] \in RunPC <=> pc[v] \in RunPC
                          /\ pc[v] \in RunPC => job'[v] = job[v]
    BY <2>1, <2>2
  <2> QED
    BY <2>2, <2>3, ImplementsStutter
<1>6. ~LoadMissing(w) /\ ~DeleteJob(w)
  BY <1>0, NeverMissing DEF LoadMissing, DeleteJob
<1> QED
  BY <1>1, <1>2, <1>3, <1>4, <1>5, <1>6 DEF Task

LEMMA ImplementsScan ==
    ASSUME Steady, SafetyInv, SafetyInv', [Next]_vars, NEW r \in Proc, Scan(r)
    PROVE  [Abstract!Next]_(Abstract!vars)
<1>0. LossInv /\ Apart /\ TypeOK /\ Heartbeats
  BY DEF SafetyInv
<1>1. UNCHANGED <<pc, job, accepted, faults>>
  <2>1. CASE PopProcessing(r)
    <3>1. phase[target[r]] = "down"
      BY <1>0, <2>1 DEF PopProcessing, Heartbeats, TargetsDown
    <3> QED
      BY <2>1, <3>1 DEF PopProcessing, tasks, history
  <2> QED
    BY <2>1 DEF Scan, InitialPing, ScanProcesses, ScanQueues, Inspect, Resurrect, Unregister,
       tasks, history
<1>2. CASE UNCHANGED <<jobs, settled>>
  BY <1>1, <1>2, ImplementsStutter
<1>3. CASE Resurrect(r) /\ found[r] \notin Resurrectable
  <2>1. PICK j \in Job : j = found[r] /\ At("batch", r, j)
    BY <1>0, <1>3 DEF Resurrect, TypeOK, ResurrectorsOK, Apart, FoundInBatch, At
  <2>2. settled' = settled \cup {j} /\ jobs' = [jobs EXCEPT ![j] = None]
    BY <1>3, <2>1 DEF Resurrect
  <2>3. j \in accepted /\ j \notin settled
    <3>1. j \in accepted
      BY <1>0, <2>1 DEF At, ResurrectorIds
    <3> QED
      BY <1>0, <2>1, <3>1 DEF Apart, SettledGone
  <2>4. Somewhere(j)
    BY <2>1 DEF Somewhere
  <2>5. Abstract!Settle(j)
    BY <1>1, <2>2, <2>3, <2>4, ImplementsSettle
  <2> QED
    BY <2>5 DEF Abstract!Next
<1>4. Resurrect(r) /\ found[r] \in Resurrectable => UNCHANGED <<jobs, settled>>
  BY DEF Resurrect
<1>5. ~Resurrect(r) => UNCHANGED <<jobs, settled>>
  BY DEF Scan, InitialPing, ScanProcesses, ScanQueues, PopProcessing, Inspect, Unregister,
     redis, history
<1> QED
  BY <1>2, <1>3, <1>4, <1>5

(* A crash interrupts the jobs that run on the process, and loses those it *)
(* carries; the ids in its processing list still wait.                     *)
LEMMA ImplementsCrash ==
    ASSUME Steady, SafetyInv, SafetyInv', [Next]_vars, NEW p \in Proc, Crash(p)
    PROVE  [Abstract!Next]_(Abstract!vars)
<1>1. UNCHANGED <<jobs, accepted, settled>>
  BY DEF Crash, redis, history
<1>2. \A i \in Job : Running(i)' => Running(i)
  BY DEF Crash, DropTasks, Running
<1>3. StatusByPlace /\ StatusByPlace'
  BY StatusPlace, StatusPlaceNext
<1>4. \A i \in accepted : Somewhere(i)' => Somewhere(i)
  BY SomewhereStep
<1>5. ASSUME NEW i \in Job
      PROVE  \/ StatusOf(i)' = StatusOf(i)
             \/ StatusOf(i) = "running" /\ StatusOf(i)' = "waiting"
             \/ StatusOf(i) \in {"waiting", "running"} /\ StatusOf(i)' = "lost"
  BY <1>1, <1>2, <1>3, <1>4 DEF StatusByPlace
<1>6. \A i \in Job : RetriesOf(i)' = RetriesOf(i)
  BY <1>1 DEF RetriesOf
<1> QED
  BY <1>5, <1>6, AbstractInterrupt DEF Abstract!Next

LEMMA ImplementsProcess ==
    ASSUME Steady, SafetyInv, SafetyInv', [Next]_vars, NEW p \in Proc, Process(p)
    PROVE  [Abstract!Next]_(Abstract!vars)
<1>0. TypeOK
  BY DEF SafetyInv
<1>1. CASE Crash(p)
  BY <1>1, ImplementsCrash
<1>2. CASE Exit(p)
  <2>1. UNCHANGED <<jobs, accepted, settled, faults>>
    BY <1>2 DEF Exit, history
  <2>2. \A v \in Worker : /\ pc'[v] \in RunPC <=> pc[v] \in RunPC
                          /\ pc[v] \in RunPC => job'[v] = job[v]
    BY <1>2 DEF Exit, DropTasks, RunPC
  <2> QED
    BY <2>1, <2>2, ImplementsStutter
<1>3. CASE LeaveLoop(p) \/ Ping(p) \/ HeartbeatExpires(p)
  <2>1. UNCHANGED <<jobs, accepted, settled, faults, pc, job>>
    BY <1>3, SteadyFaults DEF LeaveLoop, Ping, HeartbeatExpires, redis, tasks, history
  <2> QED
    BY <2>1, ImplementsStutter
<1>4. CASE Cancel(p)
  <2>1. UNCHANGED <<jobs, queue, processing, zset, pc, job, mpc, mids, batch, accepted, settled>>
    BY <1>4 DEF Cancel, redis, tasks, movers, resurrectors, history
  <2>2. \A i \in Job : StatusOf(i)' = StatusOf(i) /\ RetriesOf(i)' = RetriesOf(i)
    BY <2>1 DEF StatusOf, Safe, Durable, Carries, Running, RetriesOf
  <2> QED
    BY <2>2, AbstractStutter
<1>5. ~Start(p)
  BY SteadyFaults DEF Start
<1> QED
  BY <1>1, <1>2, <1>3, <1>4, <1>5 DEF Process

LEMMA ImplementsStep ==
    ASSUME Steady
    PROVE  SafetyInv /\ SafetyInv' /\ [Next]_vars => [Abstract!Next]_(Abstract!vars)
<1> SUFFICES ASSUME SafetyInv, SafetyInv', [Next]_vars PROVE [Abstract!Next]_(Abstract!vars)
  OBVIOUS
<1>1. CASE Client
  <2>1. PICK j \in Job : Enqueue(j) \/ EnqueueAt(j)
    BY <1>1 DEF Client
  <2>2. Abstract!Accept(j)
    BY <2>1, ImplementsAccept
  <2> QED
    BY <2>2 DEF Abstract!Next
<1>2. ASSUME NEW w \in Worker, Task(w) PROVE [Abstract!Next]_(Abstract!vars)
  BY <1>2, ImplementsTask
<1>3. \A w \in Worker : ~TaskFails(w)
  BY SteadyFaults DEF TaskFails, LoadFails, SetStartedAtFails, FinishFails, RetryInFails
<1>4. ASSUME NEW m \in Mover, Move(m) PROVE [Abstract!Next]_(Abstract!vars)
  <2>1. UNCHANGED <<jobs, accepted, settled, faults, pc, job>>
    BY <1>4 DEF Move, ListDue, Claim, GetMany, EnqueueClaimed, redis, tasks, history
  <2> QED
    BY <2>1, ImplementsStutter
<1>5. (\A m \in Mover : ~MoverFails(m)) /\ \A p \in Proc : ~ResurrectFails(p)
  BY SteadyFaults DEF MoverFails, ResurrectFails
<1>6. ASSUME NEW p \in Proc, Scan(p) \/ Process(p) PROVE [Abstract!Next]_(Abstract!vars)
  BY <1>6, ImplementsScan, ImplementsProcess
<1>7. CASE UNCHANGED vars
  <2>1. UNCHANGED <<jobs, accepted, settled, faults, pc, job>>
    BY <1>7 DEF vars, redis, tasks, history
  <2> QED
    BY <2>1, ImplementsStutter
<1> QED
  BY <1>1, <1>2, <1>3, <1>4, <1>5, <1>6, <1>7 DEF Next

(* ImplementsService: every behaviour of the lists, sets, loops and        *)
(* heartbeats of any number of processes, crashes and shutdowns included,  *)
(* is a behaviour of the service a client expects.                         *)
THEOREM Implementation == ASSUME Steady PROVE Spec => ImplementsService
<1>1. Init => Abstract!Init
  BY ImplementsInit
<1>2. SafetyInv /\ SafetyInv' /\ [Next]_vars => [Abstract!Next]_(Abstract!vars)
  BY ImplementsStep
<1>3. Spec => []SafetyInv
  BY SafetyInvariant
<1> QED
  BY <1>1, <1>2, <1>3, PTL DEF Spec, ImplementsService, Abstract!Spec

============================================================================
