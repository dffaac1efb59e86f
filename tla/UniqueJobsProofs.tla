-------------------------- MODULE UniqueJobsProofs --------------------------
(***************************************************************************)
(* Proofs about UniqueJobs, for any number of clients, tasks, queues,      *)
(* envelopes, list lengths, chunk sizes, retries and items.                *)
(***************************************************************************)
EXTENDS UniqueJobs, TLAPS

(* Types: no read of a variable finds it unset. *)
LEMMA TypeInit == Init => TypeOK
  BY NumbersAssumption, StrategyAssumption, NoneAssumption
  DEF Init, TypeOK, RedisOK, ClientOK, TaskOK, MoverOK, HistoryOK, ZSet, InHand, Gen

(* The state of a client after a decision on an envelope *)
LEMMA AdvanceType ==
    ASSUME ClientOK, NEW c \in Client, cpc[c] /= "idle",
           NEW p \in Command \cup {None}, Advance(c, p),
           staged' \in [Client -> Queue \cup {None}]
    PROVE  ClientOK'
<1>1. call[c] \in Call /\ cur[c] \in call[c].first..call[c].last
  BY DEF ClientOK
<1>2. /\ call[c].first \in Nat /\ call[c].last \in Nat /\ cur[c] \in Nat
      /\ cur[c] /= call[c].last => cur[c] + 1 \in call[c].first..call[c].last
  BY <1>1, NumbersAssumption DEF Call, Gen
<1>3. CASE cpc' = [cpc EXCEPT ![c] = "sending"] /\ UNCHANGED <<cur, call>> /\ p /= None
  BY <1>3 DEF Advance, ClientOK
<1>4. CASE Proceed(c)
  BY <1>1, <1>2, <1>4 DEF Advance, Proceed, ClientOK
<1> QED BY <1>3, <1>4 DEF Advance

LEMMA SkipType ==
    ASSUME ClientOK, NEW c \in Client, cpc[c] /= "idle", Skip(c)
    PROVE  ClientOK'
<1>1. pipe[c] \in Command \cup {None} /\ staged' \in [Client -> Queue \cup {None}]
  BY DEF ClientOK, Skip
<1> QED BY <1>1, AdvanceType DEF Skip

LEMMA WriteType ==
    ASSUME ClientOK, NEW c \in Client, cpc[c] /= "idle", NEW old \in SUBSET Queue, Write(c, old)
    PROVE  ClientOK'
<1> DEFINE before == IF pipe[c] = None THEN [gens |-> {}, wipe |-> {}] ELSE pipe[c]
           p == [gens |-> before.gens \cup {cur[c]},
                 last |-> cur[c],
                 wipe |-> before.wipe \cup (IF old = {} THEN {} ELSE old \cup {call[c].queue})]
<1>1. cur[c] \in Gen /\ call[c].queue \in Queue
  BY NumbersAssumption DEF ClientOK, Call, Gen
<1>2. before.gens \in SUBSET Gen /\ before.wipe \in SUBSET Queue
  BY DEF ClientOK, Command
<1>3. p \in Command
  BY <1>1, <1>2 DEF Command
<1>4. Advance(c, p) /\ staged' \in [Client -> Queue \cup {None}]
  BY <1>1 DEF Write, ClientOK
<1> QED BY <1>3, <1>4, AdvanceType

(* Types are preserved by every step. *)
LEMMA TypeStep ==
    ASSUME TypeOK, [Next]_vars
    PROVE  TypeOK'
<1>1. CASE UNCHANGED vars
  BY <1>1, NumbersAssumption, StrategyAssumption, NoneAssumption
  DEF TypeOK, RedisOK, ClientOK, TaskOK, MoverOK, HistoryOK, vars, redis, clients, tasks,
      movers, history
<1>2. ASSUME NEW c \in Client, ClientStep(c)
      PROVE  TypeOK'
  <2>1. CASE \E q \in Queue, s \in Strategy, to \in {"queue", "schedule"}, n \in 1..MaxList :
               Begin(c, q, s, to, n)
    <3>1. ClientOK'
      BY <2>1, NumbersAssumption, StrategyAssumption, NoneAssumption
      DEF Begin, Call, ClientOK, RedisOK, HistoryOK, Command, Gen, TypeOK, redis, tasks, movers,
          history
    <3>2. HistoryOK'
      BY <2>1, NumbersAssumption, StrategyAssumption, NoneAssumption
      DEF Begin, Call, HistoryOK, ClientOK, TaskOK, Gen, Envelope, Command, InHand, TypeOK,
          redis, tasks, movers, history
    <3>3. RedisOK' /\ TaskOK' /\ MoverOK'
      BY <2>1 DEF TypeOK, Begin, RedisOK, TaskOK, MoverOK, redis, tasks, movers, history
    <3> QED BY <3>1, <3>2, <3>3 DEF TypeOK
  <2>2. CASE ActStaged(c)
    <3>1. ClientOK'
      <4>1. cpc[c] /= "idle" /\ staged[c] \in Queue
        BY <2>2 DEF ActStaged, TypeOK, ClientOK
      <4> QED BY <2>2, <4>1, SkipType, WriteType DEF ActStaged, TypeOK
    <3>2. RedisOK' /\ TaskOK' /\ MoverOK' /\ HistoryOK'
      BY <2>2
      DEF TypeOK, ActStaged, Proceed, Advance, RedisOK, TaskOK, MoverOK, HistoryOK, redis,
          tasks, movers, history
    <3> QED BY <3>1, <3>2 DEF TypeOK
  <2>3. CASE Act(c)
    <3>1. ClientOK'
      <4>1. cpc[c] = "asking"
        BY <2>3 DEF Act
      <4>2. CASE jobs = None /\ Write(c, {})
        BY <4>1, <4>2, WriteType DEF TypeOK
      <4>3. CASE Skip(c)
        BY <4>1, <4>3, SkipType DEF TypeOK
      <4>4. CASE cpc' = [cpc EXCEPT ![c] = "found"] /\ UNCHANGED <<call, cur, staged, pipe>>
        BY <4>1, <4>4 DEF TypeOK, ClientOK
      <4> QED BY <2>3, <4>2, <4>3, <4>4 DEF Act
    <3>2. RedisOK' /\ TaskOK' /\ MoverOK' /\ HistoryOK'
      BY <2>3
      DEF TypeOK, Act, Proceed, Advance, RedisOK, TaskOK, MoverOK, HistoryOK, redis, tasks,
          movers, history
    <3> QED BY <3>1, <3>2 DEF TypeOK
  <2>4. CASE ActFound(c)
    <3>1. ClientOK'
      <4>1. (IF jobs = None THEN {} ELSE {jobs.queue}) \in SUBSET Queue
        BY DEF TypeOK, RedisOK, Envelope
      <4>2. cpc[c] /= "idle"
        BY <2>4 DEF ActFound
      <4> QED BY <2>4, <4>1, <4>2, WriteType DEF ActFound, TypeOK
    <3>2. RedisOK' /\ TaskOK' /\ MoverOK' /\ HistoryOK'
      BY <2>4
      DEF TypeOK, ActFound, Proceed, Advance, RedisOK, TaskOK, MoverOK, HistoryOK, redis, tasks,
          movers, history
    <3> QED BY <3>1, <3>2 DEF TypeOK
  <2>5. CASE Send(c)
    <3>1. RedisOK'
      BY <2>5, NumbersAssumption, StrategyAssumption, NoneAssumption
      DEF Send, Proceed, PushTo, Fresh, Overtaken, Held, Call, Command, RedisOK, ClientOK,
          TaskOK, MoverOK, Envelope, ZSet, TypeOK, tasks, movers
    <3>2. ClientOK'
      BY <2>5, NumbersAssumption, StrategyAssumption, NoneAssumption
      DEF Send, Proceed, PushTo, Fresh, Overtaken, Held, Call, Command, ClientOK, RedisOK,
          HistoryOK, Gen, TypeOK, tasks, movers
    <3>3. HistoryOK'
      BY <2>5, NumbersAssumption, StrategyAssumption, NoneAssumption
      DEF Send, Proceed, PushTo, Fresh, Overtaken, Held, Call, Command, HistoryOK, ClientOK,
          TaskOK, Gen, Envelope, InHand, TypeOK, tasks, movers
    <3>4. TaskOK' /\ MoverOK'
      BY <2>5 DEF TypeOK, Send, Proceed, TaskOK, MoverOK, tasks, movers
    <3> QED BY <3>1, <3>2, <3>3, <3>4 DEF TypeOK
  <2> QED BY <1>2, <2>1, <2>2, <2>3, <2>4, <2>5 DEF ClientStep
<1>3. ASSUME NEW t \in Task, TaskStep(t)
      PROVE  TypeOK'
  <2>1. CASE \E q \in Queue : Dequeue(t, q)
    <3>1. RedisOK'
      BY <2>1, NumbersAssumption, StrategyAssumption, NoneAssumption
      DEF Dequeue, To, RedisOK, ClientOK, TaskOK, MoverOK, Envelope, ZSet, TypeOK, clients,
          movers, history
    <3>2. TaskOK'
      BY <2>1, NumbersAssumption, StrategyAssumption, NoneAssumption
      DEF Dequeue, To, TaskOK, RedisOK, Envelope, InHand, TypeOK, clients, movers, history
    <3>3. ClientOK' /\ MoverOK' /\ HistoryOK'
      BY <2>1 DEF TypeOK, Dequeue, To, ClientOK, MoverOK, HistoryOK, clients, movers, history
    <3> QED BY <3>1, <3>2, <3>3 DEF TypeOK
  <2>2. CASE Load(t)
    <3>1. TaskOK'
      BY <2>2, NumbersAssumption, StrategyAssumption, NoneAssumption
      DEF Load, To, TaskOK, RedisOK, Envelope, InHand, TypeOK, redis, clients, movers, history
    <3>2. RedisOK' /\ ClientOK' /\ MoverOK' /\ HistoryOK'
      BY <2>2
      DEF TypeOK, Load, To, RedisOK, ClientOK, MoverOK, HistoryOK, redis, clients, movers,
          history
    <3> QED BY <3>1, <3>2 DEF TypeOK
  <2>3. CASE DeleteMissing(t)
    <3>1. RedisOK'
      BY <2>3, NumbersAssumption, StrategyAssumption, NoneAssumption
      DEF DeleteMissing, End, To, LRemOne, RedisOK, ClientOK, TaskOK, MoverOK, Envelope, ZSet,
          TypeOK, clients, movers, history
    <3>2. TaskOK'
      BY <2>3, NumbersAssumption, StrategyAssumption, NoneAssumption
      DEF DeleteMissing, End, To, LRemOne, TaskOK, RedisOK, Envelope, InHand, TypeOK, clients,
          movers, history
    <3>3. ClientOK' /\ MoverOK' /\ HistoryOK'
      BY <2>3
      DEF TypeOK, DeleteMissing, To, End, ClientOK, MoverOK, HistoryOK, clients, movers, history
    <3> QED BY <3>1, <3>2, <3>3 DEF TypeOK
  <2>4. CASE Start(t)
    <3>1. RedisOK'
      BY <2>4, NumbersAssumption, StrategyAssumption, NoneAssumption
      DEF Start, To, RedisOK, ClientOK, TaskOK, MoverOK, Envelope, ZSet, TypeOK, clients,
          movers, history
    <3>2. TaskOK'
      BY <2>4, NumbersAssumption, StrategyAssumption, NoneAssumption
      DEF Start, To, TaskOK, RedisOK, Envelope, InHand, TypeOK, clients, movers, history
    <3>3. ClientOK' /\ MoverOK' /\ HistoryOK'
      BY <2>4 DEF TypeOK, Start, To, ClientOK, MoverOK, HistoryOK, clients, movers, history
    <3> QED BY <3>1, <3>2, <3>3 DEF TypeOK
  <2>5. CASE Iterate(t)
    <3>1. TaskOK'
      BY <2>5, NumbersAssumption, StrategyAssumption, NoneAssumption
      DEF Iterate, To, TaskOK, RedisOK, Envelope, InHand, TypeOK, redis, clients, movers,
          history
    <3>2. RedisOK' /\ ClientOK' /\ MoverOK' /\ HistoryOK'
      BY <2>5
      DEF TypeOK, Iterate, To, RedisOK, ClientOK, MoverOK, HistoryOK, redis, clients, movers,
          history
    <3> QED BY <3>1, <3>2 DEF TypeOK
  <2>6. CASE Process(t)
    <3>1. TaskOK'
      BY <2>6, NumbersAssumption, StrategyAssumption, NoneAssumption
      DEF Process, To, TaskOK, RedisOK, Envelope, InHand, TypeOK, redis, clients, movers
    <3>2. HistoryOK'
      <4>1. tenv[t].gen \in Gen /\ at[t] + 1 \in 1..Items
        BY <2>6, NumbersAssumption DEF Process, TypeOK, TaskOK, InHand, Envelope
      <4> QED BY <2>6, <4>1 DEF Process, TypeOK, HistoryOK
    <3>3. RedisOK' /\ ClientOK' /\ MoverOK'
      BY <2>6 DEF TypeOK, Process, To, RedisOK, ClientOK, MoverOK, redis, clients, movers
    <3> QED BY <3>1, <3>2, <3>3 DEF TypeOK
  <2>7. CASE ReadState(t)
    <3>1. TaskOK'
      BY <2>7, NumbersAssumption, StrategyAssumption, NoneAssumption
      DEF ReadState, To, TaskOK, RedisOK, Envelope, InHand, TypeOK, redis, clients, movers,
          history
    <3>2. RedisOK' /\ ClientOK' /\ MoverOK' /\ HistoryOK'
      BY <2>7
      DEF TypeOK, ReadState, To, RedisOK, ClientOK, MoverOK, HistoryOK, redis, clients, movers,
          history
    <3> QED BY <3>1, <3>2 DEF TypeOK
  <2>8. CASE WriteState(t)
    <3>1. RedisOK'
      BY <2>8, NumbersAssumption, StrategyAssumption, NoneAssumption
      DEF WriteState, To, RedisOK, ClientOK, TaskOK, MoverOK, Envelope, ZSet, TypeOK, clients,
          movers, history
    <3>2. TaskOK'
      BY <2>8, NumbersAssumption, StrategyAssumption, NoneAssumption
      DEF WriteState, To, TaskOK, RedisOK, Envelope, InHand, TypeOK, clients, movers, history
    <3>3. ClientOK' /\ MoverOK' /\ HistoryOK'
      BY <2>8 DEF TypeOK, WriteState, To, ClientOK, MoverOK, HistoryOK, clients, movers, history
    <3> QED BY <3>1, <3>2, <3>3 DEF TypeOK
  <2>9. CASE Succeed(t)
    <3>1. RedisOK'
      BY <2>9, NumbersAssumption, StrategyAssumption, NoneAssumption
      DEF Succeed, End, To, LRemOne, RedisOK, ClientOK, TaskOK, MoverOK, Envelope, ZSet, TypeOK,
          clients, movers
    <3>2. TaskOK'
      BY <2>9, NumbersAssumption, StrategyAssumption, NoneAssumption
      DEF Succeed, End, To, LRemOne, TaskOK, RedisOK, Envelope, InHand, TypeOK, clients, movers
    <3>3. HistoryOK'
      <4>1. tenv[t].gen \in Gen
        BY <2>9 DEF Succeed, TypeOK, TaskOK, InHand, Envelope
      <4> QED BY <2>9, <4>1 DEF Succeed, TypeOK, HistoryOK
    <3>4. ClientOK' /\ MoverOK'
      BY <2>9 DEF TypeOK, Succeed, To, End, ClientOK, MoverOK, clients, movers
    <3> QED BY <3>1, <3>2, <3>3, <3>4 DEF TypeOK
  <2>10. CASE Release(t)
    <3>1. RedisOK'
      BY <2>10, NumbersAssumption, StrategyAssumption, NoneAssumption
      DEF Release, Failing, To, LRemOne, RedisOK, ClientOK, TaskOK, MoverOK, Envelope, ZSet,
          TypeOK, clients, movers, history
    <3>2. TaskOK'
      BY <2>10, NumbersAssumption, StrategyAssumption, NoneAssumption
      DEF Release, Failing, To, LRemOne, TaskOK, RedisOK, Envelope, InHand, TypeOK, clients,
          movers, history
    <3>3. ClientOK' /\ MoverOK' /\ HistoryOK'
      BY <2>10 DEF TypeOK, Release, To, ClientOK, MoverOK, HistoryOK, clients, movers, history
    <3> QED BY <3>1, <3>2, <3>3 DEF TypeOK
  <2>11. CASE RetryRead(t)
    <3>1. TaskOK'
      BY <2>11, NumbersAssumption, StrategyAssumption, NoneAssumption
      DEF RetryRead, End, To, TaskOK, RedisOK, Envelope, InHand, TypeOK, redis, clients, movers,
          history
    <3>2. RedisOK' /\ ClientOK' /\ MoverOK' /\ HistoryOK'
      BY <2>11
      DEF TypeOK, RetryRead, To, End, RedisOK, ClientOK, MoverOK, HistoryOK, redis, clients,
          movers, history
    <3> QED BY <3>1, <3>2 DEF TypeOK
  <2>12. CASE RetryWrite(t)
    <3>1. RedisOK'
      BY <2>12, NumbersAssumption, StrategyAssumption, NoneAssumption
      DEF RetryWrite, End, To, RedisOK, ClientOK, TaskOK, MoverOK, Envelope, ZSet, TypeOK,
          clients, movers, history
    <3>2. TaskOK'
      BY <2>12, NumbersAssumption, StrategyAssumption, NoneAssumption
      DEF RetryWrite, End, To, TaskOK, RedisOK, Envelope, InHand, TypeOK, clients, movers,
          history
    <3>3. ClientOK' /\ MoverOK' /\ HistoryOK'
      BY <2>12
      DEF TypeOK, RetryWrite, To, End, ClientOK, MoverOK, HistoryOK, clients, movers, history
    <3> QED BY <3>1, <3>2, <3>3 DEF TypeOK
  <2>13. CASE Kill(t)
    <3>1. RedisOK'
      BY <2>13, NumbersAssumption, StrategyAssumption, NoneAssumption
      DEF Kill, Failing, End, To, LRemOne, RedisOK, ClientOK, TaskOK, MoverOK, Envelope, ZSet,
          TypeOK, clients, movers
    <3>2. TaskOK'
      BY <2>13, NumbersAssumption, StrategyAssumption, NoneAssumption
      DEF Kill, Failing, End, To, LRemOne, TaskOK, RedisOK, Envelope, InHand, TypeOK, clients,
          movers
    <3>3. HistoryOK'
      <4>1. tenv[t].gen \in Gen
        BY <2>13 DEF Kill, Failing, TypeOK, TaskOK, InHand, Envelope
      <4> QED BY <2>13, <4>1 DEF Kill, TypeOK, HistoryOK
    <3>4. ClientOK' /\ MoverOK'
      BY <2>13 DEF TypeOK, Kill, To, End, ClientOK, MoverOK, clients, movers
    <3> QED BY <3>1, <3>2, <3>3, <3>4 DEF TypeOK
  <2> QED
    BY <1>3, <2>1, <2>2, <2>3, <2>4, <2>5, <2>6, <2>7, <2>8, <2>9, <2>10, <2>11, <2>12, <2>13
    DEF TaskStep
<1>4. ASSUME NEW z \in ZSet, MoverStep(z)
      PROVE  TypeOK'
  <2>1. CASE Claim(z)
    <3>1. RedisOK'
      BY <2>1, NumbersAssumption, StrategyAssumption, NoneAssumption
      DEF Claim, RedisOK, ClientOK, TaskOK, MoverOK, Envelope, ZSet, TypeOK, clients, tasks,
          history
    <3>2. MoverOK'
      BY <2>1, NumbersAssumption, StrategyAssumption, NoneAssumption
      DEF Claim, MoverOK, RedisOK, ZSet, Envelope, TypeOK, clients, tasks, history
    <3>3. ClientOK' /\ TaskOK' /\ HistoryOK'
      BY <2>1 DEF TypeOK, Claim, ClientOK, TaskOK, HistoryOK, clients, tasks, history
    <3> QED BY <3>1, <3>2, <3>3 DEF TypeOK
  <2>2. CASE Fetch(z)
    <3>1. MoverOK'
      BY <2>2, NumbersAssumption, StrategyAssumption, NoneAssumption
      DEF Fetch, MoverOK, RedisOK, ZSet, Envelope, TypeOK, redis, clients, tasks, history
    <3>2. RedisOK' /\ ClientOK' /\ TaskOK' /\ HistoryOK'
      BY <2>2
      DEF TypeOK, Fetch, RedisOK, ClientOK, TaskOK, HistoryOK, redis, clients, tasks, history
    <3> QED BY <3>1, <3>2 DEF TypeOK
  <2>3. CASE Push(z)
    <3>1. RedisOK'
      BY <2>3, NumbersAssumption, StrategyAssumption, NoneAssumption
      DEF Push, RedisOK, ClientOK, TaskOK, MoverOK, Envelope, ZSet, TypeOK, clients, tasks,
          history
    <3>2. MoverOK'
      BY <2>3, NumbersAssumption, StrategyAssumption, NoneAssumption
      DEF Push, MoverOK, RedisOK, ZSet, Envelope, TypeOK, clients, tasks, history
    <3>3. ClientOK' /\ TaskOK' /\ HistoryOK'
      BY <2>3 DEF TypeOK, Push, ClientOK, TaskOK, HistoryOK, clients, tasks, history
    <3> QED BY <3>1, <3>2, <3>3 DEF TypeOK
  <2> QED BY <1>4, <2>1, <2>2, <2>3 DEF MoverStep
<1> QED BY <1>1, <1>2, <1>3, <1>4 DEF Next

(* Every variable has its type in every reachable state, and is set where  *)
(* an action reads it.                                                     *)
THEOREM Typing == Spec => []TypeOK
  BY TypeInit, TypeStep, PTL DEF Spec

(* The id of an envelope is only let go together with the envelope, or for  *)
(* another place.                                                          *)
LEMMA StrandedStep ==
    ASSUME TypeOK, NeverStranded, [Next]_vars
    PROVE  NeverStranded'
<1>1. CASE UNCHANGED vars
  BY <1>1, NumbersAssumption, StrategyAssumption, NoneAssumption
  DEF NeverStranded, Held, vars, redis, clients, tasks, movers, history
<1>2. ASSUME NEW c \in Client, ClientStep(c)
      PROVE  NeverStranded'
  <2>1. CASE \E q \in Queue, s \in Strategy, to \in {"queue", "schedule"}, n \in 1..MaxList :
               Begin(c, q, s, to, n)
    BY <2>1
    DEF Begin, NeverStranded, Held, redis, tasks, movers, history
  <2>2. CASE ActStaged(c)
    BY <2>2
    DEF ActStaged, NeverStranded, Held, redis, tasks, movers, history
  <2>3. CASE Act(c)
    BY <2>3
    DEF Act, NeverStranded, Held, redis, tasks, movers, history
  <2>4. CASE ActFound(c)
    BY <2>4
    DEF ActFound, NeverStranded, Held, redis, tasks, movers, history
  <2>5. CASE Send(c)
    <3>1. call[c] \in Call
      BY <2>5 DEF Send, TypeOK, ClientOK
    <3>2. CASE call[c].to = "queue"
      <4>1. queue'[call[c].queue] > 0
        BY <2>5, <3>1, <3>2 DEF Send, PushTo, Call, TypeOK, RedisOK
      <4> QED BY <3>1, <4>1 DEF NeverStranded, Call
    <3>3. CASE call[c].to /= "queue"
      BY <2>5, <3>3 DEF Send, PushTo, NeverStranded
    <3> QED BY <3>2, <3>3
  <2> QED BY <1>2, <2>1, <2>2, <2>3, <2>4, <2>5 DEF ClientStep
<1>3. ASSUME NEW t \in Task, TaskStep(t)
      PROVE  NeverStranded'
  <2>1. CASE \E q \in Queue : Dequeue(t, q)
    BY <2>1, NoneAssumption
    DEF Dequeue, To, NeverStranded, Held, TypeOK, RedisOK, TaskOK, Envelope, InHand, clients,
        movers, history
  <2>2. CASE Load(t)
    BY <2>2, NoneAssumption
    DEF Load, To, NeverStranded, Held, TypeOK, RedisOK, TaskOK, Envelope, InHand, redis,
        clients, movers, history
  <2>3. CASE DeleteMissing(t)
    BY <2>3, NoneAssumption
    DEF DeleteMissing, End, To, LRemOne, NeverStranded, Held, TypeOK, RedisOK, TaskOK, Envelope,
        InHand, clients, movers, history
  <2>4. CASE Start(t)
    BY <2>4, NumbersAssumption, NoneAssumption
    DEF Start, To, NeverStranded, Held, TypeOK, RedisOK, TaskOK, Envelope, InHand, clients,
        movers, history
  <2>5. CASE Iterate(t)
    BY <2>5, NoneAssumption
    DEF Iterate, To, NeverStranded, Held, TypeOK, RedisOK, TaskOK, Envelope, InHand, redis,
        clients, movers, history
  <2>6. CASE Process(t)
    BY <2>6, NoneAssumption
    DEF Process, To, NeverStranded, Held, TypeOK, RedisOK, TaskOK, Envelope, InHand, redis,
        clients, movers
  <2>7. CASE ReadState(t)
    BY <2>7, NoneAssumption
    DEF ReadState, To, NeverStranded, Held, TypeOK, RedisOK, TaskOK, Envelope, InHand, redis,
        clients, movers, history
  <2>8. CASE WriteState(t)
    BY <2>8, NumbersAssumption, NoneAssumption
    DEF WriteState, To, NeverStranded, Held, TypeOK, RedisOK, TaskOK, Envelope, InHand, clients,
        movers, history
  <2>9. CASE Succeed(t)
    BY <2>9, NoneAssumption
    DEF Succeed, End, To, LRemOne, NeverStranded, Held, TypeOK, RedisOK, TaskOK, Envelope,
        InHand, clients, movers
  <2>10. CASE Release(t)
    BY <2>10, NoneAssumption
    DEF Release, Failing, To, LRemOne, NeverStranded, Held, TypeOK, RedisOK, TaskOK, Envelope,
        InHand, clients, movers, history
  <2>11. CASE RetryRead(t)
    BY <2>11, NoneAssumption
    DEF RetryRead, End, To, NeverStranded, Held, TypeOK, RedisOK, TaskOK, Envelope, InHand,
        redis, clients, movers, history
  <2>12. CASE RetryWrite(t)
    BY <2>12, NoneAssumption
    DEF RetryWrite, End, To, NeverStranded, Held, TypeOK, RedisOK, TaskOK, Envelope, InHand,
        clients, movers, history
  <2>13. CASE Kill(t)
    BY <2>13, NoneAssumption
    DEF Kill, Failing, End, To, LRemOne, NeverStranded, Held, TypeOK, RedisOK, TaskOK, Envelope,
        InHand, clients, movers
  <2> QED
    BY <1>3, <2>1, <2>2, <2>3, <2>4, <2>5, <2>6, <2>7, <2>8, <2>9, <2>10, <2>11, <2>12, <2>13
    DEF TaskStep
<1>4. ASSUME NEW z \in ZSet, MoverStep(z)
      PROVE  NeverStranded'
  <2>1. CASE Claim(z)
    BY <2>1, NoneAssumption
    DEF Claim, NeverStranded, Held, TypeOK, RedisOK, MoverOK, Envelope, InHand, ZSet, clients,
        tasks, history
  <2>2. CASE Fetch(z)
    BY <2>2, NoneAssumption
    DEF Fetch, NeverStranded, Held, TypeOK, RedisOK, MoverOK, Envelope, InHand, ZSet, redis,
        clients, tasks, history
  <2>3. CASE Push(z)
    BY <2>3, NoneAssumption
    DEF Push, NeverStranded, Held, TypeOK, RedisOK, MoverOK, Envelope, InHand, ZSet, clients,
        tasks, history
  <2> QED BY <1>4, <2>1, <2>2, <2>3 DEF MoverStep
<1> QED BY <1>1, <1>2, <1>3, <1>4 DEF Next

(* In every order of enqueues, skips, replacements, runs, failures and     *)
(* retries, an envelope in the jobs hash has an id that somebody will come *)
(* to: Skip never refuses a job because of one that is gone.               *)
THEOREM NobodyStranded == Spec => []NeverStranded
<1>1. Init => NeverStranded
  BY DEF Init, NeverStranded
<1>2. TypeOK /\ NeverStranded /\ [Next]_vars => NeverStranded'
  BY StrandedStep
<1> QED BY <1>1, <1>2, Typing, PTL DEF Spec

(***************************************************************************)
(* Uniqueness.  Lone says of each kind of place what UniqueUnlessOvertaken *)
(* says of Places.  It is inductive together with SameQueue: whoever holds *)
(* the id knows the queue that its envelope names, so that a replacement,  *)
(* which clears the queue of the envelope, finds the id there.             *)
(***************************************************************************)
Queued == \E q \in Queue : queue[q] > 0
Moving == \E z \in ZSet : mpc[z] /= "idle"
Tasked == \E t \in Task : tpc[t] \in InHand

Lone ==
    /\ \A q \in Queue : queue[q] <= 1
    /\ \A p, q \in Queue : queue[p] > 0 /\ queue[q] > 0 => p = q
    /\ \A y, z \in ZSet : (y \in zset /\ z \in zset) \/ (mpc[y] /= "idle" /\ mpc[z] /= "idle") => y = z
    /\ \A t, u \in Task : tpc[t] \in InHand /\ tpc[u] \in InHand => t = u
    /\ Queued => zset = {} /\ ~Moving /\ ~Tasked
    /\ zset /= {} => ~Moving /\ ~Tasked
    /\ Moving => ~Tasked
    /\ jobs = None <=> ~Queued /\ zset = {} /\ ~Moving /\ ~Tasked

SameQueue ==
    /\ \A q \in Queue : queue[q] > 0 => jobs.queue = q
    /\ \A z \in ZSet : mpc[z] = "fetched" => mqueue[z] = jobs.queue
    /\ \A t \in Task : tpc[t] \in InHand \ {"popped", "missing"} => tenv[t].queue = jobs.queue
    /\ \A t \in Task : tpc[t] = "saving" => saved[t].queue = jobs.queue

LoneInv == clean => Lone /\ SameQueue

(* A step that is not overtaken keeps the id alone. *)
LEMMA LoneStep ==
    ASSUME TypeOK, LoneInv, [Next]_vars
    PROVE  LoneInv'
<1>1. CASE UNCHANGED vars
  BY <1>1, NumbersAssumption, StrategyAssumption, NoneAssumption
  DEF LoneInv, Lone, SameQueue, Queued, Moving, Tasked, vars, redis, clients, tasks, movers,
      history
<1>2. ASSUME NEW c \in Client, ClientStep(c)
      PROVE  LoneInv'
  <2>1. CASE \E q \in Queue, s \in Strategy, to \in {"queue", "schedule"}, n \in 1..MaxList :
               Begin(c, q, s, to, n)
    BY <2>1
    DEF Begin, LoneInv, Lone, SameQueue, Queued, Moving, Tasked, redis, tasks, movers, history
  <2>2. CASE ActStaged(c)
    BY <2>2
    DEF ActStaged, LoneInv, Lone, SameQueue, Queued, Moving, Tasked, redis, tasks, movers,
        history
  <2>3. CASE Act(c)
    BY <2>3
    DEF Act, LoneInv, Lone, SameQueue, Queued, Moving, Tasked, redis, tasks, movers, history
  <2>4. CASE ActFound(c)
    BY <2>4
    DEF ActFound, LoneInv, Lone, SameQueue, Queued, Moving, Tasked, redis, tasks, movers,
        history
  <2>5. CASE Send(c)
    <3> SUFFICES ASSUME clean'
                 PROVE  Lone' /\ SameQueue'
      BY DEF LoneInv
    <3> DEFINE lists == [q \in Queue |-> IF q \in pipe[c].wipe THEN 0 ELSE queue[q]]
               sets == IF pipe[c].wipe = {} THEN zset ELSE {}
    <3>1. Lone /\ SameQueue /\ ~Overtaken(c)
      BY <2>5 DEF Send, LoneInv
    <3>2. call[c] \in Call /\ call[c].queue \in Queue /\ call[c].to \in {"queue", "schedule"}
      BY <2>5 DEF Send, TypeOK, ClientOK, Call
    <3>3. ~Moving /\ ~Tasked
      BY <3>1 DEF Overtaken, Held, Moving, Tasked, Lone
    <3>4. (\A q \in Queue : lists[q] = 0) /\ sets = {}
      <4>1. CASE jobs = None
        BY <4>1, <3>1 DEF Lone, Queued, TypeOK, RedisOK
      <4>2. CASE jobs /= None
        BY <4>2, <3>1 DEF Lone, Queued, SameQueue, Overtaken, TypeOK, RedisOK
      <4> QED BY <4>1, <4>2
    <3>5. /\ queue' = [q \in Queue |-> IF q = call[c].queue /\ call[c].to = "queue" THEN 1 ELSE 0]
          /\ zset' = IF call[c].to = "queue" THEN {} ELSE {"schedule"}
      BY <2>5, <3>2, <3>4 DEF Send, PushTo
    <3>6. jobs' /= None /\ jobs'.queue = call[c].queue
      <4>1. pipe[c].last \in Gen
        BY <2>5 DEF Send, TypeOK, ClientOK, Command
      <4>2. jobs' \in Envelope
        BY <2>5, <3>2, <4>1, NumbersAssumption DEF Send, Fresh, Envelope
      <4> QED BY <2>5, <4>2, NoneAssumption DEF Send, Fresh
    <3>7. UNCHANGED <<mpc, tpc, mqueue, tenv, saved>>
      BY <2>5 DEF Send, tasks, movers
    <3>8. Lone'
      BY <3>2, <3>3, <3>5, <3>6, <3>7 DEF Lone, Queued, Moving, Tasked
    <3>9. SameQueue'
      BY <3>3, <3>5, <3>6, <3>7 DEF SameQueue, Moving, Tasked, InHand
    <3> QED BY <3>8, <3>9
  <2> QED BY <1>2, <2>1, <2>2, <2>3, <2>4, <2>5 DEF ClientStep
<1>3. ASSUME NEW t \in Task, TaskStep(t)
      PROVE  LoneInv'
  <2>1. CASE \E q \in Queue : Dequeue(t, q)
    BY <2>1, NoneAssumption
    DEF Dequeue, To, LoneInv, Lone, SameQueue, Queued, Moving, Tasked, TypeOK, RedisOK, TaskOK,
        Envelope, InHand, clients, movers, history
  <2>2. CASE Load(t)
    BY <2>2, NoneAssumption
    DEF Load, To, LoneInv, Lone, SameQueue, Queued, Moving, Tasked, TypeOK, RedisOK, TaskOK,
        Envelope, InHand, redis, clients, movers, history
  <2>3. CASE DeleteMissing(t)
    BY <2>3, NoneAssumption
    DEF DeleteMissing, End, To, LRemOne, LoneInv, Lone, SameQueue, Queued, Moving, Tasked,
        TypeOK, RedisOK, TaskOK, Envelope, InHand, clients, movers, history
  <2>4. CASE Start(t)
    BY <2>4, NumbersAssumption, NoneAssumption
    DEF Start, To, LoneInv, Lone, SameQueue, Queued, Moving, Tasked, TypeOK, RedisOK, TaskOK,
        Envelope, InHand, clients, movers, history
  <2>5. CASE Iterate(t)
    BY <2>5, NoneAssumption
    DEF Iterate, To, LoneInv, Lone, SameQueue, Queued, Moving, Tasked, TypeOK, RedisOK, TaskOK,
        Envelope, InHand, redis, clients, movers, history
  <2>6. CASE Process(t)
    BY <2>6, NoneAssumption
    DEF Process, To, LoneInv, Lone, SameQueue, Queued, Moving, Tasked, TypeOK, RedisOK, TaskOK,
        Envelope, InHand, redis, clients, movers
  <2>7. CASE ReadState(t)
    BY <2>7, NoneAssumption
    DEF ReadState, To, LoneInv, Lone, SameQueue, Queued, Moving, Tasked, TypeOK, RedisOK,
        TaskOK, Envelope, InHand, redis, clients, movers, history
  <2>8. CASE WriteState(t)
    BY <2>8, NumbersAssumption, NoneAssumption
    DEF WriteState, To, LoneInv, Lone, SameQueue, Queued, Moving, Tasked, TypeOK, RedisOK,
        TaskOK, Envelope, InHand, clients, movers, history
  <2>9. CASE Succeed(t)
    BY <2>9, NoneAssumption
    DEF Succeed, End, To, LRemOne, LoneInv, Lone, SameQueue, Queued, Moving, Tasked, TypeOK,
        RedisOK, TaskOK, Envelope, InHand, clients, movers
  <2>10. CASE Release(t)
    BY <2>10, NoneAssumption
    DEF Release, Failing, To, LRemOne, LoneInv, Lone, SameQueue, Queued, Moving, Tasked, TypeOK,
        RedisOK, TaskOK, Envelope, InHand, clients, movers, history
  <2>11. CASE RetryRead(t)
    BY <2>11, NoneAssumption
    DEF RetryRead, End, To, LoneInv, Lone, SameQueue, Queued, Moving, Tasked, TypeOK, RedisOK,
        TaskOK, Envelope, InHand, redis, clients, movers, history
  <2>12. CASE RetryWrite(t)
    BY <2>12, NoneAssumption
    DEF RetryWrite, End, To, LoneInv, Lone, SameQueue, Queued, Moving, Tasked, TypeOK, RedisOK,
        TaskOK, Envelope, InHand, clients, movers, history
  <2>13. CASE Kill(t)
    BY <2>13, NoneAssumption
    DEF Kill, Failing, End, To, LRemOne, LoneInv, Lone, SameQueue, Queued, Moving, Tasked,
        TypeOK, RedisOK, TaskOK, Envelope, InHand, clients, movers
  <2> QED
    BY <1>3, <2>1, <2>2, <2>3, <2>4, <2>5, <2>6, <2>7, <2>8, <2>9, <2>10, <2>11, <2>12, <2>13
    DEF TaskStep
<1>4. ASSUME NEW z \in ZSet, MoverStep(z)
      PROVE  LoneInv'
  <2>1. CASE Claim(z)
    BY <2>1, NoneAssumption
    DEF Claim, LoneInv, Lone, SameQueue, Queued, Moving, Tasked, TypeOK, RedisOK, MoverOK,
        Envelope, InHand, ZSet, clients, tasks, history
  <2>2. CASE Fetch(z)
    BY <2>2, NoneAssumption
    DEF Fetch, LoneInv, Lone, SameQueue, Queued, Moving, Tasked, TypeOK, RedisOK, MoverOK,
        Envelope, InHand, ZSet, redis, clients, tasks, history
  <2>3. CASE Push(z)
    BY <2>3, NoneAssumption
    DEF Push, LoneInv, Lone, SameQueue, Queued, Moving, Tasked, TypeOK, RedisOK, MoverOK,
        Envelope, InHand, ZSet, clients, tasks, history
  <2> QED BY <1>4, <2>1, <2>2, <2>3 DEF MoverStep
<1> QED BY <1>1, <1>2, <1>3, <1>4 DEF Next

(* A unique job exists once, unless a write of a client was overtaken: its *)
(* id is in exactly one place when it has an envelope, and in none when it *)
(* has none, for any mixture of strategies, queues, lists and retries.     *)
THEOREM UniqueWhenClean == Spec => []UniqueUnlessOvertaken
<1>1. Init => LoneInv
  BY DEF Init, LoneInv, Lone, SameQueue, Queued, Moving, Tasked, InHand
<1>2. TypeOK /\ LoneInv /\ [Next]_vars => LoneInv'
  BY LoneStep
<1>3. TypeOK /\ LoneInv => UniqueUnlessOvertaken
  <2> SUFFICES ASSUME TypeOK, LoneInv, clean
               PROVE  /\ \A p1, p2 \in Places : p1 = p2
                      /\ \A q \in Queue : queue[q] <= 1
                      /\ jobs = None <=> Places = {}
    BY DEF UniqueUnlessOvertaken
  <2>1. Lone
    BY DEF LoneInv
  <2>2. \A p1, p2 \in Places : p1 = p2
    BY <2>1 DEF Lone, Places, Queued, Moving, Tasked, TypeOK, RedisOK
  <2>3. jobs = None <=> Places = {}
    BY <2>1 DEF Lone, Places, Queued, Moving, Tasked
  <2> QED BY <2>1, <2>2, <2>3 DEF Lone
<1> QED BY <1>1, <1>2, <1>3, Typing, PTL DEF Spec

---------------------------------------------------------------------------
(***************************************************************************)
(* Progress.  ResumesWhereItStopped speaks of the envelope in Redis and of *)
(* the iterators; a step may take the progress from any copy a task has    *)
(* made of the envelope, so that each copy must be one of the same         *)
(* envelope, with progress that was made.                                  *)
(***************************************************************************)
Made(e) == 1..e.cursor \subseteq done[e.gen]

CopiesCurrent ==
    \A t \in Task : /\ tpc[t] \in InHand \ {"popped", "missing"} => tenv[t].gen = jobs.gen
                    /\ tpc[t] = "saving" => saved[t].gen = jobs.gen

ProgressMade ==
    /\ jobs /= None => Made(jobs)
    /\ \A t \in Task :
         /\ tpc[t] \in {"loaded", "retrying"} => Made(tenv[t])
         /\ tpc[t] \in {"working", "processed", "saving"} => 1..at[t] \subseteq done[tenv[t].gen]
         /\ tpc[t] \in {"processed", "saving"} => at[t] + 1 \in done[tenv[t].gen]

ProgressInv == clean => CopiesCurrent /\ ProgressMade

LEMMA ProgressStep ==
    ASSUME TypeOK, LoneInv, ProgressInv, [Next]_vars
    PROVE  ProgressInv'
<1> USE DEF ProgressInv, CopiesCurrent, ProgressMade, Made
<1>1. CASE UNCHANGED <<jobs, tasks, done, clean>>
  BY <1>1 DEF tasks
<1>2. ASSUME NEW c \in Client, ClientStep(c)
      PROVE  ProgressInv'
  <2>1. CASE Send(c)
    <3> SUFFICES ASSUME clean' PROVE CopiesCurrent' /\ ProgressMade'
      OBVIOUS
    <3>1. Lone /\ ~Overtaken(c)
      BY <2>1 DEF Send, LoneInv
    <3>2. ~Tasked
      BY <3>1 DEF Overtaken, Held, Moving, Tasked, Lone
    <3>3. jobs'.cursor = 0 /\ UNCHANGED <<tpc, done>>
      BY <2>1 DEF Send, Fresh, tasks
    <3> QED BY <3>2, <3>3 DEF Tasked, InHand
  <2>2. CASE ~Send(c)
    BY <1>1, <1>2, <2>2 DEF ClientStep, Begin, ActStaged, Act, ActFound, redis, history
  <2> QED BY <2>1, <2>2
<1>3. ASSUME NEW z \in ZSet, MoverStep(z)
      PROVE  ProgressInv'
  BY <1>1, <1>3 DEF MoverStep, Claim, Fetch, Push, redis, history
<1>4. ASSUME NEW t \in Task, TaskStep(t)
      PROVE  ProgressInv'
  <2> SUFFICES ASSUME clean' PROVE CopiesCurrent' /\ ProgressMade'
    OBVIOUS
  <2>0. clean /\ Lone /\ CopiesCurrent /\ ProgressMade
    BY <1>4 DEF LoneInv, TaskStep, Dequeue, Load, DeleteMissing, Start, Iterate, Process, ReadState,
       WriteState, Succeed, Release, RetryRead, RetryWrite, Kill, history
  <2>1. CASE \E q \in Queue : Dequeue(t, q)
    <3>1. \A u \in Task : tpc[u] = "free"
      BY <2>0, <2>1 DEF Dequeue, Lone, Queued, Tasked, TypeOK, TaskOK
    <3> QED BY <2>0, <2>1, <3>1 DEF Dequeue, To, history, TypeOK, TaskOK, InHand
  <2>2. ASSUME tpc[t] \in InHand
        PROVE  jobs /= None /\ jobs \in Envelope /\ \A u \in Task : u /= t => tpc[u] = "free"
    BY <2>0, <2>2 DEF Lone, Tasked, TypeOK, TaskOK, RedisOK
  <2>3. CASE DeleteMissing(t) \/ Succeed(t) \/ Kill(t)
    <3>1. tpc[t] \in InHand /\ jobs' = None /\ tpc' = [tpc EXCEPT ![t] = "free"]
      BY <2>3 DEF DeleteMissing, Succeed, Kill, Failing, End, To, InHand
    <3> QED BY <2>2, <3>1 DEF TypeOK, TaskOK, InHand
  <2>4. CASE Load(t)
    BY <2>0, <2>2, <2>4 DEF Load, To, redis, history, TypeOK, TaskOK, InHand
  <2>5. CASE Start(t)
    <3>1. /\ tpc[t] = "loaded" /\ tpc' = [tpc EXCEPT ![t] = "running"] /\ UNCHANGED done
          /\ jobs' = tenv'[t] /\ tenv'[t].gen = tenv[t].gen /\ tenv'[t].cursor \in {0, tenv[t].cursor}
      BY <2>5 DEF Start, To, history, TypeOK, TaskOK, InHand, Envelope
    <3> QED BY <2>0, <2>2, <3>1 DEF TypeOK, TaskOK, InHand
  <2>6. CASE Iterate(t)
    BY <2>0, <2>2, <2>6 DEF Iterate, To, redis, history, TypeOK, TaskOK, InHand
  <2>7. CASE Process(t)
    <3>1. /\ tpc[t] = "working" /\ tpc' = [tpc EXCEPT ![t] = "processed"] /\ UNCHANGED <<jobs, tenv, at, saved>>
          /\ done' = [done EXCEPT ![tenv[t].gen] = @ \cup {at[t] + 1}]
      BY <2>7 DEF Process, To, redis
    <3>2. tenv[t].gen \in Gen /\ tenv[t].gen = jobs.gen
      BY <2>0, <3>1 DEF TypeOK, TaskOK, InHand, Envelope
    <3>3. at[t] + 1 \in done'[jobs.gen] /\ \A g \in Gen : done[g] \subseteq done'[g]
      BY <3>1, <3>2 DEF TypeOK, HistoryOK
    <3> QED BY <2>0, <2>2, <3>1, <3>2, <3>3 DEF TypeOK, TaskOK, InHand
  <2>8. CASE ReadState(t)
    BY <2>0, <2>2, <2>8 DEF ReadState, To, redis, history, TypeOK, TaskOK, InHand
  <2>9. CASE WriteState(t)
    <3>1. /\ tpc[t] = "saving" /\ tpc' = [tpc EXCEPT ![t] = "working"] /\ UNCHANGED <<tenv, done>>
          /\ at' = [at EXCEPT ![t] = @ + 1]
          /\ jobs'.gen = saved[t].gen /\ jobs'.cursor = at[t] + 1
      BY <2>9 DEF WriteState, To, history, TypeOK, TaskOK, Envelope
    <3>2. at[t] \in Nat /\ at'[t] = at[t] + 1
      BY <3>1 DEF TypeOK, TaskOK
    <3>3. 1..(at[t] + 1) \subseteq done[tenv[t].gen]
      BY <2>0, <3>1, <3>2
    <3>4. saved[t].gen = jobs.gen /\ tenv[t].gen = jobs.gen
      BY <2>0, <3>1 DEF InHand
    <3> QED BY <2>0, <2>2, <3>1, <3>2, <3>3, <3>4 DEF TypeOK, TaskOK, InHand
  <2>10. CASE Release(t)
    BY <2>0, <2>2, <2>10 DEF Release, Failing, To, history, TypeOK, TaskOK, InHand
  <2>11. CASE RetryRead(t)
    <3>1. /\ tpc[t] = "released" /\ tpc' = [tpc EXCEPT ![t] = "retrying"] /\ UNCHANGED <<jobs, done, saved>>
          /\ tenv'[t].gen = jobs.gen /\ tenv'[t].cursor = jobs.cursor
      BY <2>2, <2>11 DEF RetryRead, To, redis, history, TypeOK, TaskOK, InHand, Envelope
    <3> QED BY <2>0, <2>2, <3>1 DEF TypeOK, TaskOK, InHand
  <2>12. CASE RetryWrite(t)
    BY <2>0, <2>2, <2>12 DEF RetryWrite, End, To, history, TypeOK, TaskOK, InHand
  <2> QED
    BY <1>4, <2>1, <2>3, <2>4, <2>5, <2>6, <2>7, <2>8, <2>9, <2>10, <2>11, <2>12 DEF TaskStep
<1>5. CASE UNCHANGED vars
  BY <1>1, <1>5 DEF vars, redis, history
<1> QED BY <1>2, <1>3, <1>4, <1>5 DEF Next

(* ResumesWhereItStopped: no item of a job is passed over by a run that    *)
(* resumes it, whatever was retried, rescheduled or replaced in between,   *)
(* unless a write of a client was overtaken.                               *)
THEOREM NothingPassedOver == Spec => []ResumesWhereItStopped
<1>1. Init => LoneInv /\ ProgressInv
  BY DEF Init, LoneInv, Lone, SameQueue, Queued, Moving, Tasked, InHand, ProgressInv,
     CopiesCurrent, ProgressMade
<1>2. TypeOK /\ LoneInv /\ ProgressInv /\ [Next]_vars => LoneInv' /\ ProgressInv'
  BY LoneStep, ProgressStep
<1>3. ProgressInv => ResumesWhereItStopped
  BY DEF ProgressInv, ProgressMade, Made, ResumesWhereItStopped
<1> QED BY <1>1, <1>2, <1>3, Typing, PTL DEF Spec

=============================================================================
