------------------------- MODULE QueueControlProofs -------------------------
(***************************************************************************)
(* Proofs about QueueControl, for any number of callers and permits and    *)
(* any set of configs, and about QueueConfig, for any administrators and   *)
(* limits: the composition with the watcher keeps what QueueControl        *)
(* promises.                                                               *)
(***************************************************************************)
EXTENDS QueueConfig, FiniteSetTheorems, TLAPS

(* Every step keeps the types. *)
LEMMA TypeStep == TypeOK /\ [Next]_vars => TypeOK'
<1> SUFFICES ASSUME TypeOK, [Next]_vars PROVE TypeOK'
  OBVIOUS
<1> USE DEF TypeOK
<1>1. ASSUME NEW c \in Caller, Arm(c) PROVE TypeOK'
  BY <1>1 DEF Arm
<1>2. ASSUME NEW c \in Caller, Acquire(c) PROVE TypeOK'
  BY <1>2 DEF Acquire
<1>3. ASSUME NEW c \in Caller, FindNoRoom(c) \/ Await(c) PROVE TypeOK'
  BY <1>3 DEF FindNoRoom, Await
<1>4. ASSUME NEW c \in Caller, Wake(c) PROVE TypeOK'
  BY <1>4 DEF Wake
<1>5. ASSUME NEW x \in Permit, Release(x) PROVE TypeOK'
  BY <1>5 DEF Release
<1>6. ASSUME NEW x \in Permit, SignalRelease(x) PROVE TypeOK'
  <2>1. woken' \in [Caller -> BOOLEAN]
    BY <1>6, Zenon DEF SignalRelease, NotifyWaiters
  <2> QED
    BY <1>6, <2>1 DEF SignalRelease
<1>7. ASSUME NEW cfg \in Config, ApplyConfig(cfg) PROVE TypeOK'
  BY <1>7, ConfigAssumption DEF ApplyConfig
<1>8. ASSUME SignalConfig PROVE TypeOK'
  <2>1. woken' \in [Caller -> BOOLEAN]
    BY <1>8, Zenon DEF SignalConfig, NotifyWaiters
  <2> QED
    BY <1>8, <2>1 DEF SignalConfig
<1>9. CASE UNCHANGED vars
  BY <1>9 DEF vars
<1> QED
  BY <1>1, <1>2, <1>3, <1>4, <1>5, <1>6, <1>7, <1>8, <1>9 DEF Next

LEMMA TypeInit == Init => TypeOK
<1> SUFFICES ASSUME Init PROVE TypeOK
  OBVIOUS
<1>1. PICK cfg \in Config : concurrency = (IF cfg.concurrency = None THEN 1 ELSE cfg.concurrency)
                              /\ queue_state = cfg.state
  BY DEF Init
<1> QED
  BY <1>1, ConfigAssumption DEF Init, TypeOK

(* Every variable of the permit counter keeps its type. *)
THEOREM Typing == Spec => []TypeOK
BY TypeInit, TypeStep, PTL DEF Spec

---------------------------------------------------------------------------
Held == {x \in Permit : permit[x] = "held"}

LEMMA HeldFinite == IsFiniteSet(Held)
BY PermitAssumption, FS_Subset DEF Held

LEMMA CountStep ==
    TypeOK /\ ActiveCountsPermits /\ [Next]_vars => ActiveCountsPermits'
<1> SUFFICES ASSUME TypeOK, ActiveCountsPermits, [Next]_vars PROVE ActiveCountsPermits'
  OBVIOUS
<1>0. active = Cardinality(Held) /\ IsFiniteSet(Held) /\ active \in Nat
  BY HeldFinite DEF ActiveCountsPermits, Held, TypeOK
<1>a. ASSUME Held' = Held, active' = active PROVE ActiveCountsPermits'
  BY <1>0, <1>a DEF ActiveCountsPermits, Held
<1>1. ASSUME NEW c \in Caller, Acquire(c) PROVE ActiveCountsPermits'
  <2>1. PICK x \in Permit : permit[x] = "free" /\ permit' = [permit EXCEPT ![x] = "held"]
    BY <1>1 DEF Acquire
  <2>2. x \notin Held /\ Held' = Held \cup {x}
    BY <2>1 DEF Held, TypeOK
  <2>3. Cardinality(Held') = Cardinality(Held) + 1
    BY <1>0, <2>2, FS_AddElement
  <2> QED
    BY <1>0, <1>1, <2>3 DEF Acquire, ActiveCountsPermits, Held
<1>2. ASSUME NEW x \in Permit, Release(x) PROVE ActiveCountsPermits'
  <2>1. x \in Held /\ Held' = Held \ {x}
    BY <1>2 DEF Release, Held, TypeOK
  <2>2. Cardinality(Held') = Cardinality(Held) - 1
    BY <1>0, <2>1, FS_RemoveElement
  <2>3. active > 0
    BY <1>0, <2>1, FS_EmptySet
  <2> QED
    BY <1>0, <1>2, <2>2, <2>3 DEF Release, ActiveCountsPermits, Held
<1>3. ASSUME NEW x \in Permit, SignalRelease(x) PROVE ActiveCountsPermits'
  BY <1>3, <1>a DEF SignalRelease, Held, TypeOK
<1>4. ASSUME NEW c \in Caller, Arm(c) \/ FindNoRoom(c) \/ Await(c) \/ Wake(c) PROVE ActiveCountsPermits'
  BY <1>4, <1>a DEF Arm, FindNoRoom, Await, Wake, Held
<1>5. ASSUME NEW cfg \in Config, ApplyConfig(cfg) PROVE ActiveCountsPermits'
  BY <1>5, <1>a DEF ApplyConfig, Held
<1>6. ASSUME SignalConfig PROVE ActiveCountsPermits'
  BY <1>6, <1>a DEF SignalConfig, Held
<1>7. CASE UNCHANGED vars
  BY <1>7, <1>a DEF vars, Held
<1> QED
  BY <1>1, <1>2, <1>3, <1>4, <1>5, <1>6, <1>7 DEF Next

(* The counter of the semaphore is the number of permits held: release's   *)
(* saturating_sub never saturates, and no permit leaks.                    *)
THEOREM CounterExact == Spec => []ActiveCountsPermits
<1>1. Init => ActiveCountsPermits
  <2> SUFFICES ASSUME Init PROVE ActiveCountsPermits
    OBVIOUS
  <2>1. {x \in Permit : permit[x] = "held"} = {}
    BY DEF Init
  <2> QED
    BY <2>1, FS_EmptySet DEF Init, ActiveCountsPermits
<1> QED
  BY <1>1, CountStep, Typing, PTL DEF Spec

---------------------------------------------------------------------------
LEMMA WakeupStep == TypeOK /\ NoLostWakeup /\ [Next]_vars => NoLostWakeup'
<1> SUFFICES ASSUME TypeOK, NoLostWakeup, [Next]_vars,
                    NEW d \in Caller, pc'[d] \in {"refused", "waiting"}, Room'
             PROVE  woken'[d] \/ applied' \/ \E x \in Permit : permit'[x] = "dropped"
  BY DEF NoLostWakeup
<1> USE DEF TypeOK, Room, NoLostWakeup
<1>1. ASSUME NEW c \in Caller, Arm(c)
      PROVE woken'[d] \/ applied' \/ \E x \in Permit : permit'[x] = "dropped"
  BY <1>1 DEF Arm
<1>2. ASSUME NEW c \in Caller, Acquire(c)
      PROVE woken'[d] \/ applied' \/ \E x \in Permit : permit'[x] = "dropped"
  BY <1>2 DEF Acquire
<1>3. ASSUME NEW c \in Caller, FindNoRoom(c) \/ Await(c)
      PROVE woken'[d] \/ applied' \/ \E x \in Permit : permit'[x] = "dropped"
  BY <1>3 DEF FindNoRoom, Await
<1>4. ASSUME NEW c \in Caller, Wake(c)
      PROVE woken'[d] \/ applied' \/ \E x \in Permit : permit'[x] = "dropped"
  BY <1>4 DEF Wake
<1>5. ASSUME NEW x \in Permit, Release(x)
      PROVE permit'[x] = "dropped"
  BY <1>5 DEF Release
<1>6. ASSUME NEW x \in Permit, SignalRelease(x) PROVE woken'[d]
  BY <1>6 DEF SignalRelease, NotifyWaiters
<1>7. ASSUME NEW cfg \in Config, ApplyConfig(cfg) PROVE applied'
  BY <1>7 DEF ApplyConfig
<1>8. ASSUME SignalConfig PROVE woken'[d]
  BY <1>8 DEF SignalConfig, NotifyWaiters
<1>9. CASE UNCHANGED vars
  BY <1>9 DEF vars
<1> QED
  BY <1>1, <1>2, <1>3, <1>4, <1>5, <1>6, <1>7, <1>8, <1>9 DEF Next

(* acquire() makes its Notified future before it looks at the state, so no *)
(* wake-up can be lost, whatever the number of callers and threads.        *)
THEOREM WakeupsKept == Spec => []NoLostWakeup
<1>1. Init => NoLostWakeup
  BY DEF Init, NoLostWakeup
<1> QED
  BY <1>1, WakeupStep, Typing, PTL DEF Spec

---------------------------------------------------------------------------
(* The config hash *)

(* What the calls of administrators may store, and what a child may fall   *)
(* back on.                                                                *)
Own == [concurrency : Limits \cup {None}, state : State]
Inherited == [concurrency : Limits \cup {None, Default}, state : State]

(* The hash holds only limits somebody asked for, and none for a queue     *)
(* that is not dynamic; a call on its way has passed its validation.       *)
ConfigInv ==
    /\ ConfigTypeOK
    /\ configs \in [Key -> Own \cup {None}] /\ asked \in [Key -> Own \cup {None}]
    /\ seen \in [Admin -> Own \cup {None}]
    /\ base \in Inherited
    /\ \A a \in Admin : apc[a] # "idle" => call[a] \in Call /\ Accepted(call[a])

LEMMA CallFields ==
    ASSUME NEW c \in Call
    PROVE  /\ c.key \in Key /\ c.op \in {"state", "concurrency", "config", "reset"}
           /\ c.op = "state" => c.state \in State
           /\ c.op = "concurrency" => c.limit \in Limits
           /\ c.op = "config" => c.config \in Wholes
BY DEF Call

(* What a call stores was asked for. *)
LEMMA ChangedOwn ==
    ASSUME NEW c \in Call, NEW stored \in Own \cup {None}, NEW def \in Nat
    PROVE  /\ Changed(c, stored, def) \in Own \cup {None}
           /\ Asked(c, stored, def) \in Own \cup {None}
<1> DEFINE cfg == IF stored = None THEN Unset ELSE stored
<1>1. cfg \in Own
  BY DEF Own, Unset, State
<1>2. CASE c.op = "state"
  BY <1>1, <1>2, CallFields DEF Changed, Asked, Own
<1>3. CASE c.op = "concurrency"
  BY <1>1, <1>3, CallFields DEF Changed, Asked, Own
<1>4. CASE c.op = "config"
  BY <1>4, CallFields, LimitsAssumption DEF Changed, Asked, Own
<1>5. CASE c.op = "reset"
  BY <1>5 DEF Changed, Asked
<1> QED
  BY <1>2, <1>3, <1>4, <1>5, CallFields

(* A queue that is not dynamic has no concurrency stored. *)
LEMMA ChangedFixed ==
    ASSUME NEW c \in Call, NEW stored \in Own \cup {None}, NEW def \in Nat, Accepted(c), ~dynamic,
           Changed(c, stored, def) # None
    PROVE  Changed(c, stored, def).concurrency = None
<1>1. CASE c.op = "state"
  BY <1>1, CallFields DEF Changed
<1>2. CASE c.op = "config"
  BY <1>2, CallFields DEF Changed, Accepted
<1> QED
  BY <1>1, <1>2, CallFields DEF Changed, Accepted

(* On the same stored config a call leaves what was asked for. *)
LEMMA ChangedAsAsked ==
    ASSUME NEW c \in Call, NEW stored \in Own \cup {None}, NEW def \in Nat,
           ~dynamic /\ stored # None => stored.concurrency = None
    PROVE  Changed(c, stored, def) = Asked(c, stored, def)
<1>1. CASE c.op = "state"
  BY <1>1, CallFields DEF Changed, Asked, Own, Unset
<1> QED
  BY <1>1, CallFields DEF Changed, Asked

LEMMA OrDefaultType ==
    ASSUME NEW stored \in Own \cup {None}, NEW def \in Inherited
    PROVE  OrDefault(stored, def) \in Inherited
BY DEF OrDefault, WithDefaults, Own, Inherited

LEMMA StoredDefaultType == StoredDefault \in Inherited
BY DEF StoredDefault, Inherited, State

(* What is applied has a limit. *)
LEMMA EffectiveType ==
    ASSUME NEW cfg \in Inherited
    PROVE  EffectiveOf(cfg) \in [concurrency : Limits \cup {Default}, state : State]
BY DEF EffectiveOf, Inherited

LEMMA OwnStored == Own \subseteq Stored /\ Inherited \subseteq Stored /\ None \notin Stored
BY LimitsAssumption DEF Own, Inherited, Stored

LEMMA ConfigInvInit == ConfigInit => ConfigInv
<1> SUFFICES ASSUME ConfigInit PROVE ConfigInv
  OBVIOUS
<1>1. Unset \in Own /\ Unset \in Inherited /\ Default \in Nat /\ MaxCalls \in Nat /\ MaxFailures \in Nat
  BY LimitsAssumption DEF Unset, Own, Inherited, State
<1>2. configs \in [Key -> Own \cup {None}] /\ asked \in [Key -> Own \cup {None}]
  BY DEF ConfigInit
<1>3. ConfigTypeOK
  BY <1>1, <1>2, OwnStored DEF ConfigInit, ConfigTypeOK
<1> QED
  BY <1>1, <1>2, <1>3 DEF ConfigInit, ConfigInv

LEMMA ConfigInvStep == ConfigInv /\ [ConfigNext]_allVars => ConfigInv'
<1> SUFFICES ASSUME ConfigInv, [ConfigNext]_allVars PROVE ConfigInv'
  OBVIOUS
<1> USE DEF ConfigInv, ConfigTypeOK
<1>1. CASE UNCHANGED configVars
  BY <1>1 DEF configVars, admins, watcher, history, Accepted
<1>2. ASSUME NEW a \in Admin, NEW c \in Call, Begin(a, c) PROVE ConfigInv'
  <2>1. FirstStep(c) \in {"default", "read", "write"}
    BY DEF FirstStep
  <2>2. /\ apc' = [apc EXCEPT ![a] = FirstStep(c)] /\ call' = [call EXCEPT ![a] = c] /\ Accepted(c)
        /\ calls' = calls - 1 /\ calls > 0
        /\ UNCHANGED <<dynamic, configs, fallback, seen, wpc, base, failures, asked, overtaken>>
    BY <1>2 DEF Begin, watcher, history
  <2>3. \A b \in Admin : apc'[b] # "idle" => call'[b] \in Call /\ Accepted(call[b])'
    BY <2>2 DEF Accepted
  <2>4. calls' \in 0..MaxCalls
    BY <2>2, LimitsAssumption
  <2> QED
    BY <2>1, <2>2, <2>3, <2>4
<1>3. ASSUME NEW a \in Admin, ReadDefault(a) PROVE ConfigInv'
  <2>1. configs[Base] \in Own \cup {None}
    BY DEF Key
  <2>2. EffectiveOf(OrDefault(configs[Base], StoredDefault)).concurrency \in Nat
    BY <2>1, OrDefaultType, StoredDefaultType, EffectiveType, LimitsAssumption
  <2> QED
    BY <1>3, <2>2 DEF ReadDefault, watcher, history, Accepted
<1>4. ASSUME NEW a \in Admin, Finish(a), UNCHANGED <<dynamic, watcher, calls, failures>>
      PROVE  /\ apc' \in [Admin -> {"idle", "default", "read", "write"}]
             /\ call' \in [Admin -> Call \cup {None}] /\ fallback' \in [Admin -> Nat]
             /\ seen' \in [Admin -> Own \cup {None}] /\ seen' \in [Admin -> Stored \cup {None}]
             /\ \A b \in Admin : apc'[b] # "idle" => call'[b] \in Call /\ Accepted(call[b])'
  BY <1>4, LimitsAssumption DEF Finish, Accepted
<1>5. ASSUME NEW a \in Admin, ReadConfig(a) PROVE ConfigInv'
  <2>1. CASE Finish(a)
    BY <1>4, <1>5, <2>1 DEF ReadConfig, watcher, history
  <2>2. call[a] \in Call /\ configs[call[a].key] \in Own \cup {None}
    BY <1>5, CallFields DEF ReadConfig
  <2>3. CASE /\ apc' = [apc EXCEPT ![a] = "write"]
             /\ seen' = [seen EXCEPT ![a] = configs[call[a].key]]
             /\ UNCHANGED <<call, fallback>>
    BY <1>5, <2>2, <2>3, OwnStored DEF ReadConfig, watcher, history, Accepted
  <2> QED
    BY <1>5, <2>1, <2>3 DEF ReadConfig
<1>6. ASSUME NEW a \in Admin, WriteConfig(a) PROVE ConfigInv'
  <2> DEFINE c == call[a]
             new == Changed(c, seen[a], fallback[a])
  <2>1. c \in Call /\ Accepted(c) /\ c.key \in Key /\ seen[a] \in Own \cup {None} /\ fallback[a] \in Nat
    BY <1>6, CallFields DEF WriteConfig
  <2>2. /\ configs' = [configs EXCEPT ![c.key] = new]
        /\ asked' = [asked EXCEPT ![c.key] = Asked(c, @, fallback[a])]
        /\ overtaken' \in [Key -> BOOLEAN]
        /\ Finish(a) /\ UNCHANGED <<dynamic, wpc, base, calls, failures>>
    BY <1>6 DEF WriteConfig, watcher
  <2>3. new \in Own \cup {None} /\ Asked(c, asked[c.key], fallback[a]) \in Own \cup {None}
    BY <2>1, ChangedOwn
  <2>4. configs' \in [Key -> Own \cup {None}] /\ asked' \in [Key -> Own \cup {None}]
    BY <2>1, <2>2, <2>3
  <2>5. \A q \in Key : ~dynamic' /\ configs'[q] # None => configs'[q].concurrency = None
    BY <2>1, <2>2, ChangedFixed
  <2> QED
    BY <1>4, <2>2, <2>4, <2>5, OwnStored DEF watcher
<1>7. CASE ReadBase
  <2>1. OrDefault(configs[Base], StoredDefault) \in Inherited
    BY OrDefaultType, StoredDefaultType DEF Key
  <2> QED
    BY <1>7, <2>1, OwnStored DEF ReadBase, admins, history, Accepted
<1>8. CASE ReadOwn \/ WatchFails
  <2>1. Unset \in Inherited
    BY DEF Unset, Inherited, State
  <2> QED
    BY <1>8, <2>1, OwnStored, LimitsAssumption DEF ReadOwn, WatchFails, admins, history, Accepted
<1>9. CASE UNCHANGED allVars
  BY <1>1, <1>9 DEF allVars
<1> QED
  BY <1>1, <1>2, <1>3, <1>5, <1>6, <1>7, <1>8, <1>9 DEF ConfigNext, Administer, ControlStep

(* The config hash holds what the administrators asked for, as far as it   *)
(* may be stored for the queue.                                            *)
THEOREM ConfigInvariant == ConfigSpec => []ConfigInv
BY ConfigInvInit, ConfigInvStep, PTL DEF ConfigSpec

---------------------------------------------------------------------------
(* ChangeLostOnlyByOverlap: a call whose read saw the last write keeps the *)
(* field it does not set, for any number of administrators.                *)
THEOREM ChangesKept == ConfigSpec => []ChangeLostOnlyByOverlap
<1>1. ConfigInit => ChangeLostOnlyByOverlap
  BY DEF ConfigInit, ChangeLostOnlyByOverlap
<1>2. ConfigInv /\ ChangeLostOnlyByOverlap /\ [ConfigNext]_allVars => ChangeLostOnlyByOverlap'
  <2> SUFFICES ASSUME ConfigInv, ChangeLostOnlyByOverlap, [ConfigNext]_allVars
               PROVE  ChangeLostOnlyByOverlap'
    OBVIOUS
  <2>1. CASE UNCHANGED <<configs, asked, overtaken>>
    BY <2>1 DEF ChangeLostOnlyByOverlap
  <2>2. ASSUME NEW a \in Admin, WriteConfig(a) PROVE ChangeLostOnlyByOverlap'
    <3> DEFINE c == call[a]
    <3>1. c \in Call /\ c.key \in Key /\ seen[a] \in Own \cup {None} /\ fallback[a] \in Nat
      BY <2>2, CallFields DEF WriteConfig, ConfigInv, ConfigTypeOK
    <3>2. /\ configs' = [configs EXCEPT ![c.key] = Changed(c, seen[a], fallback[a])]
          /\ asked' = [asked EXCEPT ![c.key] = Asked(c, asked[c.key], fallback[a])]
          /\ overtaken' = [overtaken EXCEPT ![c.key] =
                c.op \in {"state", "concurrency"} /\ (overtaken[c.key] \/ seen[a] # configs[c.key])]
      BY <2>2 DEF WriteConfig
    <3> SUFFICES ASSUME ~overtaken'[c.key]
                 PROVE  Changed(c, seen[a], fallback[a]) = Asked(c, asked[c.key], fallback[a])
      BY <3>1, <3>2 DEF ChangeLostOnlyByOverlap, ConfigInv, ConfigTypeOK
    <3>3. CASE c.op \in {"state", "concurrency"}
      <4>1. seen[a] = configs[c.key] /\ configs[c.key] = asked[c.key]
        BY <3>1, <3>2, <3>3 DEF ChangeLostOnlyByOverlap, ConfigInv, ConfigTypeOK
      <4>2. ~dynamic /\ seen[a] # None => seen[a].concurrency = None
        BY <3>1, <4>1 DEF ConfigInv, ConfigTypeOK
      <4>3. Changed(c, seen[a], fallback[a]) = Asked(c, seen[a], fallback[a])
        BY <3>1, <4>2, ChangedAsAsked
      <4> QED
        BY <4>1, <4>3
    <3>4. CASE c.op \in {"config", "reset"}
      BY <3>4 DEF Changed, Asked
    <3> QED
      BY <3>1, <3>3, <3>4, CallFields
  <2>3. CASE Administer
    BY <2>1, <2>2, <2>3 DEF Administer, Begin, ReadDefault, ReadConfig, history
  <2>4. CASE ReadBase \/ ReadOwn \/ WatchFails \/ ControlStep \/ UNCHANGED allVars
    BY <2>1, <2>4 DEF ReadBase, ReadOwn, WatchFails, ControlStep, allVars, configVars, history
  <2> QED
    BY <2>3, <2>4 DEF ConfigNext
<1> QED
  BY <1>1, <1>2, ConfigInvariant, PTL DEF ConfigSpec

---------------------------------------------------------------------------
(* What is shown and what is applied, field by field *)

Declared == [concurrency |-> Default, state |-> "active"]
ShownBase(h) == IF h[Base] = None THEN Declared ELSE Merge(h[Base], Declared)
Storable ==
    { h \in [Key -> Own \cup {None}] :
        \A q \in Key : ~dynamic /\ h[q] # None => h[q].concurrency = None }

LEMMA ShownBaseType == ASSUME NEW h \in Storable PROVE ShownBase(h) \in Inherited
<1>1. h[Base] \in Own \cup {None}
  BY DEF Storable, Key
<1> QED
  BY <1>1 DEF ShownBase, Declared, Merge, WithDefaults, Own, Inherited, State

(* The base of a dynamic queue, and any queue that is not dynamic *)
LEMMA BaseShown ==
    ASSUME NEW h \in Storable
    PROVE  /\ EffectiveOf(OrDefault(h[Base], StoredDefault)) = ShownBase(h)
           /\ dynamic => OrDefault(h[Base], StoredDefault) = ShownBase(h)
           /\ ~dynamic => OrDefault(h[Base], StoredDefault) = [ShownBase(h) EXCEPT !.concurrency = None]
<1>0. Default # None
  BY LimitsAssumption
<1>1. CASE h[Base] = None
  BY <1>0, <1>1 DEF ShownBase, Declared, OrDefault, StoredDefault, EffectiveOf
<1>2. CASE h[Base] # None
  <2>1. h[Base] \in Own /\ (~dynamic => h[Base].concurrency = None)
    BY <1>2 DEF Storable, Key
  <2> QED
    BY <1>0, <1>2, <2>1 DEF ShownBase, Declared, Merge, WithDefaults, OrDefault, StoredDefault,
       EffectiveOf, Own
<1> QED
  BY <1>1, <1>2

LEMMA ShownIsEffective ==
    ASSUME NEW h \in Storable, NEW q \in Key
    PROVE  FromMap(h, q) = Effective(h, q)
<1>0. Default # None /\ h[q] \in Own \cup {None} /\ (~dynamic /\ h[q] # None => h[q].concurrency = None)
  BY LimitsAssumption DEF Storable
<1>1. CASE q = Base
  BY <1>1, BaseShown DEF FromMap, Effective, RuntimeConfig, ShownBase, Declared
<1>2. CASE q = Child
  <2> DEFINE b == ShownBase(h)
  <2>1. b \in Inherited /\ b.concurrency # None
    <3>1. h[Base] \in Own \cup {None}
      BY DEF Storable, Key
    <3> QED
      BY <1>0, <3>1, ShownBaseType DEF ShownBase, Declared, Merge, WithDefaults, Own
  <2>2. Effective(h, q) = EffectiveOf(OrDefault(h[q], OrDefault(h[Base], StoredDefault)))
    BY <1>2, KeysAssumption DEF Effective, RuntimeConfig
  <2>3. FromMap(h, q) = IF h[q] = None THEN b ELSE Merge(h[q], b)
    BY <1>2, KeysAssumption DEF FromMap, ShownBase, Declared
  <2>4. CASE h[q] = None
    <3>1. Effective(h, q) = EffectiveOf(OrDefault(h[Base], StoredDefault))
      BY <2>2, <2>4 DEF OrDefault
    <3> QED
      BY <2>3, <2>4, <3>1, BaseShown
  <2>5. CASE h[q] # None /\ dynamic
    <3>1. OrDefault(h[Base], StoredDefault) = b
      BY <2>5, BaseShown
    <3>2. FromMap(h, q) = WithDefaults(h[q], b)
      BY <2>3, <2>5 DEF Merge
    <3>3. Effective(h, q) = EffectiveOf(WithDefaults(h[q], b))
      BY <2>2, <2>5, <3>1 DEF OrDefault
    <3> HIDE DEF b
    <3> QED
      BY <1>0, <2>1, <2>5, <3>2, <3>3 DEF WithDefaults, EffectiveOf, Own, Inherited
  <2>6. CASE h[q] # None /\ ~dynamic
    <3>1. ~dynamic => b.concurrency = Default
      <4>1. EffectiveOf(OrDefault(h[Base], StoredDefault)) = b
        BY BaseShown
      <4>2. OrDefault(h[Base], StoredDefault) \in Inherited
        BY OrDefaultType, StoredDefaultType DEF Storable, Key
      <4> QED
        BY <4>1, <4>2 DEF EffectiveOf, Inherited
    <3>2. OrDefault(h[Base], StoredDefault) = [b EXCEPT !.concurrency = None]
      BY <2>6, BaseShown
    <3>3. FromMap(h, q) = WithDefaults([h[q] EXCEPT !.concurrency = None], b)
      BY <2>3, <2>6 DEF Merge
    <3>4. Effective(h, q) = EffectiveOf(WithDefaults(h[q], [b EXCEPT !.concurrency = None]))
      BY <2>2, <2>6, <3>2 DEF OrDefault
    <3> HIDE DEF b
    <3> QED
      BY <1>0, <2>1, <2>6, <3>1, <3>3, <3>4 DEF WithDefaults, EffectiveOf, Own, Inherited
  <2> QED
    BY <2>4, <2>5, <2>6
<1> QED
  BY <1>1, <1>2 DEF Key

(* Without its own concurrency a queue runs with what it inherits. *)
LEMMA OverrideShown ==
    ASSUME NEW h \in Storable, NEW q \in Key
    PROVE  ShownAsOverride(h, q) <=>
             Effective(h, q).concurrency #
             Effective([h EXCEPT ![q] = IF @ = None THEN @ ELSE [@ EXCEPT !.concurrency = None]], q).concurrency
<1> DEFINE g == [h EXCEPT ![q] = IF @ = None THEN @ ELSE [@ EXCEPT !.concurrency = None]]
           inherited == IF q = Base THEN Default ELSE ShownBase(h).concurrency
<1>0. /\ Default # None /\ h \in [Key -> Own \cup {None}] /\ h[q] \in Own \cup {None}
      /\ ~dynamic /\ h[q] # None => h[q].concurrency = None
  BY LimitsAssumption DEF Storable
<1>1. g[q] = IF h[q] = None THEN None ELSE [h[q] EXCEPT !.concurrency = None]
  BY <1>0
<1>2. g[q] \in Own \cup {None} /\ (h[q] # None => g[q] # None /\ g[q].concurrency = None)
  <2>1. h[q] # None => [h[q] EXCEPT !.concurrency = None] \in Own
    BY <1>0 DEF Own
  <2> QED
    BY <1>1, <2>1, OwnStored DEF Own
<1>3. g \in Storable /\ \A k \in Key : k # q => g[k] = h[k]
  <2>1. g \in [Key -> Own \cup {None}] /\ \A k \in Key : k # q => g[k] = h[k]
    BY <1>0, <1>1, <1>2
  <2> HIDE DEF g
  <2> QED
    BY <1>0, <1>1, <1>2, <2>1 DEF Storable
<1>4. Effective(h, q) = FromMap(h, q) /\ Effective(g, q) = FromMap(g, q)
  BY <1>3, ShownIsEffective
<1>5. ShownBase(h) \in Inherited /\ (q # Base => ShownBase(g) = ShownBase(h))
  BY <1>3, ShownBaseType DEF ShownBase, Key
<1> HIDE DEF g
<1>6. FromMap(g, q).concurrency = inherited
  <2>1. CASE q = Base
    BY <1>0, <1>2, <1>1, <2>1 DEF FromMap, Merge, WithDefaults, Own
  <2>2. CASE q # Base
    <3>1. FromMap(g, q) = IF g[Child] = None THEN ShownBase(g) ELSE Merge(g[Child], ShownBase(g))
      BY <2>2 DEF FromMap, ShownBase, Declared
    <3>2. q = Child
      BY <2>2 DEF Key
    <3> QED
      BY <1>1, <1>2, <1>5, <2>2, <3>1, <3>2 DEF Merge, WithDefaults, Own
  <2> QED
    BY <2>1, <2>2
<1>7. FromMap(h, q).concurrency =
        IF dynamic /\ h[q] # None /\ h[q].concurrency # None THEN h[q].concurrency ELSE inherited
  <2>1. CASE q = Base
    BY <1>0, <2>1 DEF FromMap, Merge, WithDefaults, Own
  <2>2. CASE q # Base
    <3>1. FromMap(h, q) = IF h[Child] = None THEN ShownBase(h) ELSE Merge(h[Child], ShownBase(h))
      BY <2>2 DEF FromMap, ShownBase, Declared
    <3>2. q = Child
      BY <2>2 DEF Key
    <3> QED
      BY <1>0, <2>2, <3>1, <3>2 DEF Merge, WithDefaults, Own
  <2> QED
    BY <2>1, <2>2
<1>8. ShownAsOverride(h, q) <=>
        dynamic /\ h[q] # None /\ h[q].concurrency # None /\ h[q].concurrency # inherited
  <2>1. FromMap(h, Base) = ShownBase(h)
    BY DEF FromMap, ShownBase, Declared
  <2> QED
    BY <2>1 DEF ShownAsOverride
<1>9. ShownAsOverride(h, q) <=> Effective(h, q).concurrency # Effective(g, q).concurrency
  BY <1>4, <1>6, <1>7, <1>8
<1> QED
  BY <1>9 DEF g

(* DashboardShowsEffective: for every config that can come to be stored,   *)
(* the dashboard's own computation agrees with what the worker applies,    *)
(* and marks an override exactly when there is one.                        *)
THEOREM DashboardAgrees == ConfigSpec => []DashboardShowsEffective
<1>1. ConfigInv => DashboardShowsEffective
  <2> SUFFICES ASSUME ConfigInv PROVE DashboardShowsEffective
    OBVIOUS
  <2>1. configs \in Storable
    BY DEF ConfigInv, ConfigTypeOK, Storable
  <2> QED
    BY <2>1, ShownIsEffective, OverrideShown DEF DashboardShowsEffective
<1> QED
  BY <1>1, ConfigInvariant, PTL

---------------------------------------------------------------------------
(* Every step of the composition is a step of the permit counter, or leaves *)
(* it alone: what the watcher applies is one of its configs.               *)
LEMMA ConfigStepIsControlStep == ConfigInv /\ [ConfigNext]_allVars => [Next]_vars
<1> SUFFICES ASSUME ConfigInv, [ConfigNext]_allVars PROVE [Next]_vars
  OBVIOUS
<1>1. CASE Administer \/ ReadBase \/ WatchFails
  BY <1>1 DEF Administer, Begin, ReadDefault, ReadConfig, WriteConfig, ReadBase, WatchFails
<1>2. CASE ReadOwn
  <2>1. configs[Child] \in Own \cup {None} /\ base \in Inherited
    BY DEF ConfigInv, Key
  <2>2. EffectiveOf(OrDefault(configs[Child], base)) \in Config
    BY <2>1, OrDefaultType, EffectiveType, AppliedAssumption
  <2> QED
    BY <1>2, <2>2 DEF ReadOwn, Next
<1>3. CASE ControlStep
  BY <1>3 DEF ControlStep, Next
<1>4. CASE UNCHANGED allVars
  BY <1>4 DEF allVars
<1> QED
  BY <1>1, <1>2, <1>3, <1>4 DEF ConfigNext

(* Under the watcher and the administrators the permit counter is still a  *)
(* permit counter.                                                         *)
THEOREM ConfigImplementsControl == ConfigSpec => Spec
<1>1. ConfigInit => Init
  BY DEF ConfigInit
<1> QED
  BY <1>1, ConfigStepIsControlStep, ConfigInvariant, PTL DEF ConfigSpec, Spec

(* ActiveCountsPermits and NoLostWakeup hold while the watcher changes the *)
(* limit and the state under the callers.                                  *)
THEOREM ControlSafeUnderConfig == ConfigSpec => [](TypeOK /\ ActiveCountsPermits /\ NoLostWakeup)
BY ConfigImplementsControl, Typing, CounterExact, WakeupsKept, PTL

=============================================================================
