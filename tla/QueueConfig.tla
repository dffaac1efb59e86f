---------------------------- MODULE QueueConfig ----------------------------
(***************************************************************************)
(* The runtime config of queues: administrators change it in a Redis hash  *)
(* (Storage::set_queue_state, set_queue_concurrency, set_queue_config,     *)
(* reset_queue_config), the queue watcher of a process finds a dynamic     *)
(* queue, its config watcher polls the hash and hands what it reads to the *)
(* permit counter of QueueControl, and the dashboard computes from the     *)
(* same hash what it shows.                                                *)
(*                                                                         *)
(* There are two keys: the base of a dynamic queue (its prefix) and one    *)
(* child, whose config falls back on the base's.  The permit counter is    *)
(* the child's.                                                            *)
(***************************************************************************)
EXTENDS QueueControl

CONSTANTS
    Admin,       \* callers of Storage and of the dashboard's handlers
    Base, Child, \* keys
    Default,     \* the concurrency of the queue's declaration
    Limits,      \* concurrencies administrators ask for
    Wholes,      \* configs administrators store as a whole
    MaxCalls,    \* bound: calls of administrators
    MaxFailures  \* bound: failing reads of the watcher

State == {"active", "paused"}

ASSUME KeysAssumption == Base # Child
ASSUME LimitsAssumption ==
    /\ Default \in Nat \ {0} /\ Limits \subseteq Nat \ {0}
    /\ None \notin Nat \cup [concurrency : Nat \cup {None}, state : State]
    /\ Wholes \subseteq [concurrency : Limits \cup {None}, state : State]
    /\ MaxCalls \in Nat /\ MaxFailures \in Nat
(* The configs of QueueControl are at least those the watcher can apply. *)
ASSUME AppliedAssumption == [concurrency : Limits \cup {Default}, state : State] \subseteq Config

VARIABLES
    dynamic,    \* QueueConcurrency: Dynamic or Fixed, never changed
    configs,    \* Redis hash of stored configs
    apc, call, fallback, seen,  \* an administrator's call and what it has read
    wpc, base,  \* the watcher of the child queue, and the base config it has read
    calls, failures,            \* left
    asked, overtaken    \* history: what the calls so far, one after another, ask for;
                        \* whether a call wrote over what it had not read

admins == <<apc, call, fallback, seen>>
watcher == <<wpc, base>>
history == <<asked, overtaken>>
configVars == <<dynamic, configs, admins, watcher, calls, failures, history>>
allVars == <<vars, configVars>>

Key == {Base, Child}
Stored == [concurrency : Nat \cup {None}, state : State]
Unset == [concurrency |-> None, state |-> "active"]     \* QueueRuntimeConfig::default

Call ==
    [op : {"state"}, key : Key, state : State] \cup
    [op : {"concurrency"}, key : Key, limit : Limits] \cup
    [op : {"config"}, key : Key, config : Wholes] \cup
    [op : {"reset"}, key : Key]

---------------------------------------------------------------------------
(* What a stored config means *)

(* Mutant: the defaults win. *)
WithDefaultsFirst(cfg, def) ==
    [cfg EXCEPT !.concurrency = IF def.concurrency = None THEN @ ELSE def.concurrency]

(* QueueRuntimeConfig::with_defaults *)
WithDefaults(cfg, def) ==
    [cfg EXCEPT !.concurrency = IF @ = None THEN def.concurrency ELSE @]

OrDefault(stored, def) == IF stored = None THEN def ELSE WithDefaults(stored, def)

(* QueueConcurrency::stored_runtime_default *)
StoredDefault == [concurrency |-> IF dynamic THEN Default ELSE None, state |-> "active"]

(* QueueConcurrency::effective_runtime_config *)
EffectiveOf(cfg) ==
    [cfg EXCEPT !.concurrency = IF ~dynamic \/ @ = None THEN Default ELSE @]

(* runtime_queue_config and what is applied of it, for a hash h read at once *)
RuntimeConfig(h, q) ==
    IF q = Base THEN OrDefault(h[Base], StoredDefault)
    ELSE OrDefault(h[Child], OrDefault(h[Base], StoredDefault))
Effective(h, q) == EffectiveOf(RuntimeConfig(h, q))

(* The dashboard: merge_queue_runtime_config, queue_runtime_config_from_map *)
Merge(cfg, def) == WithDefaults(IF dynamic THEN cfg ELSE [cfg EXCEPT !.concurrency = None], def)
FromMap(h, q) ==
    LET declared == [concurrency |-> Default, state |-> "active"]
        ofBase == IF h[Base] = None THEN declared ELSE Merge(h[Base], declared)
    IN  IF q = Base \/ h[Child] = None THEN ofBase ELSE Merge(h[Child], ofBase)

(* queue_concurrency_status_from_map: is the concurrency shown as an override? *)
ShownAsOverride(h, q) ==
    /\ dynamic
    /\ h[q] # None /\ h[q].concurrency # None
    /\ h[q].concurrency # (IF q = Base THEN Default ELSE FromMap(h, Base).concurrency)

---------------------------------------------------------------------------
ConfigTypeOK ==
    /\ dynamic \in BOOLEAN
    /\ configs \in [Key -> Stored \cup {None}]
    /\ apc \in [Admin -> {"idle", "default", "read", "write"}]
    /\ call \in [Admin -> Call \cup {None}]
    /\ fallback \in [Admin -> Nat]
    /\ seen \in [Admin -> Stored \cup {None}]
    /\ wpc \in {"undiscovered", "base", "own", "idle", "failed"}
    /\ base \in Stored
    /\ calls \in 0..MaxCalls /\ failures \in 0..MaxFailures
    /\ asked \in [Key -> Stored \cup {None}] /\ overtaken \in [Key -> BOOLEAN]
    /\ \A q \in Key : ~dynamic /\ configs[q] # None => configs[q].concurrency = None

ConfigInit ==
    /\ dynamic \in BOOLEAN
    /\ configs = [q \in Key |-> None]
    /\ apc = [a \in Admin |-> "idle"] /\ call = [a \in Admin |-> None]
    /\ fallback = [a \in Admin |-> Default] /\ seen = [a \in Admin |-> None]
    /\ wpc = "undiscovered" /\ base = Unset
    /\ calls = MaxCalls /\ failures = MaxFailures
    /\ asked = configs /\ overtaken = [q \in Key |-> FALSE]
    /\ Init /\ concurrency = Default /\ queue_state = "active"     \* until the control is created

---------------------------------------------------------------------------
(* Administrators *)

(* validate_dynamic_concurrency and validate_runtime_concurrency *)
Accepted(c) ==
    dynamic \/ ~(c.op = "concurrency" \/ (c.op = "config" /\ c.config.concurrency # None))

FirstStep(c) ==
    IF c.op = "concurrency" /\ c.key = Child THEN "default"
    ELSE IF c.op \in {"state", "concurrency"} THEN "read" ELSE "write"

Begin(a, c) ==
    /\ apc[a] = "idle" /\ calls > 0
    /\ Accepted(c)
    /\ call' = [call EXCEPT ![a] = c]
    /\ apc' = [apc EXCEPT ![a] = FirstStep(c)]
    /\ calls' = calls - 1
    /\ UNCHANGED <<vars, dynamic, configs, fallback, seen, watcher, failures, history>>

(* runtime_concurrency_reset_default of a child: the base's concurrency *)
ReadDefault(a) ==
    /\ apc[a] = "default"
    /\ fallback' = [fallback EXCEPT ![a] = EffectiveOf(OrDefault(configs[Base], StoredDefault)).concurrency]
    /\ apc' = [apc EXCEPT ![a] = "read"]
    /\ UNCHANGED <<vars, dynamic, configs, call, seen, watcher, calls, failures, history>>

Finish(a) ==
    /\ apc' = [apc EXCEPT ![a] = "idle"]
    /\ call' = [call EXCEPT ![a] = None]
    /\ fallback' = [fallback EXCEPT ![a] = Default]
    /\ seen' = [seen EXCEPT ![a] = None]

(* queue_config; set_queue_concurrency returns when there is nothing to undo *)
ReadConfig(a) ==
    /\ apc[a] = "read"
    /\ LET c == call[a]
           stored == configs[c.key]
       IN  IF c.op = "concurrency" /\ stored = None /\ c.limit = fallback[a]
           THEN Finish(a)
           ELSE /\ apc' = [apc EXCEPT ![a] = "write"]
                /\ seen' = [seen EXCEPT ![a] = stored]
                /\ UNCHANGED <<call, fallback>>
    /\ UNCHANGED <<vars, dynamic, configs, watcher, calls, failures, history>>

(* Mutant: set_queue_concurrency stores a fresh config. *)
ChangedFresh(c, stored, def) ==
    LET cfg == IF stored = None THEN Unset ELSE stored
    IN  CASE c.op = "state" -> [concurrency |-> IF dynamic THEN cfg.concurrency ELSE None, state |-> c.state]
          [] c.op = "concurrency" -> [Unset EXCEPT !.concurrency = IF c.limit = def THEN None ELSE c.limit]
          [] c.op = "config" -> c.config
          [] c.op = "reset" -> None

(* What a call leaves in the hash, from what it has read. *)
Changed(c, stored, def) ==
    LET cfg == IF stored = None THEN Unset ELSE stored
    IN  CASE c.op = "state" -> [concurrency |-> IF dynamic THEN cfg.concurrency ELSE None, state |-> c.state]
          [] c.op = "concurrency" -> [cfg EXCEPT !.concurrency = IF c.limit = def THEN None ELSE c.limit]
          [] c.op = "config" -> c.config
          [] c.op = "reset" -> None

(* The effect of a call on one field, whatever it has read: what the other *)
(* calls have asked for stays.                                             *)
Asked(c, stored, def) ==
    LET cfg == IF stored = None THEN Unset ELSE stored
    IN  CASE c.op = "state" -> [cfg EXCEPT !.state = c.state]
          [] c.op = "concurrency" -> [cfg EXCEPT !.concurrency = IF c.limit = def THEN None ELSE c.limit]
          [] c.op = "config" -> c.config
          [] c.op = "reset" -> None

(* hset or hdel *)
WriteConfig(a) ==
    /\ apc[a] = "write"
    /\ LET c == call[a]
           q == c.key
       IN  /\ configs' = [configs EXCEPT ![q] = Changed(c, seen[a], fallback[a])]
           /\ asked' = [asked EXCEPT ![q] = Asked(c, @, fallback[a])]
           /\ overtaken' = [overtaken EXCEPT ![q] =
                                c.op \in {"state", "concurrency"} /\ (@ \/ seen[a] # configs[q])]
    /\ Finish(a)
    /\ UNCHANGED <<vars, dynamic, watcher, calls, failures>>

---------------------------------------------------------------------------
(* run_queue_watcher and run_queue_config_watcher *)

(* The scan for keys of the prefix finds the child's list, or the interval *)
(* of the config watcher has ticked: the base is read first.               *)
ReadBase ==
    /\ wpc = "idle" \/ wpc = "undiscovered"
    /\ base' = OrDefault(configs[Base], StoredDefault)
    /\ wpc' = IF wpc = "undiscovered" THEN "base" ELSE "own"
    /\ UNCHANGED <<vars, dynamic, configs, admins, calls, failures, history>>

(* Mutant: a child without a config of its own does not look at its base. *)
ReadOwnFlat ==
    /\ wpc \in {"base", "own"}
    /\ ApplyConfig(EffectiveOf(OrDefault(configs[Child], StoredDefault)))
    /\ wpc' = "idle" /\ base' = Unset
    /\ UNCHANGED <<dynamic, configs, admins, calls, failures, history>>

(* The child's config is read, the control is created (get_or_create) or   *)
(* exists, and the config is applied to it.                                *)
ReadOwn ==
    /\ wpc \in {"base", "own"}
    /\ ApplyConfig(EffectiveOf(OrDefault(configs[Child], base)))
    /\ wpc' = "idle" /\ base' = Unset
    /\ UNCHANGED <<dynamic, configs, admins, calls, failures, history>>

(* A read fails: the config watcher skips the tick (track_redis_result),   *)
(* but on discovery the error ends the coordinator at once.                *)
WatchFails ==
    /\ wpc \in {"base", "own"} /\ failures > 0
    /\ failures' = failures - 1
    /\ wpc' = IF wpc = "base" THEN "failed" ELSE "idle"
    /\ base' = Unset
    /\ UNCHANGED <<vars, dynamic, configs, admins, calls, history>>

(* The dispatcher that calls acquire() is spawned after the control. *)
Tracked == wpc \in {"own", "idle"}

ControlStep ==
    /\ \/ Tracked /\ \E c \in Caller : Arm(c) \/ Acquire(c) \/ FindNoRoom(c) \/ Await(c) \/ Wake(c)
       \/ \E x \in Permit : Release(x) \/ SignalRelease(x)
       \/ SignalConfig
    /\ UNCHANGED configVars

Administer == \E a \in Admin : \/ \E c \in Call : Begin(a, c)
                               \/ ReadDefault(a) \/ ReadConfig(a) \/ WriteConfig(a)

ConfigNext == Administer \/ ReadBase \/ ReadOwn \/ WatchFails \/ ControlStep

ConfigSpec == ConfigInit /\ [][ConfigNext]_allVars

(* The watcher's interval ticks, its reads are answered, and QueueControl  *)
(* is scheduled as its own specification says.                             *)
ConfigLiveSpec ==
    /\ ConfigSpec
    /\ WF_allVars(ReadBase) /\ WF_allVars(ReadOwn)
    /\ \A a \in Admin : WF_allVars(ReadDefault(a) \/ ReadConfig(a) \/ WriteConfig(a))
    /\ \A c \in Caller :
         WF_allVars(Tracked /\ (Arm(c) \/ Acquire(c) \/ FindNoRoom(c) \/ Await(c) \/ Wake(c)) /\ UNCHANGED configVars)
    /\ \A x \in Permit : WF_allVars(SignalRelease(x) /\ UNCHANGED configVars)
    /\ WF_allVars(SignalConfig /\ UNCHANGED configVars)

---------------------------------------------------------------------------
(* Properties *)

(* The dashboard works out for itself what a queue runs with               *)
(* (queue_runtime_config_from_map), and agrees with the worker             *)
(* (runtime_queue_config, effective_runtime_config) on every stored        *)
(* config; it calls a concurrency an override only if removing the stored  *)
(* one would change it.                                                    *)
DashboardShowsEffective ==
    \A q \in Key :
        /\ FromMap(configs, q) = Effective(configs, q)
        /\ ShownAsOverride(configs, q) <=>
             Effective(configs, q).concurrency #
             Effective([configs EXCEPT ![q] = IF @ = None THEN @ ELSE [@ EXCEPT !.concurrency = None]], q).concurrency

(* set_queue_state and set_queue_concurrency read the config and write it  *)
(* back whole.  A change is lost only to a call that had read the config   *)
(* before the change was written: calls that do not overlap keep what the  *)
(* others asked for.                                                       *)
ChangeLostOnlyByOverlap == \A q \in Key : ~overtaken[q] => configs[q] = asked[q]

(* When the administrators are done the permit counter ends up with what   *)
(* the hash says, however their writes fell between the watcher's two      *)
(* reads.                                                                  *)
ConfigReachesQueue ==
    <>[](wpc = "failed" \/ [concurrency |-> concurrency, state |-> queue_state] = Effective(configs, Child))

=============================================================================
