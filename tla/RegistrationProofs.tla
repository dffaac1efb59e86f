------------------------- MODULE RegistrationProofs -------------------------
(***************************************************************************)
(* Proofs about Registration, for any set of workers, queues, names and    *)
(* arguments and any order of registrations.                               *)
(***************************************************************************)
EXTENDS Registration, SequenceTheorems, TLAPS

Registered == [config : WorkerConfig, via : {"worker", "worker_with"}]
Envelopes == [queue : Key, name : Name, args : Args, by : {"on_demand", "cron", "other"}]
Outcomes == [state : {"waiting", "taken", "killed", "unkilled", "ran"},
             worker : {r.worker : r \in WorkerConfig} \cup {None},
             args : Args \cup {None}]

(* The tables, the envelopes with what became of them, and the lists: an   *)
(* envelope in a list waits, and is in no other place of a list.           *)
TablesOK ==
    /\ jobs \in [Name -> WorkerConfig \cup {None}]
    /\ aliases \in [Name -> Name \cup {None}]
    /\ schedules \in [Name -> Key \cup {None}]
    /\ onDemand \subseteq Name
    /\ last \in [Name -> Registered \cup {None}]
EnvelopesOK ==
    /\ sent \in Seq(Envelopes)
    /\ outcome \in Seq(Outcomes)
    /\ Len(outcome) = Len(sent)
ListsOK ==
    /\ list \in [Key -> Seq(Nat)]
    /\ \A k \in Key : \A n \in 1..Len(list[k]) :
         list[k][n] \in 1..Len(sent) /\ outcome[list[k][n]].state = "waiting"
    /\ \A k, l \in Key : \A n \in 1..Len(list[k]), m \in 1..Len(list[l]) :
         list[k][n] = list[l][m] => k = l /\ n = m

(* The places b of the jobs built so far, in their order: the k-th job has *)
(* the arguments of the envelope at place b[k], and of these the ones      *)
(* before next are kept.                                                   *)
Places(t, b) ==
    /\ b \in Seq(1..Len(t.envelopes))
    /\ Len(b) = Len(t.jobs)
    /\ \A k, l \in 1..Len(b) : k < l => b[k] < b[l]
    /\ \A k \in 1..Len(b) : t.jobs[k] = sent[t.envelopes[b[k]]].args /\ b[k] \notin t.invalid
    /\ t.pc # "sort" =>
          /\ \A k \in 1..Len(b) : b[k] < t.next
          /\ \A n \in 1..(t.next - 1) : n \in t.invalid \/ \E k \in 1..Len(b) : b[k] = n
    /\ t.pc = "sort" =>
          /\ \A n \in 1..Len(t.envelopes) : n \in t.invalid \/ \E k \in 1..Len(b) : b[k] = n
          /\ Len(t.kept) <= Len(b)
          /\ \A k \in 1..Len(t.kept) : t.kept[k] = t.envelopes[b[k]]
          /\ \A k \in 1..Len(b) : b[k] < t.next <=> k <= Len(t.kept)

Batchers == queues \X Key \X Name
Tasks(B) == [batcher : B, pc : {"collect", "build", "sort"}, envelopes : Seq(Nat),
          permits : Seq(Nat), next : Nat \ {0}, jobs : Seq(Args), invalid : SUBSET Nat, kept : Seq(Nat),
          keptPermits : Seq(Nat)]
TaskTypeOK(t) ==
    /\ t \in Tasks(Batchers)
    /\ t.permits = t.envelopes /\ t.keptPermits = t.kept
    /\ t.next <= Len(t.envelopes) \/ (t.pc = "sort" /\ t.next = Len(t.envelopes) + 1)
    /\ t.pc = "collect" => t.next = 1
    /\ t.pc # "sort" => t.kept = <<>>
    /\ \A m \in t.invalid : m <= Len(t.envelopes)
    /\ Len(t.envelopes) > 0

(* The envelopes of a task have one name, and the invalid ones are known   *)
(* and no longer open once they are passed.                                *)
TaskEnvelopesOK(t) ==
    /\ \A n \in 1..Len(t.envelopes) :
         /\ t.envelopes[n] \in 1..Len(sent)
         /\ sent[t.envelopes[n]].name = t.batcher[3]
         /\ outcome[t.envelopes[n]].state # "waiting"
    /\ \A n \in 1..Len(t.envelopes) :
         n \in t.invalid <=> (n < t.next \/ t.pc = "sort") /\ ~Buildable(sent[t.envelopes[n]])
    /\ t.pc = "sort" =>
         \A n \in 1..Len(t.envelopes) :
            n < t.next /\ n \in t.invalid => outcome[t.envelopes[n]].state # "taken"

TaskOK(t) == TaskTypeOK(t) /\ TaskEnvelopesOK(t) /\ \E b : Places(t, b)
TasksOK == \A t \in tasks : TaskOK(t)

(* Nothing is sent, and nobody serves a queue, before run(): what decides  *)
(* over an envelope is the registry as it is for the rest of the process.  *)
NotBeforeRun == phase = "setup" => sent = <<>> /\ dispatchers = {} /\ tasks = {}

(* RunAsSent, of one envelope. *)
Decided(i) ==
    /\ outcome[i].state = "ran" =>
           /\ Buildable(sent[i])
           /\ outcome[i].worker = FactoriesFor(sent[i].name).worker
           /\ outcome[i].args = sent[i].args
    /\ outcome[i].state \in {"killed", "unkilled"} => ~Buildable(sent[i])
    /\ outcome[i].state = "taken" => \E t \in tasks : \E n \in DOMAIN t.envelopes : t.envelopes[n] = i
AllDecided == \A i \in DOMAIN sent : Decided(i)

RegistrationInv ==
    /\ TablesOK /\ EnvelopesOK /\ ListsOK /\ TasksOK
    /\ NotBeforeRun /\ RegistryConsistent /\ AllDecided

---------------------------------------------------------------------------
(* RegistryConsistent, in its three parts *)

LastWins ==
    \A n \in Name :
        LET c == last[n].config IN
        IF last[n] = None
        THEN jobs[n] = None /\ schedules[n] = None /\ n \notin onDemand
        ELSE jobs[n] = c /\ schedules[n] = c.cron /\ (n \in onDemand <=> c.onDemand)
AliasesLead == \A n \in Name : aliases[n] /= None => jobs[n] = None /\ jobs[aliases[n]] /= None
QueuesKept == explicit \subseteq queues /\ \A c, d \in queues : SameQueue(c, d) => c = d

LEMMA ConsistentParts == RegistryConsistent <=> LastWins /\ AliasesLead /\ QueuesKept
BY DEF RegistryConsistent, LastWins, AliasesLead, QueuesKept

LEMMA ConsistentPartsNext == RegistryConsistent' <=> LastWins' /\ AliasesLead' /\ QueuesKept'
BY DEF RegistryConsistent, LastWins, AliasesLead, QueuesKept

(* A worker takes its name over, with everything the tables say of it. *)
LEMMA WorkerTakesName ==
    ASSUME TablesOK, LastWins, AliasesLead, NEW r \in WorkerConfig, NEW via \in {"worker", "worker_with"},
           RegisterWorkerWith(r, via)
    PROVE  TablesOK' /\ LastWins' /\ AliasesLead'
<1>0. /\ r.name \in Name /\ r.legacy \subseteq Name /\ r.cron \in Key \cup {None} /\ r.onDemand \in BOOLEAN
      /\ r # None
  BY WorkersAssumption
<1> DEFINE entry == [config |-> r, via |-> via]
           js == [jobs EXCEPT ![r.name] = r]
           as == [aliases EXCEPT ![r.name] = None]
<1>1. entry \in Registered /\ entry # None /\ entry.config = r
  BY WorkersAssumption DEF Registered
<1>2. /\ jobs' = js /\ schedules' = [schedules EXCEPT ![r.name] = r.cron]
      /\ last' = [last EXCEPT ![r.name] = entry]
      /\ onDemand' = IF r.onDemand THEN onDemand \cup {r.name} ELSE onDemand \ {r.name}
      /\ aliases' = WithAliases(js, as, r.name, r.legacy)
  BY DEF RegisterWorkerWith
<1> HIDE DEF entry
<1>3. as \in [Name -> Name \cup {None}]
  BY <1>0 DEF TablesOK
<1>4. TablesOK'
  <2>1. aliases' \in [Name -> Name \cup {None}]
    BY <1>0, <1>2, <1>3 DEF WithAliases
  <2> QED
    BY <1>0, <1>1, <1>2, <2>1 DEF TablesOK
<1>5. LastWins'
  <2> SUFFICES ASSUME NEW n \in Name
               PROVE  LET c == last'[n].config IN
                      IF last'[n] = None
                      THEN jobs'[n] = None /\ schedules'[n] = None /\ n \notin onDemand'
                      ELSE jobs'[n] = c /\ schedules'[n] = c.cron /\ (n \in onDemand' <=> c.onDemand)
    BY DEF LastWins
  <2>1. CASE n = r.name
    BY <1>0, <1>1, <1>2, <2>1 DEF TablesOK
  <2>2. CASE n # r.name
    <3>1. /\ jobs'[n] = jobs[n] /\ schedules'[n] = schedules[n] /\ last'[n] = last[n]
          /\ (n \in onDemand' <=> n \in onDemand)
      BY <1>0, <1>2, <2>2 DEF TablesOK
    <3> QED
      BY <3>1 DEF LastWins
  <2> QED
    BY <2>1, <2>2
<1>6. AliasesLead'
  <2> SUFFICES ASSUME NEW n \in Name, aliases'[n] /= None
               PROVE  jobs'[n] = None /\ jobs'[aliases'[n]] /= None
    BY DEF AliasesLead
  <2>1. CASE as[n] # None
    <3>1. n # r.name /\ aliases[n] = as[n] /\ aliases[n] \in Name
      BY <1>0, <2>1 DEF TablesOK
    <3>2. jobs[n] = None /\ jobs[aliases[n]] # None
      BY <2>1, <3>1 DEF AliasesLead
    <3>3. aliases'[n] = aliases[n]
      BY <1>0, <1>2, <1>3, <2>1, <3>1 DEF WithAliases
    <3> QED
      BY <1>0, <1>2, <3>1, <3>2, <3>3 DEF TablesOK
  <2>2. CASE as[n] = None
    <3>1. n \in r.legacy /\ n # r.name /\ js[n] = None /\ aliases'[n] = r.name
      BY <1>0, <1>2, <1>3, <2>2 DEF WithAliases
    <3> QED
      BY <1>0, <1>2, <3>1 DEF TablesOK
  <2> QED
    BY <2>1, <2>2
<1> QED
  BY <1>4, <1>5, <1>6

LEMMA QueueReplaced ==
    ASSUME QueuesKept, NEW c
    PROVE  /\ Replace(explicit, c) \subseteq Replace(queues, c)
           /\ \A d, e \in Replace(queues, c) : SameQueue(d, e) => d = e
BY DEF QueuesKept, Replace, SameQueue

LEMMA QueueAdded ==
    ASSUME QueuesKept, NEW key
    PROVE  /\ explicit \subseteq WithDefaultQueue(queues, key)
           /\ \A d, e \in WithDefaultQueue(queues, key) : SameQueue(d, e) => d = e
BY DEF QueuesKept, WithDefaultQueue, SameQueue

---------------------------------------------------------------------------
(* Setup *)

LEMMA RegisterKeeps ==
    ASSUME RegistrationInv, Register \/ Run
    PROVE  RegistrationInv'
<1>0. TablesOK /\ EnvelopesOK /\ ListsOK /\ NotBeforeRun /\ LastWins /\ AliasesLead /\ QueuesKept
  BY ConsistentParts DEF RegistrationInv
<1>1. /\ phase = "setup" /\ UNCHANGED running
      /\ sent = <<>> /\ dispatchers = {} /\ tasks = {}
  BY <1>0 DEF Register, RegisterQueue, Worker, WorkerWith, Run, Setup, NotBeforeRun
<1>2. EnvelopesOK' /\ ListsOK' /\ TasksOK' /\ NotBeforeRun' /\ AllDecided'
  <2>1. UNCHANGED <<sent, outcome, dispatchers, list, tasks>>
    BY <1>1 DEF running
  <2>2. DOMAIN sent' = {}
    BY <1>1, <2>1
  <2>3. AllDecided' /\ TasksOK'
    BY <1>1, <2>1, <2>2 DEF AllDecided, TasksOK
  <2> QED
    BY <1>0, <1>1, <2>1, <2>3 DEF EnvelopesOK, ListsOK, NotBeforeRun
<1>3. TablesOK' /\ LastWins' /\ AliasesLead' /\ QueuesKept'
  <2>1. ASSUME NEW c \in QueueConfig, RegisterQueue(c) PROVE TablesOK' /\ LastWins' /\ AliasesLead' /\ QueuesKept'
    <3>1. QueuesKept'
      BY <1>0, <2>1, QueueReplaced DEF RegisterQueue, QueuesKept
    <3>2. TablesOK' /\ LastWins' /\ AliasesLead'
      BY <1>0, <2>1 DEF RegisterQueue, registry, TablesOK, LastWins, AliasesLead
    <3> QED
      BY <3>1, <3>2
  <2>2. ASSUME NEW r \in WorkerConfig, Worker(r) PROVE TablesOK' /\ LastWins' /\ AliasesLead' /\ QueuesKept'
    <3>1. QueuesKept'
      <4>1. CASE r.cron = None
        BY <1>0, <2>2, <4>1 DEF Worker, QueuesKept
      <4>2. CASE r.cron # None
        BY <1>0, <2>2, <4>2, QueueAdded DEF Worker, QueuesKept
      <4> QED
        BY <4>1, <4>2
    <3> QED
      BY <1>0, <2>2, <3>1, WorkerTakesName DEF Worker
  <2>3. ASSUME NEW r \in WorkerConfig, WorkerWith(r) PROVE TablesOK' /\ LastWins' /\ AliasesLead' /\ QueuesKept'
    <3>1. QueuesKept'
      BY <1>0, <2>3 DEF WorkerWith, QueuesKept
    <3> QED
      BY <1>0, <2>3, <3>1, WorkerTakesName DEF WorkerWith
  <2>4. CASE Run
    BY <1>0, <2>4 DEF Run, registry, TablesOK, LastWins, AliasesLead, QueuesKept
  <2> QED
    BY <2>1, <2>2, <2>3, <2>4 DEF Register
<1> QED
  BY <1>2, <1>3, ConsistentPartsNext DEF RegistrationInv

---------------------------------------------------------------------------
(* The running process: the registry does not change any more. *)

Frozen == UNCHANGED <<phase, registry, queues, last, explicit>>

LEMMA FrozenKeeps ==
    ASSUME RegistrationInv, Frozen
    PROVE  /\ TablesOK' /\ RegistryConsistent'
           /\ \A e : Buildable(e)' <=> Buildable(e)
           /\ \A n : FactoriesFor(n)' = FactoriesFor(n)
<1>1. TablesOK' /\ RegistryConsistent'
  BY DEF RegistrationInv, Frozen, registry, TablesOK, RegistryConsistent
<1>2. \A n : FactoriesFor(n)' = FactoriesFor(n)
  BY DEF Frozen, registry, FactoriesFor, Resolve
<1>3. \A e : Buildable(e)' <=> Buildable(e)
  BY <1>2 DEF Buildable
<1> QED
  BY <1>1, <1>2, <1>3

(* What a task knows of its envelopes survives the steps of others: new    *)
(* envelopes are appended, and what is decided is not opened again.        *)
SentKept == Len(sent') \in Nat /\ Len(sent') >= Len(sent) /\ \A i \in 1..Len(sent) : sent'[i] = sent[i]
NotReopened ==
    \A i \in 1..Len(sent) :
        \/ outcome'[i] = outcome[i]
        \/ outcome'[i].state \notin {"waiting", "taken"}
        \/ outcome[i].state = "waiting" /\ outcome'[i].state # "waiting"

LEMMA TaskStays ==
    ASSUME EnvelopesOK, Frozen, SentKept, NotReopened, NEW t, TaskOK(t)
    PROVE  TaskOK(t)'
<1>0. Len(sent) \in Nat /\ TaskTypeOK(t) /\ TaskEnvelopesOK(t)
  BY DEF EnvelopesOK, TaskOK
<1>1. PICK b : Places(t, b)
  BY DEF TaskOK
<1>3. TaskTypeOK(t)'
  BY <1>0 DEF TaskTypeOK, Batchers, Frozen
<1>4. /\ Len(t.envelopes) \in Nat /\ t.next \in Nat
      /\ \A n \in 1..Len(t.envelopes) : t.envelopes[n] \in 1..Len(sent) /\ sent'[t.envelopes[n]] = sent[t.envelopes[n]]
  <2>1. t.envelopes \in Seq(Nat) /\ t.next \in Nat
    BY <1>0 DEF TaskTypeOK, Tasks
  <2>2. \A n \in 1..Len(t.envelopes) : t.envelopes[n] \in 1..Len(sent)
    BY <1>0 DEF TaskEnvelopesOK
  <2> QED
    BY <2>1, <2>2 DEF SentKept
<1>5. Places(t, b)'
  <2>1. \A k \in 1..Len(b) : b[k] \in 1..Len(t.envelopes)
    BY <1>1 DEF Places
  <2> QED
    BY <1>1, <1>4, <2>1 DEF Places
<1>6. TaskEnvelopesOK(t)'
  <2>1. ASSUME NEW n \in 1..Len(t.envelopes)
        PROVE  /\ t.envelopes[n] \in 1..Len(sent')
               /\ sent'[t.envelopes[n]].name = t.batcher[3]
               /\ outcome'[t.envelopes[n]].state # "waiting"
               /\ n \in t.invalid <=> (n < t.next \/ t.pc = "sort") /\ ~Buildable(sent[t.envelopes[n]])'
               /\ t.pc = "sort" /\ n < t.next /\ n \in t.invalid => outcome'[t.envelopes[n]].state # "taken"
    <3> DEFINE i == t.envelopes[n]
    <3>1. i \in 1..Len(sent) /\ sent'[i] = sent[i] /\ outcome[i].state # "waiting"
      BY <1>0, <1>4 DEF TaskEnvelopesOK
    <3>2. outcome'[i] = outcome[i] \/ outcome'[i].state \notin {"waiting", "taken"}
      BY <3>1 DEF NotReopened
    <3>3. i \in 1..Len(sent')
      <4>1. Len(sent') \in Nat /\ Len(sent') >= Len(sent) /\ Len(sent) \in Nat /\ i \in Nat /\ i >= 1 /\ i <= Len(sent)
        BY <1>0, <3>1 DEF SentKept
      <4> QED
        BY <4>1
    <3>4. Buildable(sent[i])' <=> Buildable(sent[i])
      BY <3>1 DEF Frozen, registry, Buildable, Deserializes, FactoriesFor, Resolve
    <3>5. /\ sent[i].name = t.batcher[3]
          /\ n \in t.invalid <=> (n < t.next \/ t.pc = "sort") /\ ~Buildable(sent[i])
          /\ t.pc = "sort" /\ n < t.next /\ n \in t.invalid => outcome[i].state # "taken"
      BY <1>0 DEF TaskEnvelopesOK
    <3> HIDE DEF i
    <3>6. i = t.envelopes[n]
      BY DEF i
    <3> QED
      BY <3>1, <3>2, <3>3, <3>4, <3>5, <3>6
  <2> QED
    BY <2>1 DEF TaskEnvelopesOK
<1> QED
  BY <1>3, <1>5, <1>6 DEF TaskOK

(* Envelopes in lists are left alone by the steps of tasks. *)
LEMMA ListsStay ==
    ASSUME ListsOK, UNCHANGED <<list, sent>>,
           \A i \in 1..Len(sent) : outcome[i].state = "waiting" => outcome'[i] = outcome[i]
    PROVE  ListsOK'
BY DEF ListsOK

LEMMA DecidedStays ==
    ASSUME Frozen, NEW i, Decided(i), sent'[i] = sent[i], outcome'[i] = outcome[i],
           \A t \in tasks : \A n \in DOMAIN t.envelopes :
              \E u \in tasks' : \E m \in DOMAIN u.envelopes : u.envelopes[m] = t.envelopes[n]
    PROVE  Decided(i)'
<1>1. Buildable(sent[i])' <=> Buildable(sent[i])
  BY DEF Frozen, registry, Buildable, Deserializes, FactoriesFor, Resolve
<1>2. FactoriesFor(sent[i].name)' = FactoriesFor(sent[i].name)
  BY DEF Frozen, registry, FactoriesFor, Resolve
<1> QED
  BY <1>1, <1>2 DEF Decided

(* A task that goes on with the same envelopes, of which it may have       *)
(* decided one that cannot be built.                                       *)
KillsOnly ==
    \A i \in 1..Len(sent) :
        \/ outcome'[i] = outcome[i]
        \/ /\ outcome[i].state # "waiting"
           /\ outcome'[i].state \in {"killed", "unkilled"}
           /\ ~Buildable(sent[i])

LEMMA TaskGoesOn ==
    ASSUME RegistrationInv, Frozen, UNCHANGED <<sent, list, dispatchers>>, KillsOnly, EnvelopesOK',
           NEW t \in tasks, NEW u, tasks' = (tasks \ {t}) \cup {u}, u.envelopes = t.envelopes, TaskOK(u)'
    PROVE  RegistrationInv'
<1>0. EnvelopesOK /\ ListsOK /\ TasksOK /\ NotBeforeRun /\ AllDecided /\ Len(sent) \in Nat /\ DOMAIN sent = 1..Len(sent)
  BY DEF RegistrationInv, EnvelopesOK
<1>1. SentKept /\ NotReopened
  BY <1>0 DEF SentKept, NotReopened, KillsOnly
<1>2. TasksOK'
  <2>1. ASSUME NEW v \in tasks PROVE TaskOK(v)'
    BY <1>0, <1>1, TaskStays DEF TasksOK
  <2> QED
    BY <2>1 DEF TasksOK
<1>3. ListsOK'
  <2>1. \A i \in 1..Len(sent) : outcome[i].state = "waiting" => outcome'[i] = outcome[i]
    BY DEF KillsOnly
  <2> QED
    BY <1>0, <2>1, ListsStay
<1>4. AllDecided'
  <2>1. \A v \in tasks : \A n \in DOMAIN v.envelopes :
              \E w \in tasks' : \E m \in DOMAIN w.envelopes : w.envelopes[m] = v.envelopes[n]
    OBVIOUS
  <2> SUFFICES ASSUME NEW i \in 1..Len(sent) PROVE Decided(i)'
    BY <1>0 DEF AllDecided
  <2>2. Decided(i)
    BY <1>0 DEF AllDecided
  <2>3. CASE outcome'[i] = outcome[i]
    BY <2>1, <2>2, <2>3, DecidedStays
  <2>4. CASE outcome'[i].state \in {"killed", "unkilled"} /\ ~Buildable(sent[i])
    <3>1. ~Buildable(sent[i])'
      BY <2>4 DEF Frozen, registry, Buildable, Deserializes, FactoriesFor, Resolve
    <3> QED
      BY <2>4, <3>1 DEF Decided
  <2> QED
    BY <2>3, <2>4 DEF KillsOnly
<1>5. NotBeforeRun'
  <2>1. phase # "setup" /\ phase' = phase
    BY <1>0 DEF NotBeforeRun, Frozen
  <2> QED
    BY <2>1 DEF NotBeforeRun
<1> QED
  BY <1>2, <1>3, <1>4, <1>5, FrozenKeeps DEF RegistrationInv

LEMMA EnqueueKeeps ==
    ASSUME RegistrationInv, Form
    PROVE  RegistrationInv'
<1>0. TablesOK /\ EnvelopesOK /\ ListsOK /\ TasksOK /\ AllDecided
  BY DEF RegistrationInv
<1>1. PICK e \in Envelopes : Enqueue(e)
  <2>1. ASSUME NEW key \in Key, NEW name \in Name, NEW args \in Args,
               EnqueueOnDemandJob(key, name, args) \/ EnqueueJob(key, name, args)
        PROVE  \E e \in Envelopes : Enqueue(e)
    BY <2>1 DEF EnqueueOnDemandJob, OnDemandEnvelope, EnqueueJob, Envelope, Envelopes
  <2>2. ASSUME NEW name \in Name, EnqueueCronJob(name) PROVE \E e \in Envelopes : Enqueue(e)
    <3>1. schedules[name] \in Key /\ Empty \in Args
      BY <1>0, <2>2, KeysAssumption DEF EnqueueCronJob, TablesOK
    <3> QED
      BY <2>2, <3>1 DEF EnqueueCronJob, Envelope, Envelopes
  <2> QED
    BY <2>1, <2>2 DEF Form
<1> DEFINE new == Outcome("waiting", None, None)
<1>2. /\ Frozen /\ phase = "running" /\ UNCHANGED <<tasks, dispatchers>>
      /\ sent' = Append(sent, e) /\ outcome' = Append(outcome, new)
      /\ list' = [list EXCEPT ![e.queue] = Append(@, Len(sent) + 1)]
  BY <1>1 DEF Enqueue, Frozen
<1>3. new \in Outcomes /\ new.state = "waiting" /\ e.queue \in Key
  BY DEF Outcome, Outcomes, Envelopes
<1> HIDE DEF new
<1>4. /\ sent \in Seq(Envelopes) /\ outcome \in Seq(Outcomes) /\ Len(outcome) = Len(sent) /\ Len(sent) \in Nat
      /\ DOMAIN sent = 1..Len(sent)
  BY <1>0 DEF EnvelopesOK
<1>5. /\ sent' \in Seq(Envelopes) /\ Len(sent') = Len(sent) + 1 /\ \A i \in 1..Len(sent) : sent'[i] = sent[i]
      /\ DOMAIN sent' = 1..(Len(sent) + 1)
  BY <1>2, <1>4
<1>6. /\ outcome' \in Seq(Outcomes) /\ Len(outcome') = Len(sent) + 1 /\ outcome'[Len(sent) + 1] = new
      /\ \A i \in 1..Len(sent) : outcome'[i] = outcome[i]
  BY <1>2, <1>3, <1>4
<1>7. EnvelopesOK'
  BY <1>5, <1>6 DEF EnvelopesOK
<1>8. TasksOK'
  <2>1. SentKept /\ NotReopened
    BY <1>4, <1>5, <1>6 DEF SentKept, NotReopened
  <2> QED
    BY <1>0, <1>2, <2>1, TaskStays DEF TasksOK
<1>9. AllDecided'
  <2> SUFFICES ASSUME NEW i \in 1..(Len(sent) + 1) PROVE Decided(i)'
    BY <1>5 DEF AllDecided
  <2>1. CASE i = Len(sent) + 1
    BY <1>3, <1>6, <2>1 DEF Decided
  <2>2. CASE i # Len(sent) + 1
    <3>1. i \in 1..Len(sent)
      BY <1>4, <2>2
    <3>2. Decided(i) /\ sent'[i] = sent[i] /\ outcome'[i] = outcome[i]
      BY <1>0, <1>4, <1>5, <1>6, <3>1 DEF AllDecided
    <3> QED
      BY <1>2, <3>2, DecidedStays
  <2> QED
    BY <2>1, <2>2
<1>10. ListsOK'
  <2> DEFINE q == e.queue
             N == Len(sent) + 1
  <2>1. list \in [Key -> Seq(Nat)] /\ q \in Key /\ N \in Nat
    BY <1>0, <1>3, <1>4 DEF ListsOK
  <2>2. list' = [list EXCEPT ![q] = Append(list[q], N)]
    BY <1>2
  <2> HIDE DEF q, N
  <2>3. list' \in [Key -> Seq(Nat)]
    BY <2>1, <2>2
  <2>4. ASSUME NEW k \in Key, NEW n \in 1..Len(list'[k])
        PROVE  \/ n \in 1..Len(list[k]) /\ list'[k][n] = list[k][n]
               \/ k = q /\ n = Len(list[q]) + 1 /\ list'[k][n] = N
    <3>1. list[k] \in Seq(Nat)
      BY <2>1
    <3> QED
      BY <2>1, <2>2, <3>1
  <2>5. ASSUME NEW k \in Key, NEW n \in 1..Len(list[k]) PROVE list[k][n] \in 1..Len(sent) /\ list[k][n] # N
    <3>1. list[k][n] \in 1..Len(sent)
      BY <1>0 DEF ListsOK
    <3> QED
      BY <1>4, <3>1 DEF N
  <2>6. ASSUME NEW k \in Key, NEW n \in 1..Len(list'[k])
        PROVE  list'[k][n] \in 1..Len(sent') /\ outcome'[list'[k][n]].state = "waiting"
    <3>1. CASE n \in 1..Len(list[k]) /\ list'[k][n] = list[k][n]
      <4>1. list[k][n] \in 1..Len(sent) /\ outcome[list[k][n]].state = "waiting"
        BY <1>0, <3>1 DEF ListsOK
      <4>2. list[k][n] \in 1..Len(sent')
        BY <1>4, <1>5, <4>1
      <4> QED
        BY <1>6, <3>1, <4>1, <4>2
    <3>2. CASE list'[k][n] = N
      <4>1. N \in 1..Len(sent')
        BY <1>4, <1>5 DEF N
      <4>2. outcome'[N] = new
        BY <1>6 DEF N
      <4> QED
        BY <1>3, <3>2, <4>1, <4>2
    <3> QED
      BY <2>4, <3>1, <3>2
  <2>7. ASSUME NEW k \in Key, NEW l \in Key, NEW n \in 1..Len(list'[k]), NEW m \in 1..Len(list'[l]),
               list'[k][n] = list'[l][m]
        PROVE  k = l /\ n = m
    <3>1. CASE list'[k][n] = N
      <4>1. list'[l][m] = N
        BY <2>7, <3>1
      <4>2. k = q /\ n = Len(list[q]) + 1
        BY <2>4, <2>5, <3>1
      <4>3. l = q /\ m = Len(list[q]) + 1
        BY <2>4, <2>5, <4>1
      <4> QED
        BY <4>2, <4>3
    <3>2. CASE list'[k][n] # N
      <4>1. n \in 1..Len(list[k]) /\ list'[k][n] = list[k][n]
        BY <2>4, <3>2
      <4>2. m \in 1..Len(list[l]) /\ list'[l][m] = list[l][m]
        BY <2>4, <2>7, <3>2
      <4>3. list[k][n] = list[l][m]
        BY <2>7, <4>1, <4>2
      <4>4. \A kk, ll \in Key : \A nn \in 1..Len(list[kk]), mm \in 1..Len(list[ll]) :
               list[kk][nn] = list[ll][mm] => kk = ll /\ nn = mm
        BY <1>0 DEF ListsOK
      <4> QED
        BY <4>1, <4>2, <4>3, <4>4
    <3> QED
      BY <3>1, <3>2
  <2> QED
    BY <2>3, <2>6, <2>7 DEF ListsOK
<1> QED
  BY <1>2, <1>7, <1>8, <1>9, <1>10, FrozenKeeps DEF RegistrationInv, NotBeforeRun, Frozen

---------------------------------------------------------------------------
(* The steps of a task *)

LEMMA Appended ==
    ASSUME NEW S, NEW s \in Seq(S), NEW e \in S
    PROVE  /\ Append(s, e) \in Seq(S) /\ Len(Append(s, e)) = Len(s) + 1 /\ Append(s, e)[Len(s) + 1] = e
           /\ \A k \in 1..Len(s) : Append(s, e)[k] = s[k]
OBVIOUS

LEMMA TaskEdits ==
    ASSUME NEW B, NEW t \in Tasks(B)
    PROVE  /\ [t EXCEPT !.next = @ + 1] \in Tasks(B)
           /\ [t EXCEPT !.pc = "sort", !.next = 1] \in Tasks(B)
           /\ \A i, j \in Nat : [t EXCEPT !.next = @ + 1, !.kept = Append(@, i), !.keptPermits = Append(@, j)] \in Tasks(B)
           /\ \A i, j \in Nat : [t EXCEPT !.envelopes = Append(@, i), !.permits = Append(@, j)] \in Tasks(B)
<1>1. /\ t.next + 1 \in Nat \ {0} /\ 1 \in Nat \ {0} /\ t.kept \in Seq(Nat) /\ t.keptPermits \in Seq(Nat)
      /\ t.envelopes \in Seq(Nat) /\ t.permits \in Seq(Nat)
  BY DEF Tasks
<1>2. /\ [t EXCEPT !.next = t.next + 1] \in Tasks(B)
      /\ [t EXCEPT !.pc = "sort", !.next = 1] \in Tasks(B)
  BY <1>1 DEF Tasks
<1>3. ASSUME NEW i \in Nat, NEW j \in Nat
      PROVE  /\ [t EXCEPT !.next = t.next + 1, !.kept = Append(t.kept, i), !.keptPermits = Append(t.keptPermits, j)] \in Tasks(B)
             /\ [t EXCEPT !.envelopes = Append(t.envelopes, i), !.permits = Append(t.permits, j)] \in Tasks(B)
  <2>1. /\ Append(t.kept, i) \in Seq(Nat) /\ Append(t.keptPermits, j) \in Seq(Nat)
        /\ Append(t.envelopes, i) \in Seq(Nat) /\ Append(t.permits, j) \in Seq(Nat)
    BY <1>1
  <2> QED
    BY <1>1, <2>1 DEF Tasks
<1> QED
  BY <1>2, <1>3

LEMMA TaskFacts ==
    ASSUME RegistrationInv, NEW t \in tasks
    PROVE  /\ TaskOK(t) /\ TaskTypeOK(t) /\ TaskEnvelopesOK(t) /\ EnvelopesOK
           /\ Len(sent) \in Nat /\ Len(t.envelopes) \in Nat
BY DEF RegistrationInv, TasksOK, TaskOK, EnvelopesOK, TaskTypeOK, Tasks

(* The factories of the first envelope are those of each. *)
LEMMA OneFactory ==
    ASSUME RegistrationInv, NEW t \in tasks, NEW n \in 1..Len(t.envelopes)
    PROVE  /\ TaskFactories(t) = FactoriesFor(sent[t.envelopes[n]].name)
           /\ t.envelopes[n] \in 1..Len(sent)
<1>1. t.envelopes \in Seq(Nat) /\ Len(t.envelopes) > 0
  BY TaskFacts DEF TaskTypeOK, Tasks
<1>2. Head(t.envelopes) = t.envelopes[1] /\ 1 \in 1..Len(t.envelopes)
  BY <1>1
<1>3. sent[t.envelopes[1]].name = sent[t.envelopes[n]].name /\ t.envelopes[n] \in 1..Len(sent)
  BY <1>2, TaskFacts DEF TaskEnvelopesOK
<1> QED
  BY <1>2, <1>3 DEF TaskFactories

(* A step that decides nothing: it is enough that the task is as it should *)
(* be in the state before the step.                                        *)
LEMMA QuietStep ==
    ASSUME RegistrationInv, NEW t \in tasks, NEW u, tasks' = (tasks \ {t}) \cup {u}, u.envelopes = t.envelopes,
           TaskOK(u), Running, UNCHANGED <<list, outcome, faults>>
    PROVE  RegistrationInv'
<1>1. Frozen /\ UNCHANGED <<sent, list, dispatchers, outcome>> /\ EnvelopesOK /\ Len(sent) \in Nat
  BY TaskFacts DEF Running, Frozen
<1>2. SentKept /\ NotReopened /\ KillsOnly /\ EnvelopesOK'
  BY <1>1 DEF SentKept, NotReopened, KillsOnly, EnvelopesOK
<1>3. TaskOK(u)'
  BY <1>1, <1>2, TaskStays
<1> QED
  BY <1>1, <1>2, <1>3, TaskGoesOn

LEMMA SpawnBatchKeeps ==
    ASSUME RegistrationInv, NEW t \in tasks, SpawnBatch(t)
    PROVE  RegistrationInv'
<1> DEFINE u == [t EXCEPT !.pc = "build"]
<1>1. TaskTypeOK(t) /\ TaskEnvelopesOK(t) /\ t.pc = "collect"
  BY TaskFacts DEF SpawnBatch
<1>2. PICK b : Places(t, b)
  BY TaskFacts DEF TaskOK
<1>3. /\ u.envelopes = t.envelopes /\ u.jobs = t.jobs /\ u.next = t.next /\ u.invalid = t.invalid /\ u.kept = t.kept
      /\ u.batcher = t.batcher /\ u.pc = "build"
  BY <1>1 DEF TaskTypeOK, Tasks
<1>4. TaskTypeOK(u)
  BY <1>1 DEF TaskTypeOK, Tasks
<1> HIDE DEF u
<1>5. TaskEnvelopesOK(u)
  BY <1>1, <1>3 DEF TaskEnvelopesOK
<1>6. Places(u, b)
  BY <1>1, <1>2, <1>3 DEF Places
<1>7. TaskOK(u)
  BY <1>4, <1>5, <1>6 DEF TaskOK
<1>8. tasks' = (tasks \ {t}) \cup {u} /\ Running /\ UNCHANGED <<list, outcome, faults>>
  BY DEF SpawnBatch, u
<1> QED
  BY <1>3, <1>7, <1>8, QuietStep

LEMMA BuildNextKeeps ==
    ASSUME RegistrationInv, NEW t \in tasks, BuildNext(t)
    PROVE  RegistrationInv'
<1> DEFINE n == t.next
           L == Len(t.envelopes)
           i == t.envelopes[n]
           a == sent[i].args
           u == IF BuildsNext(t) THEN [Turned(t) EXCEPT !.jobs = Append(@, a)]
                ELSE [Turned(t) EXCEPT !.invalid = @ \cup {n}]
<1>0. tasks' = (tasks \ {t}) \cup {u} /\ Running /\ UNCHANGED <<list, outcome, faults>> /\ t.pc = "build"
  BY DEF BuildNext
<1>1. /\ TaskTypeOK(t) /\ TaskEnvelopesOK(t) /\ L \in Nat /\ n \in 1..L /\ n \in Nat
      /\ t.jobs \in Seq(Args) /\ t.invalid \subseteq Nat /\ t.kept = <<>> /\ Len(t.kept) = 0
  BY <1>0, TaskFacts DEF TaskTypeOK, Tasks
<1>2. PICK b : Places(t, b)
  BY TaskFacts DEF TaskOK
<1>3. i \in 1..Len(sent) /\ a \in Args
  <2>1. i \in 1..Len(sent)
    BY <1>1, OneFactory
  <2>2. sent[i] \in Envelopes
    BY <2>1, TaskFacts, ElementOfSeq DEF EnvelopesOK
  <2> QED
    BY <2>1, <2>2 DEF Envelopes
<1>4. BuildsNext(t) <=> Buildable(sent[i])
  BY <1>1, OneFactory DEF BuildsNext, Buildable
<1>5. /\ u.envelopes = t.envelopes /\ u.permits = t.permits /\ u.kept = t.kept /\ u.keptPermits = t.keptPermits
      /\ u.batcher = t.batcher
      /\ u.jobs = IF BuildsNext(t) THEN Append(t.jobs, a) ELSE t.jobs
      /\ u.invalid = IF BuildsNext(t) THEN t.invalid ELSE t.invalid \cup {n}
      /\ n = L => u.pc = "sort" /\ u.next = 1
      /\ n # L => u.pc = "build" /\ u.next = n + 1
  BY <1>0, <1>1 DEF TaskTypeOK, Tasks, Turned
<1>6. TaskTypeOK(u)
  <2>1. u \in Tasks(Batchers)
    <3>1. t \in Tasks(Batchers) /\ n \in Nat \ {0} /\ n + 1 \in Nat \ {0}
      BY <1>1 DEF TaskTypeOK
    <3>2. Turned(t) \in Tasks(Batchers)
      <4>1. [t EXCEPT !.pc = "sort", !.next = 1] \in Tasks(Batchers)
        BY <3>1, TaskEdits
      <4>2. [t EXCEPT !.next = @ + 1] \in Tasks(Batchers)
        BY <3>1, TaskEdits
      <4> QED
        BY <4>1, <4>2 DEF Turned
    <3>3. Turned(t).jobs \in Seq(Args) /\ Turned(t).invalid \in SUBSET Nat
      BY <3>2 DEF Tasks
    <3>4. Append(Turned(t).jobs, a) \in Seq(Args) /\ Turned(t).invalid \cup {n} \in SUBSET Nat
      BY <1>3, <3>1, <3>3
    <3> QED
      BY <3>2, <3>4 DEF Tasks
  <2>2. u.next <= Len(u.envelopes)
    BY <1>1, <1>5
  <2> HIDE DEF u
  <2> QED
    BY <1>1, <1>5, <2>1, <2>2 DEF TaskTypeOK, Tasks
<1> HIDE DEF u
<1>7. TaskEnvelopesOK(u)
  <2>1. ASSUME NEW m \in 1..L
        PROVE  m \in u.invalid <=> (m < u.next \/ u.pc = "sort") /\ ~Buildable(sent[t.envelopes[m]])
    <3>1. m \in t.invalid <=> m < n /\ ~Buildable(sent[t.envelopes[m]])
      BY <1>0, <1>1 DEF TaskEnvelopesOK
    <3>2. m < u.next \/ u.pc = "sort" <=> m <= n
      BY <1>1, <1>5
    <3>3. m \in u.invalid <=> m \in t.invalid \/ (m = n /\ ~Buildable(sent[i]))
      BY <1>4, <1>5
    <3> QED
      BY <1>1, <3>1, <3>2, <3>3
  <2>2. u.pc = "sort" => \A m \in 1..L : ~(m < u.next)
    BY <1>1, <1>5
  <2> QED
    BY <1>1, <1>5, <2>1, <2>2 DEF TaskEnvelopesOK
<1>8. \E c : Places(u, c)
  <2>1. /\ b \in Seq(1..L) /\ Len(b) = Len(t.jobs) /\ Len(b) \in Nat
        /\ \A k \in 1..Len(b) : b[k] \in 1..L /\ b[k] < n
        /\ \A k, l \in 1..Len(b) : k < l => b[k] < b[l]
        /\ \A k \in 1..Len(b) : t.jobs[k] = sent[t.envelopes[b[k]]].args /\ b[k] \notin t.invalid
        /\ \A m \in 1..(n - 1) : m \in t.invalid \/ \E k \in 1..Len(b) : b[k] = m
    BY <1>0, <1>2 DEF Places
  <2>2. n \notin t.invalid
    BY <1>0, <1>1 DEF TaskEnvelopesOK
  <2>3. CASE BuildsNext(t)
    <3> DEFINE c == Append(b, n)
    <3>1. /\ c \in Seq(1..L) /\ Len(c) = Len(b) + 1 /\ c[Len(b) + 1] = n
          /\ \A k \in 1..Len(b) : c[k] = b[k]
      <4>1. n \in 1..L
        BY <1>1
      <4> QED
        BY <2>1, <4>1, Appended
    <3>2. /\ Len(u.jobs) = Len(b) + 1 /\ u.jobs[Len(b) + 1] = a
          /\ \A k \in 1..Len(b) : u.jobs[k] = t.jobs[k]
          /\ u.invalid = t.invalid
      BY <1>1, <1>3, <1>5, <2>1, <2>3
    <3> HIDE DEF c
    <3>3. \A k \in 1..Len(c) : k \in 1..Len(b) \/ k = Len(b) + 1
      BY <2>1, <3>1
    <3>4. \A k, l \in 1..Len(c) : k < l => c[k] < c[l]
      <4> SUFFICES ASSUME NEW k \in 1..Len(c), NEW l \in 1..Len(c), k < l PROVE c[k] < c[l]
        OBVIOUS
      <4>1. k \in 1..Len(b)
        BY <2>1, <3>1
      <4>2. CASE l = Len(b) + 1
        BY <2>1, <3>1, <4>1, <4>2
      <4>3. CASE l \in 1..Len(b)
        BY <2>1, <3>1, <4>1, <4>3
      <4> QED
        BY <3>3, <4>2, <4>3
    <3>5. \A k \in 1..Len(c) : u.jobs[k] = sent[t.envelopes[c[k]]].args /\ c[k] \notin u.invalid /\ c[k] \in 1..L /\ c[k] <= n
      <4> SUFFICES ASSUME NEW k \in 1..Len(c)
                   PROVE  u.jobs[k] = sent[t.envelopes[c[k]]].args /\ c[k] \notin u.invalid /\ c[k] \in 1..L /\ c[k] <= n
        OBVIOUS
      <4>1. CASE k \in 1..Len(b)
        <5>1. c[k] = b[k] /\ u.jobs[k] = t.jobs[k] /\ u.invalid = t.invalid
          BY <3>1, <3>2, <4>1
        <5>2. b[k] \in 1..L /\ b[k] < n
          BY <2>1, <4>1
        <5>3. t.jobs[k] = sent[t.envelopes[b[k]]].args /\ b[k] \notin t.invalid
          BY <2>1, <4>1
        <5>4. b[k] <= n
          BY <1>1, <5>2
        <5> HIDE DEF n, L, i, a
        <5> QED
          BY <5>1, <5>2, <5>3, <5>4
      <4>2. CASE k = Len(b) + 1
        <5>1. c[k] = n /\ u.jobs[k] = a /\ u.invalid = t.invalid
          BY <3>1, <3>2, <4>2
        <5>2. n <= n /\ n \in 1..L
          BY <1>1
        <5>3. a = sent[t.envelopes[n]].args
          OBVIOUS
        <5> HIDE DEF n, L, i, a
        <5> QED
          BY <2>2, <5>1, <5>2, <5>3
      <4> QED
        BY <3>3, <4>1, <4>2
    <3>6. \A m \in 1..n : m \in u.invalid \/ \E k \in 1..Len(c) : c[k] = m
      <4> SUFFICES ASSUME NEW m \in 1..n, m \notin u.invalid PROVE \E k \in 1..Len(c) : c[k] = m
        OBVIOUS
      <4>1. CASE m = n
        <5>1. Len(b) + 1 \in 1..Len(c)
          BY <2>1, <3>1
        <5> QED
          BY <3>1, <4>1, <5>1
      <4>2. CASE m # n
        <5>1. m \in 1..(n - 1)
          BY <1>1, <4>2
        <5>2. PICK k \in 1..Len(b) : b[k] = m
          BY <2>1, <3>2, <5>1
        <5>3. k \in 1..Len(c)
          BY <2>1, <3>1
        <5> QED
          BY <3>1, <5>2, <5>3
      <4> QED
        BY <4>1, <4>2
    <3>7. Places(u, c)
      <4>1. Len(c) = Len(u.jobs) /\ c \in Seq(1..Len(u.envelopes)) /\ Len(c) \in Nat
        BY <1>5, <2>1, <3>1, <3>2
      <4>2. u.pc # "sort" => /\ \A k \in 1..Len(c) : c[k] < u.next
                             /\ \A m \in 1..(u.next - 1) : m \in u.invalid \/ \E k \in 1..Len(c) : c[k] = m
        <5>1. u.pc # "sort" => u.next = n + 1
          BY <1>5
        <5>2. ASSUME u.next = n + 1 PROVE \A k \in 1..Len(c) : c[k] < u.next
          <6> TAKE k \in 1..Len(c)
          <6>1. c[k] \in 1..L /\ c[k] <= n
            BY <3>5, Zenon
          <6> HIDE DEF n, L
          <6> QED
            BY <1>1, <5>2, <6>1
        <5>3. ASSUME u.next = n + 1
              PROVE  \A m \in 1..(u.next - 1) : m \in u.invalid \/ \E k \in 1..Len(c) : c[k] = m
          <6>1. u.next - 1 = n
            BY <1>1, <5>3
          <6> QED
            BY <3>6, <6>1, Zenon
        <5> QED
          BY <5>1, <5>2, <5>3, Zenon
      <4>3. u.pc = "sort" =>
              /\ \A m \in 1..L : m \in u.invalid \/ \E k \in 1..Len(c) : c[k] = m
              /\ Len(u.kept) = 0
              /\ \A k \in 1..Len(c) : ~(c[k] < u.next)
        BY <1>1, <1>5, <3>5, <3>6
      <4> QED
        BY <1>5, <3>4, <3>5, <4>1, <4>2, <4>3 DEF Places
    <3> QED
      BY <3>7
  <2>4. CASE ~BuildsNext(t)
    <3>1. u.jobs = t.jobs /\ u.invalid = t.invalid \cup {n}
      BY <1>5, <2>4
    <3>2. \A k \in 1..Len(b) : b[k] \notin u.invalid
      BY <1>1, <2>1, <3>1
    <3>3. \A m \in 1..n : m \in u.invalid \/ \E k \in 1..Len(b) : b[k] = m
      <4> SUFFICES ASSUME NEW m \in 1..n, m \notin u.invalid PROVE \E k \in 1..Len(b) : b[k] = m
        OBVIOUS
      <4>1. m \in 1..(n - 1)
        BY <1>1, <3>1
      <4> QED
        BY <2>1, <3>1, <4>1
    <3>4. u.pc # "sort" => /\ \A k \in 1..Len(b) : b[k] < u.next
                           /\ \A m \in 1..(u.next - 1) : m \in u.invalid \/ \E k \in 1..Len(b) : b[k] = m
      BY <1>1, <1>5, <2>1, <3>3
    <3>5. u.pc = "sort" =>
              /\ \A m \in 1..L : m \in u.invalid \/ \E k \in 1..Len(b) : b[k] = m
              /\ Len(u.kept) = 0
              /\ \A k \in 1..Len(b) : ~(b[k] < u.next)
      BY <1>1, <1>5, <2>1, <3>3
    <3>6. Places(u, b)
      <4>1. Len(b) = Len(u.jobs) /\ b \in Seq(1..Len(u.envelopes)) /\ Len(b) \in Nat
        BY <1>5, <2>1, <3>1
      <4>2. \A k \in 1..Len(b) : u.jobs[k] = sent[u.envelopes[b[k]]].args /\ b[k] \notin u.invalid
        BY <1>5, <2>1, <3>1, <3>2
      <4> QED
        BY <1>5, <2>1, <3>4, <3>5, <4>1, <4>2 DEF Places
    <3> QED
      BY <3>6
  <2> QED
    BY <2>3, <2>4
<1>9. TaskOK(u)
  BY <1>6, <1>7, <1>8 DEF TaskOK
<1> QED
  BY <1>0, <1>5, <1>9, QuietStep

LEMMA KillNextKeeps ==
    ASSUME RegistrationInv, NEW t \in tasks, KillNext(t)
    PROVE  RegistrationInv'
<1> DEFINE n == t.next
           L == Len(t.envelopes)
           i == t.envelopes[n]
           u == [t EXCEPT !.next = @ + 1]
<1>0. /\ tasks' = (tasks \ {t}) \cup {u} /\ Running /\ UNCHANGED list /\ t.pc = "sort" /\ n \in t.invalid
      /\ \E o \in {"killed", "unkilled"} : outcome' = [outcome EXCEPT ![i] = Outcome(o, None, None)]
  BY DEF KillNext
<1>1. /\ TaskTypeOK(t) /\ TaskEnvelopesOK(t) /\ L \in Nat /\ n \in Nat /\ n >= 1 /\ n <= L + 1 /\ t.invalid \subseteq Nat
  BY <1>0, TaskFacts DEF TaskTypeOK, Tasks
<1>2. PICK b : Places(t, b)
  BY TaskFacts DEF TaskOK
<1>3. n \in 1..L
  <2>1. \A m \in t.invalid : m <= L
    BY <1>1 DEF TaskTypeOK
  <2> QED
    BY <1>0, <1>1, <2>1
<1>4. i \in 1..Len(sent) /\ ~Buildable(sent[i]) /\ outcome[i].state # "waiting"
  BY <1>0, <1>1, <1>3 DEF TaskEnvelopesOK
<1>5. /\ outcome \in Seq(Outcomes) /\ Len(outcome) = Len(sent) /\ Len(sent) \in Nat /\ EnvelopesOK
  BY TaskFacts DEF EnvelopesOK
<1>6. PICK o \in {"killed", "unkilled"} : outcome' = [outcome EXCEPT ![i] = Outcome(o, None, None)]
  BY <1>0
<1>7. Outcome(o, None, None) \in Outcomes /\ Outcome(o, None, None).state = o
  BY DEF Outcome, Outcomes
<1>8. /\ outcome' \in Seq(Outcomes) /\ Len(outcome') = Len(outcome) /\ outcome'[i].state = o
      /\ \A j \in 1..Len(sent) : j # i => outcome'[j] = outcome[j]
  BY <1>4, <1>5, <1>6, <1>7
<1>9. Frozen /\ UNCHANGED <<sent, list, dispatchers>>
  BY <1>0 DEF Running, Frozen
<1>10. EnvelopesOK' /\ KillsOnly /\ NotReopened /\ SentKept
  BY <1>4, <1>5, <1>8, <1>9 DEF EnvelopesOK, KillsOnly, NotReopened, SentKept
<1>11. TaskOK(t)'
  BY <1>5, <1>9, <1>10, TaskFacts, TaskStays
<1>12. /\ u.envelopes = t.envelopes /\ u.permits = t.permits /\ u.kept = t.kept /\ u.keptPermits = t.keptPermits
       /\ u.batcher = t.batcher /\ u.jobs = t.jobs /\ u.invalid = t.invalid /\ u.pc = "sort" /\ u.next = n + 1
  BY <1>0, <1>1 DEF TaskTypeOK, Tasks
<1>13. TaskTypeOK(u)'
  <2>1. t \in Tasks(Batchers)' /\ TaskTypeOK(t)'
    BY <1>11 DEF TaskOK, TaskTypeOK
  <2>2. u \in Tasks(Batchers)'
    BY <2>1, TaskEdits
  <2>3. u.next <= Len(u.envelopes) \/ u.next = Len(u.envelopes) + 1
    BY <1>3, <1>12
  <2> HIDE DEF u
  <2> QED
    BY <1>1, <1>12, <2>1, <2>2, <2>3 DEF TaskTypeOK
<1> HIDE DEF u
<1>14. TaskEnvelopesOK(u)'
  <2>1. TaskEnvelopesOK(t)'
    BY <1>11 DEF TaskOK
  <2>2. ASSUME NEW m \in 1..L, m < n + 1, m \in t.invalid PROVE outcome'[t.envelopes[m]].state # "taken"
    <3>1. CASE m = n
      BY <1>8, <3>1
    <3>2. CASE m # n
      <4>1. m < n
        BY <1>1, <2>2, <3>2
      <4> QED
        BY <1>0, <2>1, <2>2, <4>1 DEF TaskEnvelopesOK
    <3> QED
      BY <3>1, <3>2
  <2> QED
    BY <1>0, <1>12, <2>1, <2>2 DEF TaskEnvelopesOK
<1>15. \E c : Places(u, c)'
  <2>1. PICK c : Places(t, c)'
    BY <1>11 DEF TaskOK
  <2>2. /\ c \in Seq(1..L) /\ Len(c) \in Nat
        /\ \A k \in 1..Len(c) : c[k] \in 1..L /\ c[k] \notin t.invalid
        /\ \A k \in 1..Len(c) : c[k] < n <=> k <= Len(t.kept)
    BY <1>0, <2>1 DEF Places
  <2>3. \A k \in 1..Len(c) : c[k] < n + 1 <=> c[k] < n
    BY <1>0, <1>1, <2>2
  <2>4. Places(u, c)'
    BY <1>0, <1>12, <2>1, <2>2, <2>3 DEF Places
  <2> QED
    BY <2>4
<1>16. TaskOK(u)'
  BY <1>13, <1>14, <1>15 DEF TaskOK
<1> QED
  BY <1>0, <1>9, <1>10, <1>12, <1>16, TaskGoesOn

(* A sequence has its elements where its type says. *)
LEMMA Elements ==
    ASSUME NEW S, NEW b \in Seq(S)
    PROVE  Len(b) \in Nat /\ \A k \in 1..Len(b) : b[k] \in S
BY ElementOfSeq

(* What Places says in the second loop. *)
LEMMA SortedPlaces ==
    ASSUME NEW t, NEW b, t.pc = "sort", Places(t, b)
    PROVE  /\ \A n \in 1..Len(t.envelopes) : n \in t.invalid \/ \E k \in 1..Len(b) : b[k] = n
           /\ Len(t.kept) <= Len(b)
           /\ \A k \in 1..Len(t.kept) : t.kept[k] = t.envelopes[b[k]]
           /\ \A k \in 1..Len(b) : b[k] < t.next <=> k <= Len(t.kept)
BY Zenon DEF Places

(* What it says in both. *)
LEMMA AllPlaces ==
    ASSUME NEW t, NEW b, Places(t, b)
    PROVE  /\ b \in Seq(1..Len(t.envelopes)) /\ Len(b) = Len(t.jobs)
           /\ \A k, l \in 1..Len(b) : k < l => b[k] < b[l]
           /\ \A k \in 1..Len(b) : t.jobs[k] = sent[t.envelopes[b[k]]].args /\ b[k] \notin t.invalid
BY Zenon DEF Places

LEMMA KeepNextKeeps ==
    ASSUME RegistrationInv, NEW t \in tasks, KeepNext(t)
    PROVE  RegistrationInv'
<1> DEFINE n == t.next
           L == Len(t.envelopes)
           i == t.envelopes[n]
           u == [t EXCEPT !.next = @ + 1, !.kept = Append(@, i), !.keptPermits = Append(@, t.permits[n])]
<1>0. /\ tasks' = (tasks \ {t}) \cup {u} /\ Running /\ UNCHANGED <<list, outcome, faults>>
      /\ t.pc = "sort" /\ n \notin t.invalid /\ n <= L
  BY DEF KeepNext
<1>1. /\ TaskTypeOK(t) /\ TaskEnvelopesOK(t) /\ t \in Tasks(Batchers) /\ L \in Nat /\ n \in Nat /\ n \in 1..L
      /\ t.kept \in Seq(Nat) /\ Len(t.kept) \in Nat
      /\ t.permits = t.envelopes /\ t.keptPermits = t.kept
  BY <1>0, TaskFacts DEF TaskTypeOK, Tasks
<1>2. i \in Nat /\ t.permits[n] = i
  BY <1>1, TaskFacts DEF TaskEnvelopesOK
<1>3. /\ u.envelopes = t.envelopes /\ u.permits = t.permits /\ u.keptPermits = u.kept
      /\ u.kept = Append(t.kept, i) /\ u.batcher = t.batcher /\ u.jobs = t.jobs /\ u.invalid = t.invalid
      /\ u.pc = "sort" /\ u.next = n + 1 /\ u \in Tasks(Batchers)
  <2>1. u \in Tasks(Batchers)
    BY <1>1, <1>2, TaskEdits
  <2> QED
    BY <1>0, <1>1, <1>2, <2>1 DEF Tasks
<1> HIDE DEF u
<1>4. TaskTypeOK(u)
  BY <1>1, <1>3 DEF TaskTypeOK
<1>5. TaskEnvelopesOK(u)
  <2>1. ASSUME NEW m \in 1..L, m < n + 1, m \in t.invalid PROVE outcome[t.envelopes[m]].state # "taken"
    <3>1. m < n
      BY <1>0, <1>1, <2>1
    <3> QED
      BY <1>0, <1>1, <2>1, <3>1 DEF TaskEnvelopesOK
  <2> QED
    BY <1>0, <1>1, <1>3, <2>1 DEF TaskEnvelopesOK
<1>6. \E b : Places(u, b)
  <2>1. PICK b : Places(t, b)
    BY TaskFacts DEF TaskOK
  <2> DEFINE K == Len(t.kept)
  <2>2. /\ b \in Seq(1..L) /\ Len(b) \in Nat /\ K \in Nat /\ K <= Len(b)
        /\ \A k \in 1..Len(b) : b[k] \in 1..L
        /\ \A k, l \in 1..Len(b) : k < l => b[k] < b[l]
        /\ \A m \in 1..L : m \in t.invalid \/ \E k \in 1..Len(b) : b[k] = m
        /\ \A k \in 1..K : t.kept[k] = t.envelopes[b[k]]
        /\ \A k \in 1..Len(b) : b[k] < n <=> k <= K
    <3>1. b \in Seq(1..L)
      BY <2>1, AllPlaces
    <3>2. Len(b) \in Nat /\ \A k \in 1..Len(b) : b[k] \in 1..L
      BY <3>1, Elements, Zenon
    <3>3. \A k, l \in 1..Len(b) : k < l => b[k] < b[l]
      BY <2>1, AllPlaces, Zenon
    <3>0. t.pc = "sort"
      BY <1>0
    <3>4. K <= Len(b) /\ \A m \in 1..L : m \in t.invalid \/ \E k \in 1..Len(b) : b[k] = m
      BY <2>1, <3>0, SortedPlaces
    <3>5. /\ \A k \in 1..K : t.kept[k] = t.envelopes[b[k]]
          /\ \A k \in 1..Len(b) : b[k] < n <=> k <= K
      BY <2>1, <3>0, SortedPlaces
    <3> QED
      BY <1>1, <3>1, <3>2, <3>3, <3>4, <3>5, Zenon
  <2>3. PICK j \in 1..Len(b) : b[j] = n
    BY <1>0, <1>1, <2>2
  <2>4. j = K + 1
    <3>1. j > K
      <4>1. ~(b[j] < n)
        BY <1>1, <2>3
      <4> QED
        BY <2>2, <2>3, <4>1
    <3>2. ~(K + 1 < j)
      <4> SUFFICES ASSUME K + 1 < j PROVE FALSE
        OBVIOUS
      <4>1. K + 1 \in 1..Len(b)
        BY <2>2, <2>3
      <4>2. b[K + 1] < b[j]
        BY <2>2, <2>3, <4>1
      <4>3. K + 1 <= K
        BY <2>2, <2>3, <4>1, <4>2
      <4> QED
        BY <2>2, <4>3
    <3> QED
      BY <2>2, <2>3, <3>1, <3>2
  <2>5. \A k \in 1..Len(b) : b[k] < n + 1 <=> k <= K + 1
    <3> SUFFICES ASSUME NEW k \in 1..Len(b) PROVE b[k] < n + 1 <=> k <= K + 1
      OBVIOUS
    <3>1. CASE k = j
      BY <1>1, <2>2, <2>3, <2>4, <3>1
    <3>2. CASE k < j
      <4>1. b[k] < b[j] /\ k <= K + 1
        BY <2>2, <2>3, <2>4, <3>2
      <4>2. b[k] \in Nat /\ n \in Nat /\ b[k] < n
        BY <1>1, <2>2, <2>3, <4>1
      <4>3. b[k] < n + 1
        BY <4>2
      <4> QED
        BY <4>1, <4>3
    <3>3. CASE k > j
      <4>1. b[j] < b[k] /\ ~(k <= K + 1)
        BY <2>2, <2>3, <2>4, <3>3
      <4>2. b[k] \in Nat /\ n \in Nat /\ n < b[k]
        BY <1>1, <2>2, <2>3, <4>1
      <4> QED
        BY <4>1, <4>2
    <3> QED
      BY <3>1, <3>2, <3>3
  <2>6. /\ Len(u.kept) = K + 1 /\ K + 1 <= Len(b)
        /\ \A k \in 1..(K + 1) : u.kept[k] = t.envelopes[b[k]]
    <3>1. /\ Len(u.kept) = K + 1 /\ u.kept[K + 1] = i /\ \A k \in 1..K : u.kept[k] = t.kept[k]
      BY <1>1, <1>2, <1>3, Appended
    <3>2. K + 1 <= Len(b) /\ b[K + 1] = n
      BY <2>2, <2>3, <2>4
    <3>3. ASSUME NEW k \in 1..(K + 1) PROVE u.kept[k] = t.envelopes[b[k]]
      <4>1. CASE k = K + 1
        BY <3>1, <3>2, <4>1
      <4>2. CASE k # K + 1
        <5>1. k \in 1..K
          BY <2>2, <4>2
        <5> QED
          BY <2>2, <3>1, <5>1
      <4> QED
        BY <4>1, <4>2
    <3> QED
      BY <3>1, <3>2, <3>3
  <2> HIDE DEF K
  <2>7. Places(u, b)
    BY <1>0, <1>3, <2>1, <2>5, <2>6 DEF Places
  <2> QED
    BY <2>7
<1>7. TaskOK(u)
  BY <1>4, <1>5, <1>6 DEF TaskOK
<1> QED
  BY <1>0, <1>3, <1>7, QuietStep

(* At the end of the second loop the jobs are in step with what is kept. *)
LEMMA InStep ==
    ASSUME RegistrationInv, NEW t \in tasks, Sorted(t)
    PROVE  /\ Len(t.jobs) = Len(t.kept) /\ t.keptPermits = t.kept
           /\ DOMAIN t.jobs = 1..Len(t.kept) /\ DOMAIN t.kept = 1..Len(t.kept)
           /\ \A k \in 1..Len(t.kept) :
                /\ t.kept[k] \in 1..Len(sent) /\ Buildable(sent[t.kept[k]])
                /\ t.jobs[k] = sent[t.kept[k]].args /\ t.jobs[k] \in Args
                /\ TaskFactories(t) = FactoriesFor(sent[t.kept[k]].name)
           /\ \A n \in 1..Len(t.envelopes) :
                \/ outcome[t.envelopes[n]].state # "taken"
                \/ \E k \in 1..Len(t.kept) : t.kept[k] = t.envelopes[n]
<1> DEFINE L == Len(t.envelopes)
<1>0. t.pc = "sort" /\ t.next = L + 1
  BY DEF Sorted
<1>1. /\ TaskTypeOK(t) /\ TaskEnvelopesOK(t) /\ L \in Nat
      /\ t.jobs \in Seq(Args) /\ t.kept \in Seq(Nat) /\ t.keptPermits = t.kept
      /\ Len(t.kept) \in Nat
  BY TaskFacts DEF TaskTypeOK, Tasks
<1>2. PICK b : Places(t, b)
  BY TaskFacts DEF TaskOK
<1>3. /\ b \in Seq(1..L) /\ Len(b) \in Nat /\ Len(b) = Len(t.jobs) /\ Len(t.kept) <= Len(b)
      /\ \A k \in 1..Len(b) : b[k] \in 1..L /\ b[k] \notin t.invalid /\ t.jobs[k] = sent[t.envelopes[b[k]]].args
      /\ \A k \in 1..Len(b) : b[k] < t.next <=> k <= Len(t.kept)
      /\ \A k \in 1..Len(t.kept) : t.kept[k] = t.envelopes[b[k]]
      /\ \A n \in 1..L : n \in t.invalid \/ \E k \in 1..Len(b) : b[k] = n
  <2>1. b \in Seq(1..L) /\ Len(b) = Len(t.jobs)
    BY <1>2, AllPlaces
  <2>2. Len(b) \in Nat /\ \A k \in 1..Len(b) : b[k] \in 1..L
    BY <2>1, Elements, Zenon
  <2>3. \A k \in 1..Len(b) : t.jobs[k] = sent[t.envelopes[b[k]]].args /\ b[k] \notin t.invalid
    BY <1>2, AllPlaces, Zenon
  <2>0. t.pc = "sort"
    BY <1>0
  <2>4. /\ \A k \in 1..Len(b) : b[k] < t.next <=> k <= Len(t.kept)
        /\ \A k \in 1..Len(t.kept) : t.kept[k] = t.envelopes[b[k]]
    BY <1>2, <2>0, SortedPlaces
  <2>5. Len(t.kept) <= Len(b) /\ \A n \in 1..L : n \in t.invalid \/ \E k \in 1..Len(b) : b[k] = n
    BY <1>2, <2>0, SortedPlaces
  <2> QED
    BY <2>1, <2>2, <2>3, <2>4, <2>5, Zenon
<1>4. Len(b) = Len(t.kept)
  <2> SUFFICES ASSUME Len(t.kept) < Len(b) PROVE FALSE
    BY <1>1, <1>3
  <2>1. Len(b) \in 1..Len(b)
    BY <1>1, <1>3
  <2>2. b[Len(b)] < t.next
    BY <1>0, <1>1, <1>3, <2>1
  <2>3. Len(b) <= Len(t.kept)
    BY <1>3, <2>1, <2>2
  <2> QED
    BY <1>1, <1>3, <2>3
<1>5. ASSUME NEW k \in 1..Len(t.kept)
      PROVE  /\ t.kept[k] \in 1..Len(sent) /\ Buildable(sent[t.kept[k]])
             /\ t.jobs[k] = sent[t.kept[k]].args /\ t.jobs[k] \in Args
             /\ TaskFactories(t) = FactoriesFor(sent[t.kept[k]].name)
  <2>1. b[k] \in 1..L /\ b[k] \notin t.invalid /\ t.kept[k] = t.envelopes[b[k]] /\ t.jobs[k] = sent[t.kept[k]].args
    BY <1>3, <1>4
  <2>2. Buildable(sent[t.envelopes[b[k]]])
    BY <1>0, <1>1, <2>1 DEF TaskEnvelopesOK
  <2>3. t.jobs[k] \in Args
    BY <1>1, <1>3, <1>4, ElementOfSeq
  <2>4. TaskFactories(t) = FactoriesFor(sent[t.envelopes[b[k]]].name) /\ t.envelopes[b[k]] \in 1..Len(sent)
    BY <2>1, OneFactory
  <2> QED
    BY <2>1, <2>2, <2>3, <2>4
<1>6. ASSUME NEW n \in 1..L
      PROVE  \/ outcome[t.envelopes[n]].state # "taken"
             \/ \E k \in 1..Len(t.kept) : t.kept[k] = t.envelopes[n]
  <2>1. CASE n \in t.invalid
    <3>1. n < t.next
      BY <1>0, <1>1
    <3> QED
      BY <1>0, <1>1, <2>1, <3>1 DEF TaskEnvelopesOK
  <2>2. CASE n \notin t.invalid
    <3>1. PICK k \in 1..Len(b) : b[k] = n
      BY <1>3, <2>2
    <3> QED
      BY <1>3, <1>4, <3>1
  <2> QED
    BY <2>1, <2>2
<1>7. /\ Len(t.jobs) = Len(t.kept) /\ t.keptPermits = t.kept
      /\ DOMAIN t.jobs = 1..Len(t.kept) /\ DOMAIN t.kept = 1..Len(t.kept)
  <2>1. Len(t.jobs) = Len(t.kept)
    BY <1>3, <1>4
  <2>2. DOMAIN t.jobs = 1..Len(t.jobs) /\ DOMAIN t.kept = 1..Len(t.kept)
    BY <1>1
  <2> QED
    BY <1>1, <2>1, <2>2
<1> QED
  BY <1>5, <1>6, <1>7

LEMMA RunTaskKeeps ==
    ASSUME RegistrationInv, NEW t \in tasks, RunTask(t)
    PROVE  RegistrationInv'
<1> DEFINE K == 1..Len(t.kept)
           Kept(i) == \E k \in K : t.kept[k] = i
           Of(i) == CHOOSE k \in K : t.kept[k] = i
<1>0. /\ Sorted(t) /\ Running /\ UNCHANGED <<list, faults>> /\ tasks' = tasks \ {t}
  BY DEF RunTask
<1>1. EnvelopesOK /\ ListsOK /\ TasksOK /\ NotBeforeRun /\ AllDecided /\ TablesOK /\ Len(sent) \in Nat
  BY DEF RegistrationInv, EnvelopesOK
<1>2. DOMAIN t.jobs \cap DOMAIN t.kept = K
  BY <1>0, InStep
<1>3. outcome \in Seq(Outcomes) /\ DOMAIN outcome = 1..Len(sent) /\ DOMAIN sent = 1..Len(sent)
  BY <1>1 DEF EnvelopesOK
<1>4. outcome' = [i \in 1..Len(sent) |->
                    IF Kept(i) THEN Outcome("ran", TaskFactories(t).worker, t.jobs[Of(i)]) ELSE outcome[i]]
  BY <1>2, <1>3 DEF RunTask
<1>5. ASSUME NEW i \in 1..Len(sent), Kept(i)
      PROVE  /\ outcome'[i].state = "ran" /\ outcome'[i].worker = FactoriesFor(sent[i].name).worker
             /\ outcome'[i].args = sent[i].args
             /\ Buildable(sent[i]) /\ outcome'[i] \in Outcomes
  <2>1. Of(i) \in K /\ t.kept[Of(i)] = i
    BY <1>5
  <2>2. /\ Buildable(sent[i]) /\ t.jobs[Of(i)] = sent[i].args /\ t.jobs[Of(i)] \in Args
        /\ TaskFactories(t) = FactoriesFor(sent[i].name)
    BY <1>0, <2>1, InStep
  <2>3. FactoriesFor(sent[i].name).worker \in {r.worker : r \in WorkerConfig}
    <3>1. sent[i] \in Envelopes
      BY <1>1, <1>3, ElementOfSeq DEF EnvelopesOK
    <3>2. FactoriesFor(sent[i].name) \in WorkerConfig \cup {None}
      BY <1>1, <3>1 DEF FactoriesFor, Resolve, TablesOK, Envelopes
    <3> QED
      BY <2>2, <3>2 DEF Buildable
  <2>4. outcome'[i] = Outcome("ran", FactoriesFor(sent[i].name).worker, sent[i].args)
    BY <1>4, <1>5, <2>2
  <2> QED
    BY <2>2, <2>3, <2>4 DEF Outcome, Outcomes
<1>6. ASSUME NEW i \in 1..Len(sent), ~Kept(i) PROVE outcome'[i] = outcome[i] /\ outcome'[i] \in Outcomes
  BY <1>3, <1>4, <1>6, ElementOfSeq
<1>7. Frozen /\ UNCHANGED <<sent, dispatchers>>
  BY <1>0 DEF Running, Frozen
<1>8. EnvelopesOK'
  <2>1. outcome' \in [1..Len(sent) -> Outcomes]
    BY <1>4, <1>5, <1>6
  <2>2. outcome' \in Seq(Outcomes) /\ Len(outcome') = Len(sent)
    BY <1>1, <2>1
  <2> QED
    BY <1>1, <1>7, <2>2 DEF EnvelopesOK
<1>9. \A i \in 1..Len(sent) : Kept(i) => outcome'[i].state = "ran" /\ outcome[i].state # "waiting"
  <2> SUFFICES ASSUME NEW i \in 1..Len(sent), Kept(i) PROVE outcome'[i].state = "ran" /\ outcome[i].state # "waiting"
    OBVIOUS
  <2>1. outcome'[i].state = "ran"
    BY <1>5
  <2>2. PICK k \in K : t.kept[k] = i
    OBVIOUS
  <2>3. PICK b : Places(t, b)
    BY TaskFacts DEF TaskOK
  <2>4. t.kept[k] = t.envelopes[b[k]] /\ b[k] \in 1..Len(t.envelopes)
    <3>1. t.pc = "sort" /\ Len(t.kept) = Len(t.jobs)
      BY <1>0, InStep DEF Sorted
    <3> QED
      BY <2>3, <3>1 DEF Places
  <2> QED
    BY <2>1, <2>2, <2>4, TaskFacts DEF TaskEnvelopesOK
<1> HIDE DEF Kept
<1>10. SentKept /\ NotReopened
  BY <1>1, <1>6, <1>7, <1>9 DEF SentKept, NotReopened
<1>11. TasksOK'
  BY <1>0, <1>1, <1>7, <1>10, TaskStays DEF TasksOK
<1>12. ListsOK'
  <2>1. \A i \in 1..Len(sent) : outcome[i].state = "waiting" => outcome'[i] = outcome[i]
    BY <1>6, <1>9
  <2> QED
    BY <1>0, <1>1, <1>7, <2>1, ListsStay
<1>13. AllDecided'
  <2> SUFFICES ASSUME NEW i \in 1..Len(sent) PROVE Decided(i)'
    BY <1>3, <1>7 DEF AllDecided
  <2>0. Decided(i)
    BY <1>1, <1>3 DEF AllDecided
  <2>1. /\ Buildable(sent[i])' <=> Buildable(sent[i])
        /\ FactoriesFor(sent[i].name)' = FactoriesFor(sent[i].name) /\ sent'[i] = sent[i]
    BY <1>7 DEF Frozen, registry, Buildable, Deserializes, FactoriesFor, Resolve
  <2>2. CASE Kept(i)
    BY <1>5, <2>1, <2>2 DEF Decided
  <2>3. CASE ~Kept(i)
    <3>1. outcome'[i] = outcome[i]
      BY <1>6, <2>3
    <3>2. outcome'[i].state = "taken" => \E v \in tasks' : \E n \in DOMAIN v.envelopes : v.envelopes[n] = i
      <4> SUFFICES ASSUME outcome[i].state = "taken"
                   PROVE  \E v \in tasks' : \E n \in DOMAIN v.envelopes : v.envelopes[n] = i
        BY <3>1
      <4>1. PICK v \in tasks : \E n \in DOMAIN v.envelopes : v.envelopes[n] = i
        BY <2>0 DEF Decided
      <4>2. v # t
        <5> SUFFICES ASSUME v = t PROVE FALSE
          OBVIOUS
        <5>1. PICK n \in DOMAIN t.envelopes : t.envelopes[n] = i
          BY <4>1
        <5>2. n \in 1..Len(t.envelopes)
          BY <5>1, TaskFacts DEF TaskTypeOK, Tasks
        <5> QED
          BY <1>0, <2>3, <5>1, <5>2, InStep DEF Kept
      <4> QED
        BY <1>0, <4>1, <4>2
    <3> QED
      BY <2>0, <2>1, <3>1, <3>2 DEF Decided
  <2> QED
    BY <2>2, <2>3
<1>14. NotBeforeRun'
  <2>1. phase # "setup" /\ phase' = phase
    BY <1>1, <1>7 DEF NotBeforeRun, Frozen
  <2> QED
    BY <2>1 DEF NotBeforeRun
<1> QED
  BY <1>7, <1>8, <1>11, <1>12, <1>13, <1>14, FrozenKeeps DEF RegistrationInv

---------------------------------------------------------------------------
(* The dispatchers *)

LEMMA ReceiveKeeps ==
    ASSUME RegistrationInv, NEW c \in queues, NEW key \in Key, Receive(c, key)
    PROVE  RegistrationInv'
<1> DEFINE i == Head(list[key])
           batcher == <<c, sent[i].queue, sent[i].name>>
           taken == Outcome("taken", None, None)
<1>0. /\ list[key] # <<>> /\ <<c, key>> \in dispatchers /\ Running
      /\ outcome' = [outcome EXCEPT ![i] = taken]
      /\ list' = [list EXCEPT ![key] = Tail(list[key])]
  BY DEF Receive
<1>1. EnvelopesOK /\ ListsOK /\ TasksOK /\ NotBeforeRun /\ AllDecided /\ Len(sent) \in Nat /\ DOMAIN sent = 1..Len(sent)
  BY DEF RegistrationInv, EnvelopesOK
<1>2. Frozen /\ UNCHANGED <<sent, dispatchers>> /\ phase # "setup"
  BY <1>0, <1>1 DEF Running, Frozen, NotBeforeRun
<1>3. /\ list \in [Key -> Seq(Nat)] /\ list[key] \in Seq(Nat) /\ Len(list[key]) \in Nat /\ Len(list[key]) >= 1
      /\ i = list[key][1] /\ 1 \in 1..Len(list[key])
  BY <1>0, <1>1 DEF ListsOK
<1>4. i \in 1..Len(sent) /\ outcome[i].state = "waiting" /\ i \in Nat
  BY <1>1, <1>3 DEF ListsOK
<1>5. sent[i] \in Envelopes
  BY <1>1, <1>4, ElementOfSeq DEF EnvelopesOK
<1>6. batcher \in Batchers /\ batcher[3] = sent[i].name
  BY <1>5 DEF Batchers, Envelopes
<1>7. taken \in Outcomes /\ taken.state = "taken"
  BY DEF Outcome, Outcomes
<1> HIDE DEF i, taken
<1>8. /\ outcome' \in Seq(Outcomes) /\ Len(outcome') = Len(sent) /\ outcome'[i] = taken
      /\ \A j \in 1..Len(sent) : j # i => outcome'[j] = outcome[j]
  <2>1. outcome \in Seq(Outcomes) /\ Len(outcome) = Len(sent)
    BY <1>1 DEF EnvelopesOK
  <2> QED
    BY <1>0, <1>1, <1>4, <1>7, <2>1
<1>9. EnvelopesOK' /\ SentKept /\ NotReopened
  <2>1. EnvelopesOK'
    BY <1>1, <1>2, <1>8 DEF EnvelopesOK
  <2>2. SentKept
    BY <1>1, <1>2 DEF SentKept
  <2>3. NotReopened
    BY <1>4, <1>7, <1>8 DEF NotReopened
  <2> QED
    BY <2>1, <2>2, <2>3
<1>10. \A t \in tasks : TaskOK(t)'
  BY <1>1, <1>2, <1>9, TaskStays DEF TasksOK
<1>11. ListsOK'
  <2> DEFINE at(k, n) == IF k = key THEN n + 1 ELSE n
  <2>1. list' \in [Key -> Seq(Nat)]
    BY <1>0, <1>3
  <2>2. ASSUME NEW k \in Key, NEW n \in 1..Len(list'[k])
        PROVE  /\ at(k, n) \in 1..Len(list[k]) /\ list'[k][n] = list[k][at(k, n)]
               /\ list'[k][n] # i
    <3>1. CASE k = key
      <4>1. list'[key] = Tail(list[key])
        BY <1>0, <1>3
      <4>2. n + 1 \in 1..Len(list[key]) /\ list'[key][n] = list[key][n + 1] /\ n + 1 # 1
        BY <1>3, <3>1, <4>1
      <4>3. list[key][n + 1] # list[key][1]
        BY <1>1, <1>3, <4>2 DEF ListsOK
      <4> QED
        BY <1>3, <3>1, <4>2, <4>3
    <3>2. CASE k # key
      <4>1. list'[k] = list[k]
        BY <1>0, <1>3, <3>2
      <4>2. list[k][n] # list[key][1]
        BY <1>1, <1>3, <3>2, <4>1 DEF ListsOK
      <4> QED
        BY <1>3, <3>2, <4>1, <4>2
    <3> QED
      BY <3>1, <3>2
  <2> HIDE DEF at
  <2>3. ASSUME NEW k \in Key, NEW n \in 1..Len(list'[k])
        PROVE  list'[k][n] \in 1..Len(sent') /\ outcome'[list'[k][n]].state = "waiting"
    <3>1. list[k][at(k, n)] \in 1..Len(sent) /\ outcome[list[k][at(k, n)]].state = "waiting"
      BY <1>1, <2>2 DEF ListsOK
    <3> QED
      BY <1>2, <1>8, <2>2, <3>1
  <2>4. ASSUME NEW k \in Key, NEW l \in Key, NEW n \in 1..Len(list'[k]), NEW m \in 1..Len(list'[l]),
               list'[k][n] = list'[l][m]
        PROVE  k = l /\ n = m
    <3>1. list[k][at(k, n)] = list[l][at(l, m)]
      BY <2>2, <2>4
    <3>2. k = l /\ at(k, n) = at(l, m)
      <4> DEFINE x == at(k, n)
                 y == at(l, m)
      <4>1. x \in 1..Len(list[k]) /\ y \in 1..Len(list[l]) /\ list[k][x] = list[l][y]
        BY <2>2, <3>1
      <4> HIDE DEF x, y
      <4>2. k = l /\ x = y
        BY <1>1, <4>1 DEF ListsOK
      <4> QED
        BY <4>2 DEF x, y
    <3>3. n \in Nat /\ m \in Nat
      <4>1. list'[k] \in Seq(Nat) /\ list'[l] \in Seq(Nat)
        BY <2>1
      <4> QED
        BY <4>1
    <3> QED
      BY <3>2, <3>3 DEF at
  <2> QED
    BY <2>1, <2>3, <2>4 DEF ListsOK
<1>12. ASSUME NEW u, TaskOK(u)', NEW m \in DOMAIN u.envelopes, u.envelopes[m] = i, tasks' \subseteq tasks \cup {u}, u \in tasks',
              \A t \in tasks : \A n \in DOMAIN t.envelopes :
                 \E v \in tasks' : \E l \in DOMAIN v.envelopes : v.envelopes[l] = t.envelopes[n]
       PROVE  RegistrationInv'
  <2>1. TasksOK'
    BY <1>10, <1>12 DEF TasksOK
  <2>2. AllDecided'
    <3> SUFFICES ASSUME NEW j \in 1..Len(sent) PROVE Decided(j)'
      BY <1>1, <1>2 DEF AllDecided
    <3>1. CASE j = i
      BY <1>7, <1>8, <1>12, <3>1 DEF Decided
    <3>2. CASE j # i
      <4>1. Decided(j) /\ sent'[j] = sent[j] /\ outcome'[j] = outcome[j]
        BY <1>1, <1>2, <1>8, <3>2 DEF AllDecided
      <4> QED
        BY <1>2, <1>12, <4>1, DecidedStays
    <3> QED
      BY <3>1, <3>2
  <2>3. NotBeforeRun'
    BY <1>2 DEF NotBeforeRun, Frozen
  <2> QED
    BY <1>2, <1>9, <1>11, <2>1, <2>2, <2>3, FrozenKeeps DEF RegistrationInv
<1> HIDE DEF batcher
<1>13. ASSUME NEW pc \in {"build", "collect"}, tasks' = tasks \cup {NewTask(batcher, pc, i)}
       PROVE  RegistrationInv'
  <2>0. PICK u : u = NewTask(batcher, pc, i)
    OBVIOUS
  <2>1. /\ u.batcher = batcher /\ u.pc = pc /\ u.envelopes = <<i>> /\ u.permits = <<i>> /\ u.next = 1
        /\ u.jobs = <<>> /\ u.invalid = {} /\ u.kept = <<>> /\ u.keptPermits = <<>>
    BY <2>0 DEF NewTask
  <2>2. u \in Tasks(Batchers)
    <3>1. <<i>> \in Seq(Nat) /\ <<>> \in Seq(Nat) /\ <<>> \in Seq(Args) /\ 1 \in Nat \ {0} /\ {} \in SUBSET Nat
      BY <1>4
    <3> QED
      BY <1>6, <2>0, <3>1 DEF NewTask, Tasks
  <2>3. Len(u.envelopes) = 1 /\ u.envelopes[1] = i /\ DOMAIN u.envelopes = 1..1
    BY <1>4, <2>1
  <2>4. TaskTypeOK(u)'
    <3>1. Batchers' = Batchers
      BY <1>2 DEF Batchers, Frozen
    <3> QED
      BY <2>1, <2>2, <2>3, <3>1 DEF TaskTypeOK
  <2>5. TaskEnvelopesOK(u)'
    <3>1. \A n \in 1..Len(u.envelopes) : n = 1 /\ u.envelopes[n] = i
      BY <2>3
    <3> QED
      BY <1>2, <1>4, <1>6, <1>7, <1>8, <2>1, <3>1 DEF TaskEnvelopesOK
  <2>6. Places(u, <<>>)'
    BY <2>1, <2>3 DEF Places
  <2>7. TaskOK(u)'
    BY <2>4, <2>5, <2>6 DEF TaskOK
  <2>8. tasks' = tasks \cup {u}
    BY <1>13, <2>0
  <2> QED
    BY <1>12, <2>3, <2>7, <2>8
<1>14. ASSUME NEW t \in Collecting(batcher),
              tasks' = (tasks \ {t}) \cup {[t EXCEPT !.envelopes = Append(@, i), !.permits = Append(@, i)]}
       PROVE  RegistrationInv'
  <2> DEFINE L == Len(t.envelopes)
  <2>u. PICK u : u = [t EXCEPT !.envelopes = Append(@, i), !.permits = Append(@, i)]
    OBVIOUS
  <2>0. t \in tasks /\ t.pc = "collect" /\ t.batcher = batcher
    BY DEF Collecting
  <2>1. /\ TaskTypeOK(t) /\ TaskEnvelopesOK(t)' /\ t \in Tasks(Batchers) /\ t.next = 1 /\ t.kept = <<>>
        /\ t.permits = t.envelopes /\ t.keptPermits = t.kept /\ t.envelopes \in Seq(Nat) /\ L \in Nat
        /\ t.jobs \in Seq(Args) /\ t.invalid \subseteq Nat /\ \A m \in t.invalid : m <= L
    BY <1>10, <2>0, TaskFacts DEF TaskTypeOK, Tasks, TaskOK
  <2>2. u \in Tasks(Batchers)
    BY <1>4, <2>1, <2>u, TaskEdits
  <2>3. /\ u.batcher = batcher /\ u.pc = "collect" /\ u.envelopes = Append(t.envelopes, i) /\ u.permits = u.envelopes
        /\ u.next = 1 /\ u.jobs = t.jobs /\ u.invalid = t.invalid /\ u.kept = <<>> /\ u.keptPermits = <<>>
    BY <2>0, <2>1, <2>u DEF Tasks
  <2>4. /\ Len(u.envelopes) = L + 1 /\ u.envelopes[L + 1] = i /\ \A n \in 1..L : u.envelopes[n] = t.envelopes[n]
        /\ DOMAIN u.envelopes = 1..(L + 1)
    BY <1>4, <2>1, <2>3
  <2>5. TaskTypeOK(u)'
    <3>1. Batchers' = Batchers
      BY <1>2 DEF Batchers, Frozen
    <3>2. \A m \in u.invalid : m <= L + 1
      BY <2>1, <2>3
    <3>3. 1 <= L + 1 /\ L + 1 > 0
      BY <2>1
    <3> HIDE DEF L
    <3> QED
      BY <2>2, <2>3, <2>4, <3>1, <3>2, <3>3 DEF TaskTypeOK
  <2>6. TaskEnvelopesOK(u)'
    <3>1. ASSUME NEW n \in 1..(L + 1)
          PROVE  /\ u.envelopes[n] \in 1..Len(sent')
                 /\ sent'[u.envelopes[n]].name = u.batcher[3]
                 /\ outcome'[u.envelopes[n]].state # "waiting"
                 /\ n \notin u.invalid /\ ~(n < u.next)
      <4>1. CASE n = L + 1
        <5>1. n \notin t.invalid /\ ~(n < 1)
          BY <2>1, <4>1
        <5> HIDE DEF L
        <5> QED
          BY <1>2, <1>4, <1>6, <1>7, <1>8, <2>3, <2>4, <4>1, <5>1
      <4>2. CASE n # L + 1
        <5>1. n \in 1..L /\ ~(n < 1)
          BY <2>1, <4>2
        <5>2. /\ t.envelopes[n] \in 1..Len(sent') /\ sent'[t.envelopes[n]].name = t.batcher[3]
              /\ outcome'[t.envelopes[n]].state # "waiting"
          BY <2>1, <5>1 DEF TaskEnvelopesOK
        <5>3. n \notin t.invalid
          <6>1. n \in t.invalid => n < t.next \/ t.pc = "sort"
            BY <2>1, <5>1 DEF TaskEnvelopesOK
          <6> QED
            BY <2>0, <2>1, <5>1, <6>1
        <5> HIDE DEF L
        <5> QED
          BY <2>0, <2>3, <2>4, <5>1, <5>2, <5>3
      <4> QED
        BY <4>1, <4>2
    <3> QED
      BY <2>3, <2>4, <3>1 DEF TaskEnvelopesOK
  <2>7. Places(u, <<>>)'
    <3>1. PICK b : Places(t, b)
      BY <2>0, TaskFacts DEF TaskOK
    <3>2. Len(t.jobs) = 0
      <4>1. /\ b \in Seq(1..L) /\ Len(b) \in Nat /\ Len(b) = Len(t.jobs)
            /\ \A k \in 1..Len(b) : b[k] \in 1..L /\ b[k] < 1
        BY <2>0, <2>1, <3>1 DEF Places
      <4>2. \A k \in 1..Len(b) : FALSE
        BY <2>1, <4>1
      <4> QED
        BY <4>1, <4>2
    <3> QED
      BY <2>3, <3>2 DEF Places
  <2>8. TaskOK(u)'
    BY <2>5, <2>6, <2>7 DEF TaskOK
  <2>9. tasks' = (tasks \ {t}) \cup {u}
    BY <1>14, <2>u
  <2>10. \A v \in tasks : \A n \in DOMAIN v.envelopes :
            \E x \in tasks' : \E l \in DOMAIN x.envelopes : x.envelopes[l] = v.envelopes[n]
    <3> SUFFICES ASSUME NEW v \in tasks, NEW n \in DOMAIN v.envelopes
                 PROVE  \E x \in tasks' : \E l \in DOMAIN x.envelopes : x.envelopes[l] = v.envelopes[n]
      OBVIOUS
    <3>1. CASE v = t
      <4>1. n \in 1..L /\ n \in DOMAIN u.envelopes
        BY <2>1, <2>4, <3>1
      <4> QED
        BY <2>4, <2>9, <3>1, <4>1
    <3>2. CASE v # t
      BY <2>9, <3>2
    <3> QED
      BY <3>1, <3>2
  <2>11. L + 1 \in DOMAIN u.envelopes /\ tasks' \subseteq tasks \cup {u} /\ u \in tasks'
    BY <2>1, <2>4, <2>9
  <2> QED
    BY <1>12, <2>4, <2>8, <2>10, <2>11
<1> QED
  BY <1>13, <1>14 DEF Receive, i, batcher

LEMMA TrackKeeps ==
    ASSUME RegistrationInv, NEW c \in queues, Track(c)
    PROVE  RegistrationInv'
<1>1. Frozen /\ phase = "running" /\ UNCHANGED <<sent, outcome, list, tasks>>
  BY DEF Track, Frozen
<1>2. EnvelopesOK /\ ListsOK /\ TasksOK /\ AllDecided /\ Len(sent) \in Nat
  BY DEF RegistrationInv, EnvelopesOK
<1>3. EnvelopesOK' /\ ListsOK' /\ SentKept /\ NotReopened
  BY <1>1, <1>2 DEF EnvelopesOK, ListsOK, SentKept, NotReopened
<1>4. TasksOK'
  BY <1>1, <1>2, <1>3, TaskStays DEF TasksOK
<1>5. AllDecided'
  BY <1>1, <1>2, DecidedStays DEF AllDecided
<1> QED
  BY <1>1, <1>3, <1>4, <1>5, FrozenKeeps DEF RegistrationInv, NotBeforeRun, Frozen

LEMMA ServeKeeps ==
    ASSUME RegistrationInv, Serve
    PROVE  RegistrationInv'
<1>1. ASSUME NEW t \in tasks, Process(t) PROVE RegistrationInv'
  BY <1>1, SpawnBatchKeeps, BuildNextKeeps, KillNextKeeps, KeepNextKeeps, RunTaskKeeps DEF Process
<1> QED
  BY <1>1, ReceiveKeeps, TrackKeeps DEF Serve

---------------------------------------------------------------------------
(* The theorems *)

LEMMA RegistrationInit == Init => RegistrationInv
<1> SUFFICES ASSUME Init PROVE RegistrationInv
  OBVIOUS
<1>1. TablesOK /\ EnvelopesOK /\ TasksOK /\ NotBeforeRun
  BY DEF Init, TablesOK, EnvelopesOK, TasksOK, NotBeforeRun
<1>2. RegistryConsistent
  BY DEF Init, RegistryConsistent
<1>3. AllDecided
  BY DEF Init, AllDecided
<1>4. ListsOK
  <2>1. list = [k \in Key |-> <<>>] /\ <<>> \in Seq(Nat) /\ Len(<<>>) = 0
    BY DEF Init
  <2>2. \A k \in Key : Len(list[k]) = 0
    BY <2>1
  <2> QED
    BY <2>1, <2>2 DEF ListsOK
<1> QED
  BY <1>1, <1>2, <1>3, <1>4 DEF RegistrationInv

LEMMA RegistrationStep == RegistrationInv /\ [Next]_vars => RegistrationInv'
<1> SUFFICES ASSUME RegistrationInv, [Next]_vars PROVE RegistrationInv'
  OBVIOUS
<1>1. CASE Idle \/ UNCHANGED vars
  <2>1. Frozen /\ UNCHANGED <<sent, outcome, dispatchers, list, tasks>>
    BY <1>1 DEF Idle, vars, running, Frozen
  <2>2. EnvelopesOK /\ ListsOK /\ TasksOK /\ AllDecided /\ NotBeforeRun /\ Len(sent) \in Nat
    BY DEF RegistrationInv, EnvelopesOK
  <2>3. EnvelopesOK' /\ ListsOK' /\ SentKept /\ NotReopened
    BY <2>1, <2>2 DEF EnvelopesOK, ListsOK, SentKept, NotReopened
  <2>4. TasksOK'
    BY <2>1, <2>2, <2>3, TaskStays DEF TasksOK
  <2>5. AllDecided'
    BY <2>1, <2>2, DecidedStays DEF AllDecided
  <2> QED
    BY <2>1, <2>2, <2>3, <2>4, <2>5, FrozenKeeps DEF RegistrationInv, NotBeforeRun, Frozen
<1> QED
  BY <1>1, RegisterKeeps, EnqueueKeeps, ServeKeeps DEF Next

(* What every reachable state satisfies: the types of the tables and of    *)
(* the envelopes, that nothing is sent before run(), that an envelope is   *)
(* at one place of one list or with one task, and for each task the places *)
(* of the jobs it has built, in step with the envelopes it has kept.       *)
THEOREM RegistrationInvariant == Spec => []RegistrationInv
BY RegistrationInit, RegistrationStep, PTL DEF Spec

(* Whatever the order of worker, worker_with and register_queue, the last  *)
(* registration of a name decides all that is said of it, no alias hides a *)
(* name or leads nowhere, and the user's queue configs are kept            *)
(* (register_worker_with, register_legacy_name, register_default_queue).   *)
THEOREM TablesAgree == Spec => []RegistryConsistent
<1>1. RegistrationInv => RegistryConsistent
  BY DEF RegistrationInv
<1> QED
  BY <1>1, RegistrationInvariant, PTL

(* For batches of any size with invalid jobs at any places: each job runs  *)
(* with the arguments of its own envelope on the worker behind its name,   *)
(* the jobs, contexts and permits left have one length when the batch runs *)
(* (the assertion of BoundBatchJob::process), only what cannot be built is *)
(* killed, and nothing taken is dropped undecided (process_pending_job,    *)
(* process_pending_batch, job_batch_factory, invalid_jobs_by_index).       *)
THEOREM EachRunAsSent == Spec => []RunAsSent
<1>1. RegistrationInv => RunAsSent
  <2> SUFFICES ASSUME RegistrationInv PROVE RunAsSent
    OBVIOUS
  <2>1. \A i \in DOMAIN sent : Decided(i)
    BY DEF RegistrationInv, AllDecided
  <2>2. \A t \in tasks : Sorted(t) => Len(t.jobs) = Len(t.kept) /\ t.keptPermits = t.kept
    BY InStep
  <2> QED
    BY <2>1, <2>2 DEF RunAsSent, Decided
<1> QED
  BY <1>1, RegistrationInvariant, PTL

=============================================================================
