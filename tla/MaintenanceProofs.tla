------------------------- MODULE MaintenanceProofs -------------------------
(***************************************************************************)
(* Proofs about Maintenance and Dashboard, for any jobs, occurrences,      *)
(* processes and calls, any expiry, any limit of the dead list, any plans, *)
(* any visitors and any size of a page.                                    *)
(***************************************************************************)
EXTENDS Dashboard, SequenceTheorems, FiniteSetTheorems, WellFoundedInduction, TLAPS

---------------------------------------------------------------------------
(* What is in a sequence *)

LEMMA InSeq == ASSUME NEW S, NEW s \in Seq(S) PROVE ToSet(s) \subseteq S
BY DEF ToSet

LEMMA InEmpty == ToSet(<<>>) = {} /\ DeadIds(<<>>) = {}
BY DEF ToSet, DeadIds

LEMMA InAppend ==
    ASSUME NEW S, NEW s \in Seq(S), NEW x \in S
    PROVE  Append(s, x) \in Seq(S) /\ ToSet(Append(s, x)) = ToSet(s) \cup {x}
<1>1. Append(s, x) \in Seq(S) /\ Len(Append(s, x)) = Len(s) + 1 /\ Len(s) \in Nat
  OBVIOUS
<1>2. Append(s, x)[Len(s) + 1] = x /\ \A i \in 1..Len(s) : Append(s, x)[i] = s[i]
  OBVIOUS
<1>3. ASSUME NEW i \in 1..(Len(s) + 1) PROVE Append(s, x)[i] \in ToSet(s) \cup {x}
  <2>1. i = Len(s) + 1 \/ i \in 1..Len(s)
    BY <1>1
  <2> QED
    BY <1>2, <2>1 DEF ToSet
<1>4. ASSUME NEW i \in 1..Len(s) PROVE s[i] \in ToSet(Append(s, x))
  <2>1. i \in DOMAIN Append(s, x)
    BY <1>1
  <2> QED
    BY <1>2, <2>1 DEF ToSet
<1>5. Len(s) + 1 \in DOMAIN Append(s, x)
  BY <1>1
<1>6. x \in ToSet(Append(s, x))
  BY <1>2, <1>5 DEF ToSet
<1> QED
  BY <1>1, <1>3, <1>4, <1>6 DEF ToSet

LEMMA InTail ==
    ASSUME NEW S, NEW s \in Seq(S), s # <<>>
    PROVE  Head(s) \in S /\ Tail(s) \in Seq(S) /\ ToSet(s) = {Head(s)} \cup ToSet(Tail(s))
<1>1. Len(s) \in Nat \ {0} /\ Head(s) = s[1] /\ Head(s) \in S
  OBVIOUS
<1>2. Tail(s) \in Seq(S) /\ Len(Tail(s)) = Len(s) - 1 /\ \A i \in 1..(Len(s) - 1) : Tail(s)[i] = s[i + 1]
  OBVIOUS
<1>3. ASSUME NEW i \in 1..Len(s) PROVE s[i] \in {Head(s)} \cup ToSet(Tail(s))
  <2>1. CASE i = 1
    BY <1>1, <2>1
  <2>2. CASE i # 1
    <3>1. i - 1 \in DOMAIN Tail(s) /\ Tail(s)[i - 1] = s[i]
      BY <1>1, <1>2, <2>2
    <3> QED
      BY <3>1 DEF ToSet
  <2> QED
    BY <2>1, <2>2
<1>4. ASSUME NEW i \in 1..(Len(s) - 1) PROVE Tail(s)[i] \in ToSet(s)
  <2>1. i + 1 \in DOMAIN s /\ Tail(s)[i] = s[i + 1]
    BY <1>1, <1>2
  <2> QED
    BY <2>1 DEF ToSet
<1>5. ToSet(Tail(s)) \subseteq ToSet(s) /\ Head(s) \in ToSet(s)
  BY <1>1, <1>2, <1>4 DEF ToSet
<1> QED
  BY <1>1, <1>2, <1>3, <1>5 DEF ToSet

LEMMA InConcat ==
    ASSUME NEW S, NEW s \in Seq(S), NEW t \in Seq(S)
    PROVE  s \o t \in Seq(S) /\ ToSet(s \o t) = ToSet(s) \cup ToSet(t)
<1>1. /\ s \o t \in Seq(S) /\ Len(s \o t) = Len(s) + Len(t) /\ Len(s) \in Nat /\ Len(t) \in Nat
      /\ \A i \in 1..Len(s) : (s \o t)[i] = s[i]
      /\ \A i \in 1..Len(t) : (s \o t)[Len(s) + i] = t[i]
  BY ConcatProperties
<1>2. ASSUME NEW i \in 1..(Len(s) + Len(t)) PROVE (s \o t)[i] \in ToSet(s) \cup ToSet(t)
  <2>1. CASE i \in 1..Len(s)
    BY <1>1, <2>1 DEF ToSet
  <2>2. CASE i \notin 1..Len(s)
    <3>1. i - Len(s) \in 1..Len(t) /\ i = Len(s) + (i - Len(s))
      BY <1>1, <2>2
    <3>2. (s \o t)[i] = t[i - Len(s)]
      BY <1>1, <3>1
    <3> QED
      BY <3>1, <3>2 DEF ToSet
  <2> QED
    BY <2>1, <2>2
<1>3. ASSUME NEW i \in 1..Len(s) PROVE s[i] \in ToSet(s \o t)
  <2>1. i \in DOMAIN (s \o t)
    BY <1>1
  <2> QED
    BY <1>1, <2>1 DEF ToSet
<1>4. ASSUME NEW i \in 1..Len(t) PROVE t[i] \in ToSet(s \o t)
  <2>1. Len(s) + i \in DOMAIN (s \o t)
    BY <1>1
  <2> QED
    BY <1>1, <2>1 DEF ToSet
<1>5. ToSet(s \o t) \subseteq ToSet(s) \cup ToSet(t)
  <2>1. DOMAIN (s \o t) = 1..(Len(s) + Len(t))
    BY <1>1
  <2> QED
    BY <1>2, <2>1 DEF ToSet
<1>6. ToSet(s) \subseteq ToSet(s \o t) /\ ToSet(t) \subseteq ToSet(s \o t)
  <2>1. ASSUME NEW x \in ToSet(s) PROVE x \in ToSet(s \o t)
    <3>1. PICK i \in 1..Len(s) : x = s[i]
      BY <2>1 DEF ToSet
    <3> QED
      BY <1>3, <3>1
  <2>2. ASSUME NEW x \in ToSet(t) PROVE x \in ToSet(s \o t)
    <3>1. PICK i \in 1..Len(t) : x = t[i]
      BY <2>2 DEF ToSet
    <3> QED
      BY <1>4, <3>1
  <2> QED
    BY <2>1, <2>2
<1> QED
  BY <1>1, <1>5, <1>6

LEMMA InReverse ==
    ASSUME NEW S, NEW s \in Seq(S)
    PROVE  Reverse(s) \in Seq(S) /\ ToSet(Reverse(s)) = ToSet(s)
<1>1. Len(s) \in Nat /\ DOMAIN s = 1..Len(s) /\ \A i \in 1..Len(s) : s[i] \in S
  OBVIOUS
<1>2. ASSUME NEW i \in 1..Len(s) PROVE (Len(s) - i) + 1 \in 1..Len(s) /\ (Len(s) - ((Len(s) - i) + 1)) + 1 = i
  BY <1>1
<1>3. Reverse(s) \in [1..Len(s) -> S]
  BY <1>1, <1>2 DEF Reverse
<1>4. Reverse(s) \in Seq(S) /\ DOMAIN Reverse(s) = 1..Len(s)
  BY <1>1, <1>3
<1>5. \A i \in 1..Len(s) : Reverse(s)[i] = s[(Len(s) - i) + 1]
  BY DEF Reverse
<1>6. ASSUME NEW i \in 1..Len(s) PROVE s[i] \in ToSet(Reverse(s))
  <2>1. (Len(s) - i) + 1 \in 1..Len(s) /\ Reverse(s)[(Len(s) - i) + 1] = s[i]
    BY <1>2, <1>5
  <2> QED
    BY <1>4, <2>1 DEF ToSet
<1>7. ASSUME NEW i \in 1..Len(s) PROVE Reverse(s)[i] \in ToSet(s)
  BY <1>1, <1>2, <1>5 DEF ToSet
<1> QED
  BY <1>1, <1>4, <1>6, <1>7 DEF ToSet

LEMMA InSetToSeq ==
    ASSUME NEW S, IsFiniteSet(S)
    PROVE  SetToSeq(S) \in Seq(S) /\ ToSet(SetToSeq(S)) = S
<1>1. Cardinality(S) \in Nat /\ ExistsBijection(1..Cardinality(S), S)
  BY FS_CardinalityType
<1>2. \E f \in [1..Cardinality(S) -> S] : IsInjective(f)
  BY <1>1 DEF ExistsBijection, Bijection, Injection, IsInjective
<1> DEFINE f == SetToSeq(S)
<1>3. f \in [1..Cardinality(S) -> S] /\ IsInjective(f)
  BY <1>2 DEF SetToSeq
<1> HIDE DEF f
<1>4. IsFiniteSet(1..Cardinality(S)) /\ Cardinality(1..Cardinality(S)) = Cardinality(S)
  BY <1>1, FS_Interval
<1>5. f \in Injection(1..Cardinality(S), S)
  BY <1>3 DEF Injection, IsInjective
<1>6. f \in Surjection(1..Cardinality(S), S)
  BY <1>4, <1>5, FS_Injection
<1>7. ToSet(f) = S
  BY <1>3, <1>6 DEF Surjection, ToSet
<1>8. f \in Seq(S)
  BY <1>1, <1>3
<1> QED
  BY <1>7, <1>8 DEF f

(* What LTRIM drops and what it keeps. *)
LEMMA InSplit ==
    ASSUME NEW S, NEW s \in Seq(S), NEW n \in 0..Len(s)
    PROVE  /\ SubSeq(s, 1, n) \in Seq(S) /\ SubSeq(s, n + 1, Len(s)) \in Seq(S)
           /\ ToSet(s) = ToSet(SubSeq(s, 1, n)) \cup ToSet(SubSeq(s, n + 1, Len(s)))
<1>1. Len(s) \in Nat /\ n \in Nat /\ n <= Len(s)
  OBVIOUS
<1>2. SubSeq(s, 1, n) \o SubSeq(s, n + 1, Len(s)) = s
  <2>1. SubSeq(s, 1, n) \o SubSeq(s, n + 1, Len(s)) = SubSeq(s, 1, Len(s))
    <3>1. 1 \in 1..Len(s) + 1 /\ n \in (1 - 1)..Len(s) /\ Len(s) \in n..Len(s)
      BY <1>1
    <3> QED
      BY <3>1, ConcatAdjacentSubSeq
  <2> QED
    BY <2>1, SubSeqFull
<1>3. SubSeq(s, 1, n) \in Seq(S) /\ SubSeq(s, n + 1, Len(s)) \in Seq(S)
  BY <1>1
<1> QED
  BY <1>2, <1>3, InConcat

LEMMA DeadIdsOf == \A s : DeadIds(s) = {e.id : e \in ToSet(s)}
BY DEF DeadIds, ToSet

LEMMA FiniteIds == IsFiniteSet(Id) /\ \A S \in SUBSET Id : IsFiniteSet(S)
<1>1. Occurrence \in SUBSET (1..MaxTime) /\ MaxTime \in Nat
  BY TimeAssumption
<1>2. IsFiniteSet(1..MaxTime)
  BY <1>1, FS_Interval
<1>3. IsFiniteSet(Occurrence)
  BY <1>1, <1>2, FS_Subset
<1>4. IsFiniteSet(Id)
  BY <1>3, JobAssumption, FS_Union DEF Id
<1> QED
  BY <1>4, FS_Subset

(* The first of later times exists: schedule.after is defined. *)
LEMMA AfterType == ASSUME NEW t PROVE After(t) \in Occurrence \cup {None}
<1> DEFINE later == { o \in Occurrence : o > t }
           Before(o) == { x \in Occurrence : x < o }
           W == { Before(o) : o \in later }
<1>1. CASE later = {}
  BY <1>1 DEF After
<1>2. CASE later # {}
  <2>1. Occurrence \subseteq Nat /\ later \subseteq Occurrence
    BY TimeAssumption
  <2>2. W \subseteq FiniteSubsetsOf(Occurrence) /\ W # {}
    <3>1. \A S \in SUBSET Occurrence : IsFiniteSet(S)
      BY FiniteIds DEF Id
    <3> QED
      BY <1>2, <3>1 DEF FiniteSubsetsOf
  <2>3. IsWellFoundedOn(StrictSubsetOrdering(Occurrence), FiniteSubsetsOf(Occurrence))
    BY FS_StrictSubsetOrderingWellFounded
  <2> HIDE DEF W
  <2>4. PICK S \in W : \A T \in W : ~(<<T, S>> \in StrictSubsetOrdering(Occurrence))
    BY <2>2, <2>3, WFMin
  <2>5. PICK o \in later : S = Before(o)
    BY DEF W
  <2>6. ASSUME NEW x \in later, x < o PROVE FALSE
    <3>1. Before(x) \in W
      BY DEF W, Before
    <3>2. Before(x) \subseteq Before(o) /\ x \in Before(o) /\ x \notin Before(x)
      <4>1. x \in Occurrence /\ x \in Nat /\ o \in Nat
        BY <2>1
      <4> HIDE DEF later
      <4>2. \A y \in Occurrence : y < x => y < o
        BY <2>1, <2>6, <4>1
      <4>3. ~(x < x) /\ x < o
        BY <2>6, <4>1
      <4>4. x \notin Before(x) /\ x \in Before(o)
        BY <4>1, <4>3, Zenon
      <4>5. Before(x) \subseteq Before(o)
        BY <4>2, Zenon
      <4> QED
        BY <4>4, <4>5
    <3>3. Before(x) \in SUBSET Occurrence /\ Before(o) \in SUBSET Occurrence
      OBVIOUS
    <3> HIDE DEF Before
    <3>4. <<Before(x), Before(o)>> \in StrictSubsetOrdering(Occurrence)
      BY <3>2, <3>3 DEF StrictSubsetOrdering
    <3> QED
      BY <2>4, <2>5, <3>1, <3>4
  <2>7. \A x \in later : o <= x
    BY <2>1, <2>6
  <2>8. \E y \in later : \A x \in later : y <= x
    BY <2>7
  <2>9. After(t) = CHOOSE y \in later : \A x \in later : y <= x
    BY <1>2 DEF After
  <2> HIDE DEF later
  <2>10. After(t) \in later
    BY <2>8, <2>9
  <2> QED
    BY <2>1, <2>10
<1> QED
  BY <1>1, <1>2

---------------------------------------------------------------------------
(* The inductive invariant *)

Entries == [id : Id, created : Nat]

(* steps at which a caller holds ids, and at which it holds dead entries *)
Moving == {"wipe", "claim", "get", "push"}
Reviving == {"revive", "revive_write", "restore"}

RedisOK ==
    /\ jobs \in [Id -> Nat \cup {None}]
    /\ queue \in Seq(Id)
    /\ zset \in [ZSet -> [Id -> Nat \cup {None}]]
    /\ dead \in Seq(Entries)
    /\ claim \in [Admin -> Seq(Entries)]
    /\ accepted \subseteq Id

(* What a caller holds; a call of revive_all_dead still has every entry it *)
(* holds in the list it claimed.                                           *)
CallerOK(c) ==
    /\ pc[c] \in Moving => ids[c] \in Seq(Id)
    /\ pc[c] = "revive_read" => c \in Admin
    /\ pc[c] \in Reviving =>
         /\ c \in Admin
         /\ ids[c] \in Seq(Entries)
         /\ DeadIds(ids[c]) \subseteq DeadIds(claim[c])
    /\ pc[c] \in {"revive_write", "restore"} => ids[c] # <<>>

CallersOK ==
    /\ pc \in [Caller -> Moving \cup Reviving \cup {"idle", "revive_read"}]
    /\ DOMAIN ids = Caller
    /\ \A c \in Caller : CallerOK(c)

(* A cleanup only collects envelopes that are older than JOB_EXPIRE_TIME. *)
ScanOK(p) ==
    /\ scan[p].pc = "scan" => "cleanup" \in plan
    /\ scan[p].cutoff <= now
    /\ scan[p].found # {} => Expired(0, scan[p].cutoff)

LoopsOK ==
    /\ now \in Nat
    /\ scan \in [Looper -> [pc : {"idle", "scan"}, cutoff : Nat, left : SUBSET Id, found : SUBSET Id]]
    /\ \A p \in Looper : ScanOK(p)
    /\ cron \in [Proc -> [pc : {"down", "wait", "check", "push", "add"},
                          next : Occurrence \cup {None}, previous : Occurrence \cup {None}, due : Nat]]
    /\ \A p \in Proc : cron[p].pc \in {"check", "push", "add"} => cron[p].next # None
    /\ drain \in [pc : {"idle", "popped", "loaded", "running", "failed"},
                  id : Id \cup {None}, created : Nat]
    /\ drain.pc = "idle" <=> drain.id = None

(* An envelope is where its job will be run, or was cut off from there. *)
Followed(j) == jobs[j] # None => Placed(j) \/ j \in stranded

(* The entries a call of revive_all_dead has still to enqueue. *)
Unrevived(a) ==
    IF pc[a] = "revive_read" THEN DeadIds(claim[a])
    ELSE IF pc[a] \in Reviving THEN DeadIds(ids[a]) ELSE {}

(* A job has its envelope, is dead, or it is known where it went. *)
Held(j) ==
    \/ jobs[j] # None
    \/ j \in DeadIds(dead)
    \/ \E a \in Admin : j \in Unrevived(a)
    \/ j \in settled \cup removed \cup stranded
    \/ "cleanup" \in plan /\ Expired(0, now)

MaintenanceInv ==
    /\ RedisOK /\ CallersOK /\ LoopsOK
    /\ \A j \in Id : Followed(j)
    /\ \A j \in accepted : Held(j)

---------------------------------------------------------------------------
(* The invariant implies the property. *)

LEMMA NoneIsNone == None \notin Nat /\ None \notin Id /\ Occurrence \subseteq Nat
<1>1. Occurrence \subseteq Nat
  BY TimeAssumption
<1> QED
  BY <1>1, NoneAssumption DEF Id

LEMMA InvImpliesKept == MaintenanceInv => JobKept
<1> SUFFICES ASSUME MaintenanceInv, NEW j \in accepted
             PROVE  \/ jobs[j] /= None /\ Placed(j)
                    \/ Buried(j)
                    \/ j \in settled \cup removed \cup stranded
                    \/ "cleanup" \in plan /\ Expired(0, now)
  BY DEF JobKept
<1>1. Held(j) /\ j \in Id /\ Followed(j)
  BY DEF MaintenanceInv, RedisOK
<1>2. CASE jobs[j] # None
  BY <1>1, <1>2 DEF Followed
<1>3. ASSUME NEW a \in Admin, j \in Unrevived(a) PROVE Buried(j)
  <2>1. a \in Caller /\ CallerOK(a)
    BY DEF MaintenanceInv, CallersOK, Caller
  <2>2. j \in DeadIds(claim[a])
    BY <1>3, <2>1 DEF Unrevived, CallerOK
  <2> QED
    BY <2>2 DEF Buried
<1>4. CASE j \in DeadIds(dead)
  BY <1>4 DEF Buried
<1> QED
  BY <1>1, <1>2, <1>3, <1>4 DEF Held

---------------------------------------------------------------------------
(* Steps of callers *)

AllSteps == Moving \cup Reviving \cup {"idle", "revive_read"}

LEMMA GotoElsewhere ==
    ASSUME CallersOK, NEW c \in Caller, NEW w, NEW l, Goto(c, w, l)
    PROVE  /\ pc'[c] = w /\ ids'[c] = l /\ DOMAIN ids' = Caller
           /\ \A d \in Caller : d # c => pc'[d] = pc[d] /\ ids'[d] = ids[d]
BY DEF CallersOK, Goto

LEMMA GotoOK ==
    ASSUME CallersOK, NEW c \in Caller, NEW w \in AllSteps, NEW l, Goto(c, w, l), CallerOK(c)',
           \A d \in Caller : d # c /\ d \in Admin => claim'[d] = claim[d]
    PROVE  CallersOK'
<1>1. pc' \in [Caller -> AllSteps]
  BY DEF CallersOK, AllSteps, Goto
<1>2. ASSUME NEW d \in Caller, d # c PROVE CallerOK(d)'
  <2>1. pc'[d] = pc[d] /\ ids'[d] = ids[d] /\ (d \in Admin => claim'[d] = claim[d])
    BY <1>2, GotoElsewhere
  <2>2. CallerOK(d)
    BY DEF CallersOK
  <2> QED
    BY <2>1, <2>2 DEF CallerOK
<1>3. \A d \in Caller : CallerOK(d)'
  BY <1>2
<1> QED
  BY <1>1, <1>3, GotoElsewhere DEF CallersOK, AllSteps

(* the ids a caller took out of a sorted set *)
Carried(c) == IF pc[c] \in {"get", "push"} THEN ToSet(ids[c]) ELSE {}

LEMMA PlacedIs ==
    \A j : Placed(j) <=> \/ j \in ToSet(queue)
                         \/ \E z \in ZSet : zset[z][j] # None
                         \/ \E c \in Caller : j \in Carried(c)
                         \/ drain.id = j
BY DEF Placed, Carried

LEMMA PlacedIsNext ==
    \A j : Placed(j)' <=> \/ j \in ToSet(queue')
                          \/ \E z \in ZSet : zset'[z][j] # None
                          \/ \E c \in Caller : j \in Carried(c)'
                          \/ drain'.id = j
BY DEF Placed, Carried

LEMMA OthersCarry ==
    ASSUME CallersOK, NEW c \in Caller, NEW w, NEW l, Goto(c, w, l)
    PROVE  /\ \A d \in Caller : d # c => Carried(d)' = Carried(d)
           /\ Carried(c)' = IF w \in {"get", "push"} THEN ToSet(l) ELSE {}
BY GotoElsewhere DEF Carried

LEMMA OthersRevive ==
    ASSUME CallersOK, NEW c \in Caller, NEW w, NEW l, Goto(c, w, l),
           \A d \in Caller : d # c /\ d \in Admin => claim'[d] = claim[d]
    PROVE  \A a \in Admin : a # c => Unrevived(a)' = Unrevived(a)
<1>1. \A a \in Admin : a \in Caller
  BY DEF Caller
<1> QED
  BY <1>1, GotoElsewhere DEF Unrevived

(* A caller that only reads keeps what it carries and has to revive. *)
LEMMA ReadingStep ==
    ASSUME MaintenanceInv, NEW c \in Caller, NEW w \in AllSteps, NEW l, Goto(c, w, l),
           UNCHANGED <<plan, now, redis, scan, cron, drain, history>>, CallerOK(c)',
           \A j \in Carried(c) : jobs[j] # None => j \in Carried(c)',
           \A j \in Unrevived(c) : jobs[j] # None \/ j \in Unrevived(c)'
    PROVE  MaintenanceInv'
<1>1. RedisOK'
  BY DEF MaintenanceInv, RedisOK, redis, history
<1>2. CallersOK'
  BY GotoOK DEF MaintenanceInv, redis
<1>3. LoopsOK'
  BY DEF MaintenanceInv, LoopsOK, ScanOK
<1>4. ASSUME NEW j \in Id PROVE Followed(j)'
  <2>1. Followed(j)
    BY DEF MaintenanceInv
  <2>2. ASSUME NEW d \in Caller, j \in Carried(d), jobs[j] # None PROVE \E e \in Caller : j \in Carried(e)'
    BY <2>2, OthersCarry DEF MaintenanceInv
  <2>3. jobs' = jobs /\ queue' = queue /\ zset' = zset /\ stranded' = stranded /\ drain' = drain
    BY DEF redis, history
  <2> QED
    BY <2>1, <2>2, <2>3, PlacedIs, PlacedIsNext DEF Followed
<1>5. ASSUME NEW j \in accepted PROVE Held(j)'
  <2>1. Held(j)
    BY DEF MaintenanceInv
  <2>2. jobs' = jobs /\ dead' = dead /\ claim' = claim /\ plan' = plan /\ now' = now
    BY DEF redis
  <2>3. settled' = settled /\ removed' = removed /\ stranded' = stranded
    BY DEF history
  <2>4. ASSUME NEW a \in Admin, j \in Unrevived(a) PROVE Held(j)'
    <3>1. CASE a = c
      BY <2>2, <2>4, <3>1 DEF Held
    <3>2. CASE a # c
      BY <2>2, <2>4, <3>2, OthersRevive DEF Held, MaintenanceInv
    <3> QED
      BY <3>1, <3>2
  <2> QED
    BY <2>1, <2>2, <2>3, <2>4 DEF Held
<1> QED
  BY <1>1, <1>2, <1>3, <1>4, <1>5 DEF MaintenanceInv, history

LEMMA AdminCalls == \A a \in Admin : a \in Caller
BY DEF Caller

LEMMA MoverCalls == \A m \in Mover : m \in Caller /\ m[2] \in ZSet
BY DEF Caller, Mover

LEMMA SetType == \A c \in Caller : Set(c) \in ZSet
BY DEF Caller, Mover, Set, ZSet

LEMMA IdListOK ==
    ASSUME NEW c, NEW w \in Moving \cup {"idle"}, NEW l \in Seq(Id), pc'[c] = w, ids'[c] = l
    PROVE  CallerOK(c)'
BY DEF CallerOK, Moving, Reviving

LEMMA WipeReadStep == ASSUME MaintenanceInv, NEW a \in Admin, WipeRead(a) PROVE MaintenanceInv'
<1>1. a \in Caller /\ Goto(a, "wipe", queue) /\ pc[a] = "idle"
  BY AdminCalls DEF WipeRead, Call
<1>2. queue \in Seq(Id) /\ CallersOK
  BY DEF MaintenanceInv, RedisOK
<1>3. CallerOK(a)'
  BY <1>1, <1>2, GotoElsewhere, IdListOK DEF Moving
<1>4. Carried(a) = {} /\ Unrevived(a) = {}
  BY <1>1 DEF Carried, Unrevived, Reviving
<1>5. UNCHANGED <<plan, now, redis, scan, cron, drain, history>>
  BY DEF WipeRead
<1> QED
  BY <1>1, <1>3, <1>4, <1>5, ReadingStep DEF AllSteps, Moving

LEMMA RetryAllNowStep == ASSUME MaintenanceInv, NEW a \in Admin, RetryAllNow(a) PROVE MaintenanceInv'
<1> DEFINE all == { j \in Id : zset["retry"][j] /= None }
<1>1. a \in Caller /\ Goto(a, "claim", SetToSeq(all)) /\ pc[a] = "idle"
  BY AdminCalls DEF RetryAllNow, Call
<1>2. SetToSeq(all) \in Seq(Id) /\ CallersOK
  <2>1. all \in SUBSET Id /\ IsFiniteSet(all)
    BY FiniteIds
  <2> HIDE DEF all
  <2>2. SetToSeq(all) \in Seq(all)
    BY <2>1, InSetToSeq
  <2> QED
    BY <2>1, <2>2 DEF MaintenanceInv
<1> HIDE DEF all
<1>3. CallerOK(a)'
  BY <1>1, <1>2, GotoElsewhere, IdListOK DEF Moving
<1>4. Carried(a) = {} /\ Unrevived(a) = {}
  BY <1>1 DEF Carried, Unrevived, Reviving
<1>5. UNCHANGED <<plan, now, redis, scan, cron, drain, history>>
  BY DEF RetryAllNow
<1> QED
  BY <1>1, <1>3, <1>4, <1>5, ReadingStep DEF AllSteps, Moving

LEMMA EnqueueScheduledStep ==
    ASSUME MaintenanceInv, NEW m \in Mover, EnqueueScheduled(m) PROVE MaintenanceInv'
<1> DEFINE due == { j \in Id : zset[m[2]][j] /= None /\ zset[m[2]][j] <= now }
<1>1. m \in Caller /\ Goto(m, "claim", SetToSeq(due)) /\ pc[m] = "idle"
  BY MoverCalls DEF EnqueueScheduled
<1>2. SetToSeq(due) \in Seq(Id) /\ CallersOK
  <2>1. due \in SUBSET Id /\ IsFiniteSet(due)
    BY FiniteIds
  <2> HIDE DEF due
  <2>2. SetToSeq(due) \in Seq(due)
    BY <2>1, InSetToSeq
  <2> QED
    BY <2>1, <2>2 DEF MaintenanceInv
<1> HIDE DEF due
<1>3. CallerOK(m)'
  BY <1>1, <1>2, GotoElsewhere, IdListOK DEF Moving
<1>4. Carried(m) = {} /\ Unrevived(m) = {}
  BY <1>1 DEF Carried, Unrevived, Reviving
<1>5. UNCHANGED <<plan, now, redis, scan, cron, drain, history>>
  BY DEF EnqueueScheduled
<1> QED
  BY <1>1, <1>3, <1>4, <1>5, ReadingStep DEF AllSteps, Moving

LEMMA GetManyStep == ASSUME MaintenanceInv, NEW c \in Caller, GetMany(c) PROVE MaintenanceInv'
<1> DEFINE live == { j \in ToSet(ids[c]) : jobs[j] /= None }
<1>1. Goto(c, "push", SetToSeq(live)) /\ pc[c] = "get"
  BY DEF GetMany
<1>2. ids[c] \in Seq(Id) /\ CallersOK
  BY <1>1 DEF MaintenanceInv, CallersOK, CallerOK, Moving
<1>3. live \in SUBSET Id /\ IsFiniteSet(live)
  <2>1. ToSet(ids[c]) \subseteq Id
    BY <1>2, InSeq
  <2> QED
    BY <2>1, FiniteIds
<1>4. Carried(c) = ToSet(ids[c]) /\ Unrevived(c) = {}
  BY <1>1 DEF Carried, Unrevived, Reviving
<1>5. \A j \in Carried(c) : jobs[j] # None => j \in live
  BY <1>4
<1> HIDE DEF live
<1>6. SetToSeq(live) \in Seq(Id) /\ ToSet(SetToSeq(live)) = live
  <2>1. SetToSeq(live) \in Seq(live) /\ ToSet(SetToSeq(live)) = live
    BY <1>3, InSetToSeq
  <2> QED
    BY <1>3, <2>1
<1>7. CallerOK(c)'
  BY <1>1, <1>2, <1>6, GotoElsewhere, IdListOK DEF Moving
<1>8. Carried(c)' = live
  BY <1>1, <1>2, <1>6, OthersCarry
<1>9. UNCHANGED <<plan, now, redis, scan, cron, drain, history>>
  BY DEF GetMany
<1> QED
  BY <1>1, <1>4, <1>5, <1>7, <1>8, <1>9, ReadingStep DEF AllSteps, Moving

LEMMA ReviveReadStep == ASSUME MaintenanceInv, NEW a \in Admin, ReviveRead(a) PROVE MaintenanceInv'
<1>1. a \in Caller /\ Goto(a, "revive", Reverse(claim[a])) /\ pc[a] = "revive_read" /\ claim' = claim
  BY AdminCalls DEF ReviveRead, redis
<1>2. claim[a] \in Seq(Entries) /\ CallersOK
  BY DEF MaintenanceInv, RedisOK
<1>3. Reverse(claim[a]) \in Seq(Entries) /\ DeadIds(Reverse(claim[a])) = DeadIds(claim[a])
  BY <1>2, InReverse, DeadIdsOf
<1>4. pc'[a] = "revive" /\ ids'[a] = Reverse(claim[a])
  BY <1>1, <1>2, GotoElsewhere
<1>5. CallerOK(a)'
  BY <1>1, <1>3, <1>4 DEF CallerOK, Moving, Reviving
<1>6. Carried(a) = {} /\ Unrevived(a) = DeadIds(claim[a]) /\ Unrevived(a)' = DeadIds(claim[a])
  BY <1>1, <1>3, <1>4 DEF Carried, Unrevived, Reviving
<1>7. UNCHANGED <<plan, now, redis, scan, cron, drain, history>>
  BY DEF ReviveRead
<1> QED
  BY <1>1, <1>5, <1>6, <1>7, ReadingStep DEF AllSteps, Reviving

LEMMA DeadIdsTail ==
    ASSUME NEW s \in Seq(Entries), s # <<>>
    PROVE  /\ Head(s) \in Entries /\ Tail(s) \in Seq(Entries)
           /\ DeadIds(s) = {Head(s).id} \cup DeadIds(Tail(s))
<1>1. Head(s) \in Entries /\ Tail(s) \in Seq(Entries) /\ ToSet(s) = {Head(s)} \cup ToSet(Tail(s))
  BY InTail
<1> QED
  BY <1>1, DeadIdsOf

LEMMA ReviveCheckStep == ASSUME MaintenanceInv, NEW a \in Admin, ReviveCheck(a) PROVE MaintenanceInv'
<1>1. a \in Caller /\ pc[a] = "revive" /\ ids[a] # <<>> /\ claim' = claim
  BY AdminCalls DEF ReviveCheck, redis
<1>2. CallersOK /\ ids[a] \in Seq(Entries) /\ DeadIds(ids[a]) \subseteq DeadIds(claim[a])
  BY <1>1 DEF MaintenanceInv, CallersOK, CallerOK, Reviving
<1>3. Tail(ids[a]) \in Seq(Entries) /\ DeadIds(ids[a]) = {Head(ids[a]).id} \cup DeadIds(Tail(ids[a]))
  BY <1>1, <1>2, DeadIdsTail
<1>4. Carried(a) = {} /\ Unrevived(a) = DeadIds(ids[a])
  BY <1>1 DEF Carried, Unrevived, Reviving
<1>5. UNCHANGED <<plan, now, redis, scan, cron, drain, history>>
  BY DEF ReviveCheck
<1>6. CASE Goto(a, "revive", Tail(ids[a])) /\ jobs[Head(ids[a]).id] /= None
  <2>1. pc'[a] = "revive" /\ ids'[a] = Tail(ids[a])
    BY <1>1, <1>2, <1>6, GotoElsewhere
  <2>2. CallerOK(a)'
    BY <1>1, <1>2, <1>3, <2>1 DEF CallerOK, Moving, Reviving
  <2>3. Unrevived(a)' = DeadIds(Tail(ids[a]))
    BY <2>1 DEF Unrevived, Reviving
  <2> QED
    BY <1>1, <1>3, <1>4, <1>5, <1>6, <2>2, <2>3, ReadingStep DEF AllSteps, Reviving
<1>7. CASE Goto(a, "revive_write", ids[a])
  <2>1. pc'[a] = "revive_write" /\ ids'[a] = ids[a]
    BY <1>1, <1>2, <1>7, GotoElsewhere
  <2>2. CallerOK(a)'
    BY <1>1, <1>2, <2>1 DEF CallerOK, Moving, Reviving
  <2>3. Unrevived(a)' = DeadIds(ids[a])
    BY <2>1 DEF Unrevived, Reviving
  <2> QED
    BY <1>1, <1>4, <1>5, <1>7, <2>2, <2>3, ReadingStep DEF AllSteps, Reviving
<1> QED
  BY <1>6, <1>7 DEF ReviveCheck

---------------------------------------------------------------------------
(* Steps that write *)

LEMMA CallersRest ==
    ASSUME CallersOK, UNCHANGED <<pc, ids, claim>>
    PROVE  CallersOK' /\ \A c : Carried(c)' = Carried(c) /\ Unrevived(c)' = Unrevived(c)
BY DEF CallersOK, CallerOK, Carried, Unrevived

LEMMA LoopsRest ==
    ASSUME LoopsOK, UNCHANGED <<plan, now, scan, cron, drain>> PROVE LoopsOK'
BY DEF LoopsOK, ScanOK

LEMMA StutterStep == ASSUME MaintenanceInv, UNCHANGED vars PROVE MaintenanceInv'
<1>1. UNCHANGED <<plan, now, jobs, queue, zset, dead, claim, pc, ids, scan, cron, drain>>
  BY DEF vars, redis, memory
<1>2. UNCHANGED <<accepted, settled, removed, stranded>>
  BY DEF vars, history
<1>3. RedisOK'
  BY <1>1, <1>2 DEF MaintenanceInv, RedisOK
<1>4. CallersOK' /\ \A c : Carried(c)' = Carried(c) /\ Unrevived(c)' = Unrevived(c)
  BY <1>1, CallersRest DEF MaintenanceInv
<1>5. LoopsOK'
  BY <1>1, LoopsRest DEF MaintenanceInv
<1>6. \A j \in Id : Followed(j)'
  BY <1>1, <1>2 DEF MaintenanceInv, Followed, Placed
<1>7. \A j \in accepted : Held(j)'
  BY <1>1, <1>2, <1>4 DEF MaintenanceInv, Held
<1> QED
  BY <1>2, <1>3, <1>4, <1>5, <1>6, <1>7 DEF MaintenanceInv

LEMMA TickStep == ASSUME MaintenanceInv, Tick PROVE MaintenanceInv'
<1>1. UNCHANGED <<plan, jobs, queue, zset, dead, claim, pc, ids, scan, cron, drain>> /\ now' = now + 1
  BY DEF Tick, redis, memory
<1>2. UNCHANGED <<accepted, settled, removed, stranded>>
  BY DEF Tick, history
<1>3. RedisOK'
  BY <1>1, <1>2 DEF MaintenanceInv, RedisOK
<1>4. CallersOK' /\ \A c : Carried(c)' = Carried(c) /\ Unrevived(c)' = Unrevived(c)
  BY <1>1, CallersRest DEF MaintenanceInv
<1>5. LoopsOK'
  <2>1. ASSUME NEW p \in Looper PROVE ScanOK(p)'
    <3>1. ScanOK(p) /\ scan[p].cutoff \in Nat /\ now \in Nat
      BY DEF MaintenanceInv, LoopsOK
    <3> QED
      BY <1>1, <3>1 DEF ScanOK
  <2> QED
    BY <1>1, <2>1 DEF MaintenanceInv, LoopsOK
<1>6. \A j \in Id : Followed(j)'
  BY <1>1, <1>2 DEF MaintenanceInv, Followed, Placed
<1>7. Expired(0, now) => Expired(0, now')
  BY <1>1, TimeAssumption DEF MaintenanceInv, LoopsOK, Expired
<1>8. \A j \in accepted : Held(j)'
  BY <1>1, <1>2, <1>4, <1>7 DEF MaintenanceInv, Held
<1> QED
  BY <1>2, <1>3, <1>4, <1>5, <1>6, <1>8 DEF MaintenanceInv

LEMMA EnqueueStep == ASSUME MaintenanceInv, NEW j \in Job, Enqueue(j) PROVE MaintenanceInv'
<1>1. /\ UNCHANGED <<plan, now, dead, claim, pc, ids, scan, cron, drain>>
      /\ UNCHANGED <<settled, removed, stranded>>
      /\ jobs' = [jobs EXCEPT ![j] = now]
      /\ accepted' = accepted \cup {j}
  BY DEF Enqueue, memory
<1>2. j \in Id /\ now \in Nat /\ Delay[j] \in Nat /\ now + Delay[j] \in Nat /\ "schedule" \in ZSet
  BY JobAssumption DEF Id, ZSet, MaintenanceInv, LoopsOK
<1>3. RedisOK
  BY DEF MaintenanceInv
<1>4. jobs' \in [Id -> Nat \cup {None}] /\ accepted' \subseteq Id
  BY <1>1, <1>2, <1>3 DEF RedisOK
<1>5. CallersOK' /\ \A c : Carried(c)' = Carried(c) /\ Unrevived(c)' = Unrevived(c)
  BY <1>1, CallersRest DEF MaintenanceInv
<1>6. LoopsOK'
  BY <1>1, LoopsRest DEF MaintenanceInv
<1>7. /\ queue' \in Seq(Id) /\ zset' \in [ZSet -> [Id -> Nat \cup {None}]]
      /\ ToSet(queue) \subseteq ToSet(queue')
      /\ \A z \in ZSet : \A i \in Id : zset[z][i] # None => zset'[z][i] # None
      /\ j \in ToSet(queue') \/ zset'["schedule"][j] # None
  <2>1. CASE queue' = Append(queue, j) /\ zset' = zset
    <3>1. queue' \in Seq(Id) /\ ToSet(queue') = ToSet(queue) \cup {j}
      BY <1>2, <1>3, <2>1, InAppend DEF RedisOK
    <3> QED
      BY <1>3, <2>1, <3>1 DEF RedisOK
  <2>2. CASE zset' = [zset EXCEPT !["schedule"][j] = now + Delay[j]] /\ queue' = queue
    <3>1. zset' \in [ZSet -> [Id -> Nat \cup {None}]]
      BY <1>2, <1>3, <2>2 DEF RedisOK
    <3>2. \A z \in ZSet : \A i \in Id : zset[z][i] # None => zset'[z][i] # None
      BY <1>2, <1>3, <2>2, NoneIsNone DEF RedisOK
    <3>3. zset'["schedule"][j] # None
      BY <1>2, <1>3, <2>2, NoneIsNone DEF RedisOK
    <3> QED
      BY <1>3, <2>2, <3>1, <3>2, <3>3 DEF RedisOK
  <2> QED
    BY <2>1, <2>2 DEF Enqueue
<1>8. RedisOK'
  BY <1>1, <1>3, <1>4, <1>7 DEF RedisOK
<1>9. ASSUME NEW i \in Id PROVE Followed(i)'
  <2>1. CASE i = j
    BY <1>2, <1>7, <2>1, PlacedIsNext DEF Followed
  <2>2. CASE i # j
    <3>1. jobs'[i] = jobs[i] /\ stranded' = stranded /\ drain' = drain
      BY <1>1, <1>3, <2>2 DEF RedisOK
    <3>2. Placed(i) => Placed(i)'
      BY <1>5, <1>7, <3>1, PlacedIs, PlacedIsNext
    <3> QED
      BY <3>1, <3>2 DEF Followed, MaintenanceInv
  <2> QED
    BY <2>1, <2>2
<1>10. ASSUME NEW i \in accepted' PROVE Held(i)'
  <2>1. CASE i = j
    <3>1. jobs'[i] # None
      BY <1>1, <1>2, <1>3, <2>1, NoneIsNone DEF RedisOK
    <3> QED
      BY <3>1 DEF Held
  <2>2. CASE i # j
    <3>1. i \in accepted /\ Held(i) /\ i \in Id
      BY <1>1, <1>3, <2>2 DEF MaintenanceInv, RedisOK
    <3>2. jobs'[i] = jobs[i]
      BY <1>1, <1>3, <2>2, <3>1 DEF RedisOK
    <3> QED
      BY <1>1, <1>5, <3>1, <3>2 DEF Held
  <2> QED
    BY <2>1, <2>2
<1> QED
  BY <1>5, <1>6, <1>8, <1>9, <1>10 DEF MaintenanceInv

LEMMA HDelOK ==
    ASSUME RedisOK, NEW G, jobs' = HDel(G)
    PROVE  /\ jobs' \in [Id -> Nat \cup {None}]
           /\ \A j \in Id : jobs'[j] = IF j \in G THEN None ELSE jobs[j]
BY DEF RedisOK, HDel

LEMMA EmptyOK ==
    ASSUME NEW c, pc'[c] = "idle" PROVE CallerOK(c)'
BY DEF CallerOK, Moving, Reviving

LEMMA WipeDeleteStep == ASSUME MaintenanceInv, NEW a \in Admin, WipeDelete(a) PROVE MaintenanceInv'
<1>1. /\ UNCHANGED <<plan, now, zset, dead, claim, scan, cron, drain, accepted, settled>>
      /\ pc[a] = "wipe" /\ a \in Caller
      /\ jobs' = HDel(ToSet(ids[a])) /\ queue' = <<>>
      /\ removed' = removed \cup ToSet(ids[a])
      /\ stranded' = stranded \cup (ToSet(queue) \ ToSet(ids[a]))
      /\ Goto(a, "idle", <<>>)
  BY AdminCalls DEF WipeDelete
<1>2. RedisOK /\ CallersOK /\ LoopsOK
  BY DEF MaintenanceInv
<1>3. /\ jobs' \in [Id -> Nat \cup {None}]
      /\ \A j \in Id : jobs'[j] = IF j \in ToSet(ids[a]) THEN None ELSE jobs[j]
  BY <1>1, <1>2, HDelOK
<1>4. RedisOK'
  BY <1>1, <1>2, <1>3 DEF RedisOK
<1>5. pc'[a] = "idle"
  BY <1>1, <1>2, GotoElsewhere
<1>6. CallersOK'
  BY <1>1, <1>2, <1>5, EmptyOK, GotoOK DEF AllSteps
<1>7. LoopsOK'
  BY <1>1, <1>2, LoopsRest
<1>8. Carried(a) = {} /\ Unrevived(a) = {} /\ Unrevived(a)' = {}
  BY <1>1, <1>5 DEF Carried, Unrevived, Reviving
<1>9. /\ \A d \in Caller : d # a => Carried(d)' = Carried(d)
      /\ \A d \in Admin : d # a => Unrevived(d)' = Unrevived(d)
  BY <1>1, <1>2, OthersCarry, OthersRevive
<1>10. ASSUME NEW j \in Id PROVE Followed(j)'
  <2>1. CASE j \in ToSet(ids[a])
    BY <1>3, <2>1 DEF Followed
  <2>2. CASE j \notin ToSet(ids[a])
    <3>1. jobs'[j] = jobs[j] /\ Followed(j)
      BY <1>3, <2>2 DEF MaintenanceInv
    <3>2. CASE j \in ToSet(queue)
      BY <1>1, <2>2, <3>2 DEF Followed
    <3>3. CASE j \notin ToSet(queue)
      <4>1. Placed(j) => Placed(j)'
        BY <1>1, <1>8, <1>9, <3>3, PlacedIs, PlacedIsNext
      <4> QED
        BY <1>1, <3>1, <4>1 DEF Followed
    <3> QED
      BY <3>2, <3>3
  <2> QED
    BY <2>1, <2>2
<1>11. ASSUME NEW j \in accepted PROVE Held(j)'
  <2>1. Held(j) /\ j \in Id
    BY <1>2 DEF MaintenanceInv, RedisOK
  <2>2. \A d \in Admin : j \in Unrevived(d) => j \in Unrevived(d)'
    BY <1>8, <1>9
  <2>3. jobs[j] # None => jobs'[j] # None \/ j \in removed'
    BY <1>1, <1>3, <2>1
  <2> QED
    BY <1>1, <2>1, <2>2, <2>3 DEF Held
<1> QED
  BY <1>1, <1>4, <1>6, <1>7, <1>10, <1>11 DEF MaintenanceInv

LEMMA WipeDeadStep == ASSUME MaintenanceInv, NEW a \in Admin, WipeDead(a) PROVE MaintenanceInv'
<1>1. /\ UNCHANGED <<plan, now, jobs, queue, zset, claim, pc, ids, scan, cron, drain>>
      /\ UNCHANGED <<accepted, settled, stranded>>
      /\ dead' = <<>> /\ removed' = removed \cup DeadIds(dead)
  BY DEF WipeDead, memory
<1>2. RedisOK /\ CallersOK /\ LoopsOK
  BY DEF MaintenanceInv
<1>3. RedisOK'
  BY <1>1, <1>2 DEF RedisOK
<1>4. CallersOK' /\ \A c : Carried(c)' = Carried(c) /\ Unrevived(c)' = Unrevived(c)
  BY <1>1, <1>2, CallersRest
<1>5. LoopsOK'
  BY <1>1, <1>2, LoopsRest
<1>6. \A j \in Id : Followed(j)'
  BY <1>1 DEF MaintenanceInv, Followed, Placed
<1>7. \A j \in accepted : Held(j)'
  BY <1>1, <1>4 DEF MaintenanceInv, Held
<1> QED
  BY <1>1, <1>3, <1>4, <1>5, <1>6, <1>7 DEF MaintenanceInv

LEMMA DeleteJobStep ==
    ASSUME MaintenanceInv, NEW a \in Admin, NEW i \in Id, DeleteJob(a, i) PROVE MaintenanceInv'
<1>1. /\ UNCHANGED <<plan, now, queue, zset, dead, claim, pc, ids, scan, cron, drain>>
      /\ UNCHANGED <<accepted, settled, stranded>>
      /\ jobs' = HDel({i}) /\ removed' = removed \cup {i}
  BY DEF DeleteJob, memory
<1>2. RedisOK /\ CallersOK /\ LoopsOK
  BY DEF MaintenanceInv
<1>3. /\ jobs' \in [Id -> Nat \cup {None}]
      /\ \A j \in Id : jobs'[j] = IF j \in {i} THEN None ELSE jobs[j]
  BY <1>1, <1>2, HDelOK
<1>4. RedisOK'
  BY <1>1, <1>2, <1>3 DEF RedisOK
<1>5. CallersOK' /\ \A c : Carried(c)' = Carried(c) /\ Unrevived(c)' = Unrevived(c)
  BY <1>1, <1>2, CallersRest
<1>6. LoopsOK'
  BY <1>1, <1>2, LoopsRest
<1>7. ASSUME NEW j \in Id PROVE Followed(j)'
  <2>1. Placed(j)' = Placed(j) /\ Followed(j)
    BY <1>1 DEF Placed, MaintenanceInv
  <2> QED
    BY <1>1, <1>3, <2>1 DEF Followed
<1>8. ASSUME NEW j \in accepted PROVE Held(j)'
  <2>1. Held(j) /\ j \in Id
    BY <1>2 DEF MaintenanceInv, RedisOK
  <2> QED
    BY <1>1, <1>3, <1>5, <2>1 DEF Held
<1> QED
  BY <1>1, <1>4, <1>5, <1>6, <1>7, <1>8 DEF MaintenanceInv

LEMMA ReviveClaimStep == ASSUME MaintenanceInv, NEW a \in Admin, ReviveClaim(a) PROVE MaintenanceInv'
<1>1. /\ UNCHANGED <<plan, now, jobs, queue, zset, scan, cron, drain>>
      /\ UNCHANGED <<accepted, settled, removed, stranded>>
      /\ pc[a] = "idle" /\ a \in Caller
      /\ dead' = <<>> /\ claim' = [claim EXCEPT ![a] = dead]
      /\ Goto(a, "revive_read", <<>>)
  BY AdminCalls DEF ReviveClaim, Call, history
<1>2. RedisOK /\ CallersOK /\ LoopsOK
  BY DEF MaintenanceInv
<1>3. claim' \in [Admin -> Seq(Entries)] /\ claim'[a] = dead /\ \A d \in Admin : d # a => claim'[d] = claim[d]
  BY <1>1, <1>2 DEF RedisOK
<1>4. RedisOK'
  BY <1>1, <1>2, <1>3 DEF RedisOK
<1>5. pc'[a] = "revive_read"
  BY <1>1, <1>2, GotoElsewhere
<1>6. CallerOK(a)'
  BY <1>5 DEF CallerOK, Moving, Reviving
<1>7. CallersOK'
  BY <1>1, <1>2, <1>3, <1>6, GotoOK DEF AllSteps
<1>8. LoopsOK'
  BY <1>1, <1>2, LoopsRest
<1>9. Carried(a) = {} /\ Unrevived(a) = {} /\ Unrevived(a)' = DeadIds(dead)
  BY <1>1, <1>3, <1>5 DEF Carried, Unrevived, Reviving
<1>10. /\ \A d \in Caller : d # a => Carried(d)' = Carried(d)
       /\ \A d \in Admin : d # a => Unrevived(d)' = Unrevived(d)
  BY <1>1, <1>2, <1>3, OthersCarry, OthersRevive
<1>11. ASSUME NEW j \in Id PROVE Followed(j)'
  <2>1. Placed(j) => Placed(j)'
    BY <1>1, <1>9, <1>10, PlacedIs, PlacedIsNext
  <2> QED
    BY <1>1, <2>1 DEF Followed, MaintenanceInv
<1>12. ASSUME NEW j \in accepted PROVE Held(j)'
  <2>1. Held(j)
    BY DEF MaintenanceInv
  <2>2. \A d \in Admin : j \in Unrevived(d) => j \in Unrevived(d)'
    BY <1>9, <1>10
  <2>3. j \in DeadIds(dead) => j \in Unrevived(a)'
    BY <1>9
  <2> QED
    BY <1>1, <2>1, <2>2, <2>3 DEF Held
<1> QED
  BY <1>1, <1>4, <1>7, <1>8, <1>11, <1>12 DEF MaintenanceInv

(* An entry goes back to the hash and the queue. *)
LEMMA RevivedOK ==
    ASSUME RedisOK, NEW e \in Entries, Revived(e)
    PROVE  /\ jobs' \in [Id -> Nat \cup {None}] /\ queue' \in Seq(Id)
           /\ jobs'[e.id] # None /\ \A j \in Id : j # e.id => jobs'[j] = jobs[j]
           /\ ToSet(queue') = ToSet(queue) \cup {e.id}
<1>1. e.id \in Id /\ e.created \in Nat
  BY DEF Entries
<1>2. queue' \in Seq(Id) /\ ToSet(queue') = ToSet(queue) \cup {e.id}
  BY <1>1, InAppend DEF Revived, RedisOK
<1> QED
  BY <1>1, <1>2, NoneIsNone DEF Revived, RedisOK

LEMMA ReviveWriteStep == ASSUME MaintenanceInv, NEW a \in Admin, ReviveWrite(a) PROVE MaintenanceInv'
<1> DEFINE e == Head(ids[a])
<1>1. /\ UNCHANGED <<plan, now, zset, dead, claim, scan, cron, drain>>
      /\ UNCHANGED <<accepted, settled, removed, stranded>>
      /\ pc[a] = "revive_write" /\ a \in Caller
      /\ Revived(e) /\ Goto(a, "revive", Tail(ids[a]))
  BY AdminCalls DEF ReviveWrite, history
<1>2. RedisOK /\ CallersOK /\ LoopsOK
  BY DEF MaintenanceInv
<1>3. ids[a] \in Seq(Entries) /\ ids[a] # <<>> /\ DeadIds(ids[a]) \subseteq DeadIds(claim[a])
  BY <1>1, <1>2 DEF CallersOK, CallerOK, Reviving
<1>4. e \in Entries /\ Tail(ids[a]) \in Seq(Entries) /\ DeadIds(ids[a]) = {e.id} \cup DeadIds(Tail(ids[a]))
  BY <1>3, DeadIdsTail
<1> HIDE DEF e
<1>5. /\ jobs' \in [Id -> Nat \cup {None}] /\ queue' \in Seq(Id)
      /\ jobs'[e.id] # None /\ \A j \in Id : j # e.id => jobs'[j] = jobs[j]
      /\ ToSet(queue') = ToSet(queue) \cup {e.id}
  BY <1>1, <1>2, <1>4, RevivedOK
<1>6. RedisOK'
  BY <1>1, <1>2, <1>5 DEF RedisOK
<1>7. pc'[a] = "revive" /\ ids'[a] = Tail(ids[a])
  BY <1>1, <1>2, GotoElsewhere
<1>8. CallerOK(a)'
  BY <1>1, <1>3, <1>4, <1>7 DEF CallerOK, Moving, Reviving
<1>9. CallersOK'
  BY <1>1, <1>2, <1>8, GotoOK DEF AllSteps, Reviving
<1>10. LoopsOK'
  BY <1>1, <1>2, LoopsRest
<1>11. Carried(a) = {} /\ Unrevived(a) = DeadIds(ids[a]) /\ Unrevived(a)' = DeadIds(Tail(ids[a]))
  BY <1>1, <1>7 DEF Carried, Unrevived, Reviving
<1>12. /\ \A d \in Caller : d # a => Carried(d)' = Carried(d)
       /\ \A d \in Admin : d # a => Unrevived(d)' = Unrevived(d)
  BY <1>1, <1>2, OthersCarry, OthersRevive
<1>13. ASSUME NEW j \in Id PROVE Followed(j)'
  <2>1. Placed(j) => Placed(j)'
    BY <1>1, <1>5, <1>11, <1>12, PlacedIs, PlacedIsNext
  <2>2. j = e.id => Placed(j)'
    BY <1>5, PlacedIsNext
  <2> QED
    BY <1>1, <1>5, <2>1, <2>2 DEF Followed, MaintenanceInv
<1>14. ASSUME NEW j \in accepted PROVE Held(j)'
  <2>1. Held(j) /\ j \in Id
    BY <1>2 DEF MaintenanceInv, RedisOK
  <2>2. \A d \in Admin : j \in Unrevived(d) => j \in Unrevived(d)' \/ j = e.id
    BY <1>4, <1>11, <1>12
  <2> QED
    BY <1>1, <1>5, <2>1, <2>2 DEF Held
<1> QED
  BY <1>1, <1>6, <1>9, <1>10, <1>13, <1>14 DEF MaintenanceInv

LEMMA ReviveFailsStep == ASSUME MaintenanceInv, NEW a \in Admin, ReviveFails(a) PROVE MaintenanceInv'
<1> DEFINE e == Head(ids[a])
<1>1. /\ UNCHANGED <<plan, now, zset, dead, claim, scan, cron, drain>>
      /\ UNCHANGED <<accepted, settled, removed, stranded>>
      /\ pc[a] \in {"revive", "revive_write"} /\ a \in Caller /\ ids[a] # <<>>
      /\ UNCHANGED <<jobs, queue>> \/ Revived(e)
      /\ Goto(a, "restore", ids[a])
  BY AdminCalls DEF ReviveFails
<1>2. RedisOK /\ CallersOK /\ LoopsOK
  BY DEF MaintenanceInv
<1>3. ids[a] \in Seq(Entries) /\ DeadIds(ids[a]) \subseteq DeadIds(claim[a])
  BY <1>1, <1>2 DEF CallersOK, CallerOK, Reviving
<1>4. e \in Entries
  BY <1>1, <1>3, DeadIdsTail
<1> HIDE DEF e
<1>5. /\ jobs' \in [Id -> Nat \cup {None}] /\ queue' \in Seq(Id)
      /\ ToSet(queue) \subseteq ToSet(queue')
      /\ \A j \in Id : jobs'[j] = jobs[j] \/ (jobs'[j] # None /\ j \in ToSet(queue'))
  <2>1. CASE UNCHANGED <<jobs, queue>>
    BY <1>2, <2>1 DEF RedisOK
  <2>2. CASE Revived(e)
    <3>1. /\ jobs' \in [Id -> Nat \cup {None}] /\ queue' \in Seq(Id)
          /\ jobs'[e.id] # None /\ \A j \in Id : j # e.id => jobs'[j] = jobs[j]
          /\ ToSet(queue') = ToSet(queue) \cup {e.id}
      BY <1>2, <1>4, <2>2, RevivedOK
    <3> QED
      BY <3>1
  <2> QED
    BY <1>1, <2>1, <2>2
<1>6. RedisOK'
  BY <1>1, <1>2, <1>5 DEF RedisOK
<1>7. pc'[a] = "restore" /\ ids'[a] = ids[a]
  BY <1>1, <1>2, GotoElsewhere
<1>8. CallerOK(a)'
  BY <1>1, <1>3, <1>7 DEF CallerOK, Moving, Reviving
<1>9. CallersOK'
  BY <1>1, <1>2, <1>8, GotoOK DEF AllSteps, Reviving
<1>10. LoopsOK'
  BY <1>1, <1>2, LoopsRest
<1>11. Carried(a) = {} /\ Unrevived(a) = DeadIds(ids[a]) /\ Unrevived(a)' = DeadIds(ids[a])
  BY <1>1, <1>7 DEF Carried, Unrevived, Reviving
<1>12. /\ \A d \in Caller : d # a => Carried(d)' = Carried(d)
       /\ \A d \in Admin : d # a => Unrevived(d)' = Unrevived(d)
  BY <1>1, <1>2, OthersCarry, OthersRevive
<1>13. ASSUME NEW j \in Id PROVE Followed(j)'
  <2>1. Placed(j) => Placed(j)'
    BY <1>1, <1>5, <1>11, <1>12, PlacedIs, PlacedIsNext
  <2>2. j \in ToSet(queue') => Placed(j)'
    BY PlacedIsNext
  <2> QED
    BY <1>1, <1>5, <2>1, <2>2 DEF Followed, MaintenanceInv
<1>14. ASSUME NEW j \in accepted PROVE Held(j)'
  <2>1. Held(j) /\ j \in Id
    BY <1>2 DEF MaintenanceInv, RedisOK
  <2>2. \A d \in Admin : j \in Unrevived(d) => j \in Unrevived(d)'
    BY <1>11, <1>12
  <2> QED
    BY <1>1, <1>5, <2>1, <2>2 DEF Held
<1> QED
  BY <1>1, <1>6, <1>9, <1>10, <1>13, <1>14 DEF MaintenanceInv

LEMMA RestoreStep == ASSUME MaintenanceInv, NEW a \in Admin, Restore(a) PROVE MaintenanceInv'
<1>1. /\ UNCHANGED <<plan, now, jobs, queue, zset, scan, cron, drain>>
      /\ UNCHANGED <<accepted, settled, removed, stranded>>
      /\ pc[a] = "restore" /\ a \in Caller
      /\ dead' = Reverse(ids[a]) \o dead
      /\ claim' = [claim EXCEPT ![a] = <<>>]
      /\ Goto(a, "idle", <<>>)
  BY AdminCalls DEF Restore, history
<1>2. RedisOK /\ CallersOK /\ LoopsOK
  BY DEF MaintenanceInv
<1>3. ids[a] \in Seq(Entries)
  BY <1>1, <1>2 DEF CallersOK, CallerOK, Reviving
<1>4. dead' \in Seq(Entries) /\ DeadIds(dead') = DeadIds(ids[a]) \cup DeadIds(dead)
  <2>1. Reverse(ids[a]) \in Seq(Entries) /\ ToSet(Reverse(ids[a])) = ToSet(ids[a])
    BY <1>3, InReverse
  <2>2. dead \in Seq(Entries)
    BY <1>2 DEF RedisOK
  <2>3. dead' \in Seq(Entries) /\ ToSet(dead') = ToSet(ids[a]) \cup ToSet(dead)
    BY <1>1, <2>1, <2>2, InConcat
  <2> QED
    BY <2>3, DeadIdsOf
<1>5. claim' \in [Admin -> Seq(Entries)] /\ \A d \in Admin : d # a => claim'[d] = claim[d]
  BY <1>1, <1>2 DEF RedisOK
<1>6. RedisOK'
  BY <1>1, <1>2, <1>4, <1>5 DEF RedisOK
<1>7. pc'[a] = "idle"
  BY <1>1, <1>2, GotoElsewhere
<1>8. CallersOK'
  BY <1>1, <1>2, <1>5, <1>7, EmptyOK, GotoOK DEF AllSteps
<1>9. LoopsOK'
  BY <1>1, <1>2, LoopsRest
<1>10. Carried(a) = {} /\ Unrevived(a) = DeadIds(ids[a])
  BY <1>1 DEF Carried, Unrevived, Reviving
<1>11. /\ \A d \in Caller : d # a => Carried(d)' = Carried(d)
       /\ \A d \in Admin : d # a => Unrevived(d)' = Unrevived(d)
  BY <1>1, <1>2, <1>5, OthersCarry, OthersRevive
<1>12. ASSUME NEW j \in Id PROVE Followed(j)'
  <2>1. Placed(j) => Placed(j)'
    BY <1>1, <1>10, <1>11, PlacedIs, PlacedIsNext
  <2> QED
    BY <1>1, <2>1 DEF Followed, MaintenanceInv
<1>13. ASSUME NEW j \in accepted PROVE Held(j)'
  <2>1. Held(j)
    BY DEF MaintenanceInv
  <2>2. \A d \in Admin : j \in Unrevived(d) => j \in Unrevived(d)' \/ j \in DeadIds(dead')
    BY <1>4, <1>10, <1>11
  <2> QED
    BY <1>1, <1>4, <2>1, <2>2 DEF Held
<1> QED
  BY <1>1, <1>6, <1>8, <1>9, <1>12, <1>13 DEF MaintenanceInv

LEMMA ReviveDoneStep == ASSUME MaintenanceInv, NEW a \in Admin, ReviveDone(a) PROVE MaintenanceInv'
<1>1. /\ UNCHANGED <<plan, now, jobs, queue, zset, dead, scan, cron, drain>>
      /\ UNCHANGED <<accepted, settled, removed, stranded>>
      /\ pc[a] = "revive" /\ a \in Caller /\ ids[a] = <<>>
      /\ claim' = [claim EXCEPT ![a] = <<>>]
      /\ Goto(a, "idle", <<>>)
  BY AdminCalls DEF ReviveDone, history
<1>2. RedisOK /\ CallersOK /\ LoopsOK
  BY DEF MaintenanceInv
<1>3. claim' \in [Admin -> Seq(Entries)] /\ \A d \in Admin : d # a => claim'[d] = claim[d]
  BY <1>1, <1>2 DEF RedisOK
<1>4. RedisOK'
  BY <1>1, <1>2, <1>3 DEF RedisOK
<1>5. pc'[a] = "idle"
  BY <1>1, <1>2, GotoElsewhere
<1>6. CallersOK'
  BY <1>1, <1>2, <1>3, <1>5, EmptyOK, GotoOK DEF AllSteps
<1>7. LoopsOK'
  BY <1>1, <1>2, LoopsRest
<1>8. Carried(a) = {} /\ Unrevived(a) = {}
  BY <1>1, InEmpty DEF Carried, Unrevived, Reviving
<1>9. /\ \A d \in Caller : d # a => Carried(d)' = Carried(d)
      /\ \A d \in Admin : d # a => Unrevived(d)' = Unrevived(d)
  BY <1>1, <1>2, <1>3, OthersCarry, OthersRevive
<1>10. ASSUME NEW j \in Id PROVE Followed(j)'
  <2>1. Placed(j) => Placed(j)'
    BY <1>1, <1>8, <1>9, PlacedIs, PlacedIsNext
  <2> QED
    BY <1>1, <2>1 DEF Followed, MaintenanceInv
<1>11. ASSUME NEW j \in accepted PROVE Held(j)'
  <2>1. Held(j)
    BY DEF MaintenanceInv
  <2>2. \A d \in Admin : j \in Unrevived(d) => j \in Unrevived(d)'
    BY <1>8, <1>9
  <2> QED
    BY <1>1, <2>1, <2>2 DEF Held
<1> QED
  BY <1>1, <1>4, <1>6, <1>7, <1>10, <1>11 DEF MaintenanceInv

LEMMA ClaimStep == ASSUME MaintenanceInv, NEW c \in Caller, Claim(c) PROVE MaintenanceInv'
<1> DEFINE mine == { j \in ToSet(ids[c]) : zset[Set(c)][j] /= None }
           w == IF mine = {} THEN "idle" ELSE "get"
           l == IF mine = {} THEN <<>> ELSE SetToSeq(mine)
<1>1. /\ UNCHANGED <<plan, now, jobs, queue, dead, claim, scan, cron, drain>>
      /\ UNCHANGED <<accepted, settled, removed, stranded>>
      /\ pc[c] = "claim"
      /\ zset' = [zset EXCEPT ![Set(c)] = [j \in Id |-> IF j \in mine THEN None ELSE @[j]]]
      /\ Goto(c, w, l)
  BY DEF Claim, history
<1>2. RedisOK /\ CallersOK /\ LoopsOK
  BY DEF MaintenanceInv
<1>3. ids[c] \in Seq(Id)
  BY <1>1, <1>2 DEF CallersOK, CallerOK, Moving
<1>4. mine \in SUBSET Id /\ IsFiniteSet(mine)
  <2>1. ToSet(ids[c]) \subseteq Id
    BY <1>3, InSeq
  <2> QED
    BY <2>1, FiniteIds
<1> HIDE DEF mine
<1>5. w \in Moving \cup {"idle"} /\ w \in AllSteps /\ l \in Seq(Id) /\ (w = "get" => ToSet(l) = mine) /\ (w # "get" => mine = {})
  <2>1. SetToSeq(mine) \in Seq(mine) /\ ToSet(SetToSeq(mine)) = mine
    BY <1>4, InSetToSeq
  <2> QED
    BY <1>4, <2>1 DEF Moving, AllSteps
<1> HIDE DEF w, l
<1>6. Set(c) \in ZSet
  BY SetType
<1>7. /\ zset' \in [ZSet -> [Id -> Nat \cup {None}]]
      /\ \A z \in ZSet : \A j \in Id : j \notin mine => zset'[z][j] = zset[z][j]
  BY <1>1, <1>2, <1>6 DEF RedisOK
<1>8. RedisOK'
  BY <1>1, <1>2, <1>7 DEF RedisOK
<1>9. pc'[c] = w /\ ids'[c] = l
  BY <1>1, <1>2, GotoElsewhere
<1>10. CallerOK(c)'
  BY <1>5, <1>9, IdListOK
<1>11. CallersOK'
  BY <1>1, <1>2, <1>5, <1>10, GotoOK
<1>12. LoopsOK'
  BY <1>1, <1>2, LoopsRest
<1>13. Carried(c) = {} /\ Unrevived(c) = {} /\ mine \subseteq Carried(c)'
  BY <1>1, <1>5, <1>9 DEF Carried, Unrevived, Reviving
<1>14. /\ \A d \in Caller : d # c => Carried(d)' = Carried(d)
       /\ \A d \in Admin : d # c => Unrevived(d)' = Unrevived(d)
  BY <1>1, <1>2, OthersCarry, OthersRevive
<1>15. ASSUME NEW j \in Id PROVE Followed(j)'
  <2>1. j \in mine => Placed(j)'
    BY <1>13, PlacedIsNext
  <2>2. j \notin mine /\ Placed(j) => Placed(j)'
    BY <1>1, <1>7, <1>13, <1>14, PlacedIs, PlacedIsNext
  <2> QED
    BY <1>1, <2>1, <2>2 DEF Followed, MaintenanceInv
<1>16. ASSUME NEW j \in accepted PROVE Held(j)'
  <2>1. Held(j)
    BY DEF MaintenanceInv
  <2>2. \A d \in Admin : j \in Unrevived(d) => j \in Unrevived(d)'
    BY <1>13, <1>14
  <2> QED
    BY <1>1, <2>1, <2>2 DEF Held
<1> QED
  BY <1>1, <1>8, <1>11, <1>12, <1>15, <1>16 DEF MaintenanceInv

LEMMA PushAllStep == ASSUME MaintenanceInv, NEW c \in Caller, PushAll(c) PROVE MaintenanceInv'
<1>1. /\ UNCHANGED <<plan, now, jobs, zset, dead, claim, scan, cron, drain>>
      /\ UNCHANGED <<accepted, settled, removed, stranded>>
      /\ pc[c] = "push" /\ queue' = queue \o ids[c]
      /\ Goto(c, "idle", <<>>)
  BY DEF PushAll, history
<1>2. RedisOK /\ CallersOK /\ LoopsOK
  BY DEF MaintenanceInv
<1>3. ids[c] \in Seq(Id) /\ queue \in Seq(Id)
  BY <1>1, <1>2 DEF CallersOK, CallerOK, Moving, RedisOK
<1>4. queue' \in Seq(Id) /\ ToSet(queue') = ToSet(queue) \cup ToSet(ids[c])
  BY <1>1, <1>3, InConcat
<1>5. RedisOK'
  BY <1>1, <1>2, <1>4 DEF RedisOK
<1>6. pc'[c] = "idle"
  BY <1>1, <1>2, GotoElsewhere
<1>7. CallersOK'
  BY <1>1, <1>2, <1>6, EmptyOK, GotoOK DEF AllSteps
<1>8. LoopsOK'
  BY <1>1, <1>2, LoopsRest
<1>9. Carried(c) = ToSet(ids[c]) /\ Unrevived(c) = {}
  BY <1>1 DEF Carried, Unrevived, Reviving
<1>10. /\ \A d \in Caller : d # c => Carried(d)' = Carried(d)
       /\ \A d \in Admin : d # c => Unrevived(d)' = Unrevived(d)
  BY <1>1, <1>2, OthersCarry, OthersRevive
<1>11. ASSUME NEW j \in Id PROVE Followed(j)'
  <2>1. Placed(j) => Placed(j)'
    BY <1>1, <1>4, <1>9, <1>10, PlacedIs, PlacedIsNext
  <2> QED
    BY <1>1, <2>1 DEF Followed, MaintenanceInv
<1>12. ASSUME NEW j \in accepted PROVE Held(j)'
  <2>1. Held(j)
    BY DEF MaintenanceInv
  <2>2. \A d \in Admin : j \in Unrevived(d) => j \in Unrevived(d)'
    BY <1>9, <1>10
  <2> QED
    BY <1>1, <2>1, <2>2 DEF Held
<1> QED
  BY <1>1, <1>5, <1>7, <1>8, <1>11, <1>12 DEF MaintenanceInv

LEMMA DiesStep == ASSUME MaintenanceInv, NEW c \in Caller, Dies(c) PROVE MaintenanceInv'
<1> DEFINE lost == CASE pc[c] \in {"get", "push"} -> ToSet(ids[c])
                     [] c \in Admin /\ pc[c] \notin {"get", "push", "wipe"} -> DeadIds(claim[c])
                     [] OTHER -> {}
<1>1. /\ UNCHANGED <<plan, now, jobs, queue, zset, dead, scan, cron, drain>>
      /\ UNCHANGED <<accepted, settled, removed>>
      /\ stranded' = stranded \cup lost
      /\ claim' = IF c \in Admin THEN [claim EXCEPT ![c] = <<>>] ELSE claim
      /\ Goto(c, "idle", <<>>)
  BY DEF Dies
<1>2. RedisOK /\ CallersOK /\ LoopsOK
  BY DEF MaintenanceInv
<1>3. CallerOK(c)
  BY <1>2 DEF CallersOK
<1>4. Carried(c) \subseteq lost
  <2>1. CASE pc[c] \in {"get", "push"}
    <3>1. lost = ToSet(ids[c]) /\ Carried(c) = ToSet(ids[c])
      BY <2>1 DEF Carried
    <3> HIDE DEF lost
    <3> QED
      BY <3>1
  <2> QED
    BY <2>1 DEF Carried
<1>5. Unrevived(c) \subseteq lost
  <2>1. CASE pc[c] = "revive_read"
    <3>1. c \in Admin /\ Unrevived(c) = DeadIds(claim[c]) /\ lost = DeadIds(claim[c])
      BY <1>3, <2>1 DEF CallerOK, Unrevived
    <3> QED
      BY <3>1
  <2>2. CASE pc[c] \in Reviving
    <3>1. c \in Admin /\ Unrevived(c) = DeadIds(ids[c]) /\ DeadIds(ids[c]) \subseteq DeadIds(claim[c])
      BY <1>3, <2>2 DEF CallerOK, Unrevived, Reviving
    <3>2. lost = DeadIds(claim[c])
      BY <2>2, <3>1 DEF Reviving
    <3> HIDE DEF lost
    <3> QED
      BY <3>1, <3>2
  <2> QED
    BY <2>1, <2>2 DEF Unrevived
<1> HIDE DEF lost
<1>6. claim' \in [Admin -> Seq(Entries)] /\ \A d \in Admin : d # c => claim'[d] = claim[d]
  BY <1>1, <1>2 DEF RedisOK
<1>7. RedisOK'
  BY <1>1, <1>2, <1>6 DEF RedisOK
<1>8. pc'[c] = "idle"
  BY <1>1, <1>2, GotoElsewhere
<1>9. CallersOK'
  BY <1>1, <1>2, <1>6, <1>8, EmptyOK, GotoOK DEF AllSteps
<1>10. LoopsOK'
  BY <1>1, <1>2, LoopsRest
<1>11. /\ \A d \in Caller : d # c => Carried(d)' = Carried(d)
       /\ \A d \in Admin : d # c => Unrevived(d)' = Unrevived(d)
  BY <1>1, <1>2, <1>6, OthersCarry, OthersRevive
<1>12. ASSUME NEW j \in Id PROVE Followed(j)'
  <2>1. Placed(j) => Placed(j)' \/ j \in stranded'
    BY <1>1, <1>4, <1>11, PlacedIs, PlacedIsNext
  <2> QED
    BY <1>1, <2>1 DEF Followed, MaintenanceInv
<1>13. ASSUME NEW j \in accepted PROVE Held(j)'
  <2>1. Held(j)
    BY DEF MaintenanceInv
  <2>2. \A d \in Admin : j \in Unrevived(d) => j \in Unrevived(d)' \/ j \in stranded'
    BY <1>1, <1>5, <1>11
  <2> QED
    BY <1>1, <2>1, <2>2 DEF Held
<1> QED
  BY <1>1, <1>7, <1>9, <1>10, <1>12, <1>13 DEF MaintenanceInv

---------------------------------------------------------------------------
(* Steps of the loops *)

Scans == [pc : {"idle", "scan"}, cutoff : Nat, left : SUBSET Id, found : SUBSET Id]

Crons == [pc : {"down", "wait", "check", "push", "add"},
          next : Occurrence \cup {None}, previous : Occurrence \cup {None}, due : Nat]

Drains == [pc : {"idle", "popped", "loaded", "running", "failed"}, id : Id \cup {None}, created : Nat]

(* A step of one loop that leaves Redis alone keeps the invariant. *)
LEMMA LoopStep ==
    ASSUME MaintenanceInv, LoopsOK', drain' = drain,
           UNCHANGED <<plan, now, redis, pc, ids, history>>
    PROVE  MaintenanceInv'
<1>1. UNCHANGED <<jobs, queue, zset, dead, claim, accepted, settled, removed, stranded>>
  BY DEF redis, history
<1>2. RedisOK'
  BY <1>1 DEF MaintenanceInv, RedisOK
<1>3. CallersOK' /\ \A c : Carried(c)' = Carried(c) /\ Unrevived(c)' = Unrevived(c)
  BY <1>1, CallersRest DEF MaintenanceInv
<1>4. \A j \in Id : Followed(j)'
  BY <1>1 DEF MaintenanceInv, Followed, Placed
<1>5. \A j \in accepted : Held(j)'
  BY <1>1, <1>3 DEF MaintenanceInv, Held
<1> QED
  BY <1>1, <1>2, <1>3, <1>4, <1>5 DEF MaintenanceInv

LEMMA ScanStepOK ==
    ASSUME LoopsOK, NEW p \in Looper, NEW s \in Scans, scan' = [scan EXCEPT ![p] = s],
           UNCHANGED <<plan, now, cron, drain>>,
           s.pc = "scan" => "cleanup" \in plan,
           s.cutoff <= now, s.found # {} => Expired(0, s.cutoff)
    PROVE  LoopsOK'
<1>1. scan \in [Looper -> Scans]
  BY DEF LoopsOK, Scans
<1>2. scan' \in [Looper -> Scans] /\ scan'[p] = s /\ \A q \in Looper : q # p => scan'[q] = scan[q]
  BY <1>1
<1>3. ASSUME NEW q \in Looper PROVE ScanOK(q)'
  <2>1. CASE q = p
    BY <1>2, <2>1 DEF ScanOK
  <2>2. CASE q # p
    BY <1>2, <2>2 DEF ScanOK, LoopsOK
  <2> QED
    BY <2>1, <2>2
<1> QED
  BY <1>2, <1>3 DEF LoopsOK, Scans

LEMMA CleanupBeginStep ==
    ASSUME MaintenanceInv, NEW p \in Looper, CleanupBegin(p) PROVE MaintenanceInv'
<1> DEFINE s == [pc |-> "scan", cutoff |-> now, left |-> Id, found |-> {}]
<1>1. now \in Nat
  BY DEF MaintenanceInv, LoopsOK
<1>2. s \in Scans /\ s.found = {} /\ s.cutoff <= now
  BY <1>1 DEF Scans
<1>3. scan' = [scan EXCEPT ![p] = s] /\ "cleanup" \in plan
  BY DEF CleanupBegin
<1>4. UNCHANGED <<plan, now, redis, pc, ids, cron, drain, history>>
  BY DEF CleanupBegin
<1> HIDE DEF s
<1>5. LoopsOK'
  BY <1>2, <1>3, <1>4, ScanStepOK DEF MaintenanceInv
<1> QED
  BY <1>4, <1>5, LoopStep

LEMMA CleanupScanStep ==
    ASSUME MaintenanceInv, NEW p \in Looper, CleanupScan(p) PROVE MaintenanceInv'
<1>1. PICK page \in { Job \cap scan[p].left, scan[p].left } \ {{}} :
         scan' = [scan EXCEPT ![p].left = @ \ page,
                              ![p].found = @ \cup { j \in page : /\ jobs[j] /= None
                                                               /\ Expired(jobs[j], scan[p].cutoff) }]
  BY DEF CleanupScan
<1> DEFINE old == { j \in page : jobs[j] /= None /\ Expired(jobs[j], scan[p].cutoff) }
           s == [scan[p] EXCEPT !.left = @ \ page, !.found = @ \cup old]
<1>2. /\ scan \in [Looper -> Scans] /\ scan[p] \in Scans /\ scan[p].pc = "scan"
      /\ ScanOK(p) /\ now \in Nat
  BY DEF MaintenanceInv, LoopsOK, Scans, CleanupScan
<1>3. page \in SUBSET Id /\ old \in SUBSET Id
  BY <1>2 DEF Scans
<1>4. old # {} => Expired(0, scan[p].cutoff)
  <2>1. ASSUME NEW j \in old PROVE Expired(0, scan[p].cutoff)
    <3>1. jobs[j] \in Nat /\ Expired(jobs[j], scan[p].cutoff)
      BY <1>3 DEF MaintenanceInv, RedisOK
    <3>2. scan[p].cutoff \in Nat /\ ExpireAge \in Nat
      BY <1>2, TimeAssumption DEF Scans
    <3> QED
      BY <3>1, <3>2 DEF Expired
  <2> QED
    BY <2>1
<1> HIDE DEF old
<1>5. s \in Scans /\ s.pc = scan[p].pc /\ s.cutoff = scan[p].cutoff /\ s.found = scan[p].found \cup old
  BY <1>2, <1>3 DEF Scans
<1>6. scan' = [scan EXCEPT ![p] = s]
  BY <1>1, <1>2 DEF old
<1> HIDE DEF s
<1>7. UNCHANGED <<plan, now, redis, pc, ids, cron, drain, history>>
  BY DEF CleanupScan
<1>8. s.found # {} => Expired(0, s.cutoff)
  BY <1>2, <1>4, <1>5 DEF ScanOK
<1>9. LoopsOK'
  BY <1>2, <1>5, <1>6, <1>7, <1>8, ScanStepOK DEF MaintenanceInv, ScanOK
<1> QED
  BY <1>7, <1>9, LoopStep

LEMMA CleanupDeleteStep ==
    ASSUME MaintenanceInv, NEW p \in Looper, CleanupDelete(p) PROVE MaintenanceInv'
<1> DEFINE s == [scan[p] EXCEPT !.pc = "idle", !.found = {}]
<1>1. /\ UNCHANGED <<plan, now, queue, zset, dead, claim, pc, ids, cron, drain>>
      /\ UNCHANGED <<accepted, settled, removed, stranded>>
      /\ scan[p].pc = "scan" /\ jobs' = HDel(scan[p].found)
  BY DEF CleanupDelete, history
<1>2. RedisOK /\ CallersOK /\ LoopsOK
  BY DEF MaintenanceInv
<1>3. scan \in [Looper -> Scans] /\ scan[p] \in Scans /\ ScanOK(p) /\ now \in Nat
  BY <1>2 DEF LoopsOK, Scans
<1>4. s \in Scans /\ s.pc = "idle" /\ s.cutoff = scan[p].cutoff /\ s.found = {}
  BY <1>3 DEF Scans
<1>5. scan' = [scan EXCEPT ![p] = s]
  BY <1>3 DEF CleanupDelete
<1> HIDE DEF s
<1>6. LoopsOK'
  BY <1>1, <1>2, <1>3, <1>4, <1>5, ScanStepOK DEF ScanOK
<1>7. /\ jobs' \in [Id -> Nat \cup {None}]
      /\ \A j \in Id : jobs'[j] = IF j \in scan[p].found THEN None ELSE jobs[j]
  BY <1>1, <1>2, HDelOK
<1>8. RedisOK'
  BY <1>1, <1>2, <1>7 DEF RedisOK
<1>9. CallersOK' /\ \A c : Carried(c)' = Carried(c) /\ Unrevived(c)' = Unrevived(c)
  BY <1>1, <1>2, CallersRest
<1>10. ASSUME NEW j \in Id PROVE Followed(j)'
  <2>1. Placed(j)' = Placed(j) /\ Followed(j)
    BY <1>1 DEF Placed, MaintenanceInv
  <2> QED
    BY <1>1, <1>7, <2>1 DEF Followed
<1>11. scan[p].found # {} => "cleanup" \in plan /\ Expired(0, now)
  <2>1. scan[p].cutoff \in Nat /\ ExpireAge \in Nat
    BY <1>3, TimeAssumption DEF Scans
  <2> QED
    BY <1>1, <1>3, <2>1 DEF ScanOK, Expired
<1>12. ASSUME NEW j \in accepted PROVE Held(j)'
  <2>1. Held(j) /\ j \in Id
    BY <1>2 DEF MaintenanceInv, RedisOK
  <2>2. CASE j \in scan[p].found
    BY <1>1, <1>11, <2>2 DEF Held
  <2>3. CASE j \notin scan[p].found
    BY <1>1, <1>7, <1>9, <2>1, <2>3 DEF Held
  <2> QED
    BY <2>2, <2>3
<1> QED
  BY <1>1, <1>6, <1>8, <1>9, <1>10, <1>12 DEF MaintenanceInv

LEMMA CronStepOK ==
    ASSUME LoopsOK, NEW p \in Proc, NEW s \in Crons, cron' = [cron EXCEPT ![p] = s],
           UNCHANGED <<plan, now, scan, drain>>,
           s.pc \in {"check", "push", "add"} => s.next # None
    PROVE  LoopsOK'
<1>1. cron \in [Proc -> Crons]
  BY DEF LoopsOK, Crons
<1>2. cron' \in [Proc -> Crons] /\ cron'[p] = s /\ \A q \in Proc : q # p => cron'[q] = cron[q]
  BY <1>1
<1>3. \A q \in Proc : cron'[q].pc \in {"check", "push", "add"} => cron'[q].next # None
  BY <1>2 DEF LoopsOK
<1>4. \A q \in Looper : ScanOK(q)'
  BY DEF LoopsOK, ScanOK
<1> QED
  BY <1>2, <1>3, <1>4 DEF LoopsOK, Crons

LEMMA CronStartStep == ASSUME MaintenanceInv, NEW p \in Proc, CronStart(p) PROVE MaintenanceInv'
<1> DEFINE s == [pc |-> "wait", next |-> After(now), previous |-> None, due |-> 0]
<1>1. s \in Crons /\ s.pc = "wait"
  <2>1. After(now) \in Occurrence \cup {None}
    BY AfterType
  <2> QED
    BY <2>1 DEF Crons
<1>2. cron' = [cron EXCEPT ![p] = s]
  BY DEF CronStart
<1> HIDE DEF s
<1>3. UNCHANGED <<plan, now, redis, pc, ids, scan, drain, history>>
  BY DEF CronStart
<1>4. LoopsOK'
  BY <1>1, <1>2, <1>3, CronStepOK DEF MaintenanceInv
<1> QED
  BY <1>3, <1>4, LoopStep

LEMMA CronTypes ==
    ASSUME LoopsOK, NEW p \in Proc
    PROVE  cron \in [Proc -> Crons] /\ cron[p] \in Crons
BY DEF LoopsOK, Crons

LEMMA CronReadyStep == ASSUME MaintenanceInv, NEW p \in Proc, CronReady(p) PROVE MaintenanceInv'
<1> DEFINE d == IF cron[p].next > now THEN cron[p].next ELSE now
           s == [cron[p] EXCEPT !.pc = "check", !.due = d]
<1>1. LoopsOK /\ cron \in [Proc -> Crons] /\ cron[p] \in Crons /\ cron[p].next # None /\ now \in Nat
  BY CronTypes DEF MaintenanceInv, LoopsOK, CronReady
<1>2. d \in Nat
  BY <1>1, NoneIsNone DEF Crons
<1>3. cron' = [cron EXCEPT ![p] = s]
  BY <1>1 DEF CronReady
<1> HIDE DEF d
<1>4. s \in Crons /\ s.next # None
  BY <1>1, <1>2 DEF Crons
<1> HIDE DEF s
<1>5. UNCHANGED <<plan, now, redis, pc, ids, scan, drain, history>>
  BY DEF CronReady
<1>6. LoopsOK'
  BY <1>1, <1>3, <1>4, <1>5, CronStepOK
<1> QED
  BY <1>5, <1>6, LoopStep

LEMMA CronAdvanceOK ==
    ASSUME LoopsOK, NEW p \in Proc, CronAdvance(p), UNCHANGED <<plan, now, scan, drain>>
    PROVE  LoopsOK'
<1> DEFINE s == [pc |-> "wait", next |-> After(cron[p].next), previous |-> cron[p].next, due |-> 0]
<1>1. cron \in [Proc -> Crons] /\ cron[p] \in Crons
  BY CronTypes
<1>2. s \in Crons /\ s.pc = "wait"
  <2>1. After(cron[p].next) \in Occurrence \cup {None}
    BY AfterType
  <2> QED
    BY <1>1, <2>1 DEF Crons
<1>3. cron' = [cron EXCEPT ![p] = s]
  BY <1>1 DEF CronAdvance
<1> HIDE DEF s
<1> QED
  BY <1>2, <1>3, CronStepOK

LEMMA CronCheckStep == ASSUME MaintenanceInv, NEW p \in Proc, CronCheck(p) PROVE MaintenanceInv'
<1> DEFINE w == IF cron[p].due <= now THEN "push" ELSE "add"
           s == [cron[p] EXCEPT !.pc = w]
<1>1. LoopsOK /\ cron \in [Proc -> Crons] /\ cron[p] \in Crons /\ cron[p].pc = "check"
  BY CronTypes DEF MaintenanceInv, CronCheck
<1>2. cron[p].next # None
  BY <1>1 DEF LoopsOK
<1>3. UNCHANGED <<plan, now, redis, pc, ids, scan, drain, history>>
  BY DEF CronCheck
<1>4. CASE CronAdvance(p)
  <2>1. LoopsOK'
    BY <1>1, <1>3, <1>4, CronAdvanceOK
  <2> QED
    BY <1>3, <2>1, LoopStep
<1>5. CASE cron' = [cron EXCEPT ![p].pc = w]
  <2>1. cron' = [cron EXCEPT ![p] = s]
    BY <1>1, <1>5
  <2>2. w \in {"push", "add"}
    OBVIOUS
  <2> HIDE DEF w
  <2>3. s \in Crons /\ s.next # None
    BY <1>1, <1>2, <2>2 DEF Crons
  <2> HIDE DEF s
  <2>4. LoopsOK'
    BY <1>1, <1>3, <2>1, <2>3, CronStepOK
  <2> QED
    BY <1>3, <2>4, LoopStep
<1> QED
  BY <1>4, <1>5 DEF CronCheck

LEMMA CronStoredOK ==
    ASSUME RedisOK, LoopsOK, NEW p \in Proc, CronStored(p), UNCHANGED <<dead, claim>>
    PROVE  /\ RedisOK' /\ cron[p].next \in Id /\ accepted' = accepted \cup {cron[p].next}
           /\ jobs'[cron[p].next] # None
           /\ \A i \in Id : i # cron[p].next => jobs'[i] = jobs[i]
           /\ ToSet(queue) \subseteq ToSet(queue')
           /\ \A z \in ZSet : \A i \in Id : zset[z][i] # None => zset'[z][i] # None
           /\ \/ cron[p].next \in ToSet(queue')
              \/ \E z \in ZSet : zset'[z][cron[p].next] # None
<1> DEFINE o == cron[p].next
<1>1. cron[p] \in Crons /\ cron[p].pc \in {"push", "add"} /\ o # None
  BY CronTypes DEF LoopsOK, CronStored
<1>2. o \in Id /\ cron[p].due \in Nat /\ now \in Nat /\ "schedule" \in ZSet
  BY <1>1 DEF Crons, Id, ZSet, LoopsOK
<1>3. jobs' = [jobs EXCEPT ![o] = now] /\ accepted' = accepted \cup {o}
  BY DEF CronStored
<1>4. \/ queue' = Append(queue, o) /\ zset' = zset
      \/ zset' = [zset EXCEPT !["schedule"][o] = cron[p].due] /\ queue' = queue
  BY DEF CronStored
<1> HIDE DEF o
<1>5. /\ jobs' \in [Id -> Nat \cup {None}] /\ jobs'[o] # None
      /\ \A i \in Id : i # o => jobs'[i] = jobs[i]
  BY <1>2, <1>3, NoneIsNone DEF RedisOK
<1>6. /\ queue' \in Seq(Id) /\ zset' \in [ZSet -> [Id -> Nat \cup {None}]]
      /\ ToSet(queue) \subseteq ToSet(queue')
      /\ \A z \in ZSet : \A i \in Id : zset[z][i] # None => zset'[z][i] # None
      /\ o \in ToSet(queue') \/ zset'["schedule"][o] # None
  <2>1. CASE queue' = Append(queue, o) /\ zset' = zset
    <3>1. queue' \in Seq(Id) /\ ToSet(queue') = ToSet(queue) \cup {o}
      BY <1>2, <2>1, InAppend DEF RedisOK
    <3> QED
      BY <2>1, <3>1 DEF RedisOK
  <2>2. CASE zset' = [zset EXCEPT !["schedule"][o] = cron[p].due] /\ queue' = queue
    <3>1. zset' \in [ZSet -> [Id -> Nat \cup {None}]]
      BY <1>2, <2>2 DEF RedisOK
    <3>2. \A z \in ZSet : \A i \in Id : zset[z][i] # None => zset'[z][i] # None
      BY <1>2, <2>2, NoneIsNone DEF RedisOK
    <3>3. zset'["schedule"][o] # None
      BY <1>2, <2>2, NoneIsNone DEF RedisOK
    <3> QED
      BY <2>2, <3>1, <3>2, <3>3 DEF RedisOK
  <2> QED
    BY <1>4, <2>1, <2>2
<1>7. RedisOK'
  BY <1>2, <1>3, <1>5, <1>6 DEF RedisOK
<1> QED
  BY <1>2, <1>3, <1>5, <1>6, <1>7 DEF o

LEMMA CronStoredStep ==
    ASSUME MaintenanceInv, NEW p \in Proc, CronStored(p), LoopsOK',
           UNCHANGED <<plan, now, dead, claim, pc, ids, drain, settled, removed, stranded>>
    PROVE  MaintenanceInv'
<1> DEFINE o == cron[p].next
<1>1. RedisOK /\ CallersOK /\ LoopsOK
  BY DEF MaintenanceInv
<1>2. /\ RedisOK' /\ o \in Id /\ accepted' = accepted \cup {o}
      /\ jobs'[o] # None
      /\ \A i \in Id : i # o => jobs'[i] = jobs[i]
      /\ ToSet(queue) \subseteq ToSet(queue')
      /\ \A z \in ZSet : \A i \in Id : zset[z][i] # None => zset'[z][i] # None
      /\ o \in ToSet(queue') \/ \E z \in ZSet : zset'[z][o] # None
  BY <1>1, CronStoredOK
<1> HIDE DEF o
<1>3. CallersOK' /\ \A c : Carried(c)' = Carried(c) /\ Unrevived(c)' = Unrevived(c)
  BY <1>1, CallersRest
<1>4. ASSUME NEW i \in Id PROVE Followed(i)'
  <2>1. i = o => Placed(i)'
    BY <1>2, PlacedIsNext
  <2>2. Placed(i) => Placed(i)'
    BY <1>2, <1>3, PlacedIs, PlacedIsNext
  <2> QED
    BY <1>2, <2>1, <2>2 DEF Followed, MaintenanceInv
<1>5. ASSUME NEW i \in accepted' PROVE Held(i)'
  <2>1. CASE i = o
    BY <1>2, <2>1 DEF Held
  <2>2. CASE i # o
    <3>1. i \in accepted /\ Held(i) /\ i \in Id
      BY <1>1, <1>2, <2>2 DEF MaintenanceInv, RedisOK
    <3> QED
      BY <1>2, <1>3, <2>2, <3>1 DEF Held
  <2> QED
    BY <2>1, <2>2
<1> QED
  BY <1>2, <1>3, <1>4, <1>5 DEF MaintenanceInv

LEMMA CronWriteStep == ASSUME MaintenanceInv, NEW p \in Proc, CronWrite(p) PROVE MaintenanceInv'
<1>1. UNCHANGED <<plan, now, dead, claim, pc, ids, scan, drain, settled, removed, stranded>>
  BY DEF CronWrite
<1>2. CronStored(p) /\ CronAdvance(p)
  BY DEF CronWrite
<1>3. LoopsOK'
  BY <1>1, <1>2, CronAdvanceOK DEF MaintenanceInv
<1> QED
  BY <1>1, <1>2, <1>3, CronStoredStep

LEMMA CronFailsStep == ASSUME MaintenanceInv, NEW p \in Proc, CronFails(p) PROVE MaintenanceInv'
<1> DEFINE s == [cron[p] EXCEPT !.pc = "wait"]
<1>1. UNCHANGED <<plan, now, dead, claim, processing, pc, ids, scan, drain, settled, removed, stranded, doubled, runs>>
  BY DEF CronFails
<1>2. LoopsOK /\ cron \in [Proc -> Crons] /\ cron[p] \in Crons
  BY CronTypes DEF MaintenanceInv
<1>3. cron' = [cron EXCEPT ![p] = s]
  BY <1>2 DEF CronFails
<1>4. s \in Crons /\ s.pc = "wait"
  BY <1>2 DEF Crons
<1> HIDE DEF s
<1>5. LoopsOK'
  BY <1>1, <1>2, <1>3, <1>4, CronStepOK
<1>6. CASE CronStored(p)
  BY <1>1, <1>5, <1>6, CronStoredStep
<1>7. CASE UNCHANGED <<jobs, queue, zset, accepted, late>>
  <2>1. UNCHANGED <<redis, history>>
    BY <1>1, <1>7 DEF redis, history
  <2> QED
    BY <1>1, <1>5, <2>1, LoopStep
<1> QED
  BY <1>6, <1>7 DEF CronFails

---------------------------------------------------------------------------
(* Steps of drain *)

LEMMA DrainStepOK ==
    ASSUME LoopsOK, drain' \in Drains, drain'.pc = "idle" <=> drain'.id = None,
           UNCHANGED <<plan, now, scan, cron>>
    PROVE  LoopsOK'
<1>1. \A q \in Looper : ScanOK(q)'
  BY DEF LoopsOK, ScanOK
<1> QED
  BY <1>1 DEF LoopsOK, Drains

LEMMA DrainIdleOK == DrainIdle \in Drains /\ DrainIdle.pc = "idle" /\ DrainIdle.id = None
BY DEF DrainIdle, Drains

LEMMA DrainPopStep == ASSUME MaintenanceInv, DrainPop PROVE MaintenanceInv'
<1>1. /\ UNCHANGED <<plan, now, jobs, zset, dead, claim, pc, ids, scan, cron>>
      /\ UNCHANGED <<accepted, settled, removed, stranded>>
      /\ drain.pc = "idle" /\ queue # <<>> /\ queue' = Tail(queue)
      /\ drain' = [DrainIdle EXCEPT !.pc = "popped", !.id = Head(queue)]
  BY DEF DrainPop, history
<1>2. RedisOK /\ CallersOK /\ LoopsOK
  BY DEF MaintenanceInv
<1>3. Head(queue) \in Id /\ Tail(queue) \in Seq(Id) /\ ToSet(queue) = {Head(queue)} \cup ToSet(Tail(queue))
  BY <1>1, <1>2, InTail DEF RedisOK
<1>4. drain' \in Drains /\ drain'.id = Head(queue) /\ drain'.id # None /\ drain'.pc = "popped"
  BY <1>1, <1>3, NoneIsNone DEF DrainIdle, Drains
<1>5. RedisOK'
  BY <1>1, <1>2, <1>3 DEF RedisOK
<1>6. LoopsOK'
  BY <1>1, <1>2, <1>4, DrainStepOK
<1>7. CallersOK' /\ \A c : Carried(c)' = Carried(c) /\ Unrevived(c)' = Unrevived(c)
  BY <1>1, <1>2, CallersRest
<1>8. ASSUME NEW j \in Id PROVE Followed(j)'
  <2>1. drain.id = j => Followed(j)'
    \* drain() is between two jobs: it has none in hand
    BY <1>1, <1>2, NoneIsNone DEF LoopsOK
  <2>2. Placed(j) => Placed(j)' \/ drain.id = j
    BY <1>1, <1>3, <1>4, <1>7, PlacedIs, PlacedIsNext
  <2> QED
    BY <1>1, <2>1, <2>2 DEF Followed, MaintenanceInv
<1>9. \A j \in accepted : Held(j)'
  BY <1>1, <1>7 DEF MaintenanceInv, Held
<1> QED
  BY <1>1, <1>5, <1>6, <1>7, <1>8, <1>9 DEF MaintenanceInv

LEMMA DrainTypes == ASSUME LoopsOK PROVE drain \in Drains /\ (drain.pc # "idle" => drain.id \in Id)
BY DEF LoopsOK, Drains

LEMMA DrainLoadStep == ASSUME MaintenanceInv, DrainLoad PROVE MaintenanceInv'
<1>1. /\ UNCHANGED <<plan, now, jobs, queue, zset, dead, claim, pc, ids, scan, cron>>
      /\ UNCHANGED <<accepted, settled, removed, stranded>>
      /\ drain.pc = "popped"
      /\ drain' = IF jobs[drain.id] = None THEN DrainIdle
                  ELSE [drain EXCEPT !.pc = "loaded", !.created = jobs[drain.id]]
  BY DEF DrainLoad, redis, history
<1>2. RedisOK /\ CallersOK /\ LoopsOK /\ drain \in Drains /\ drain.id \in Id /\ drain.id # None
  BY <1>1, DrainTypes, NoneIsNone DEF MaintenanceInv
<1>3. RedisOK'
  BY <1>1, <1>2 DEF RedisOK
<1>4. CallersOK' /\ \A c : Carried(c)' = Carried(c) /\ Unrevived(c)' = Unrevived(c)
  BY <1>1, <1>2, CallersRest
<1>5. /\ drain' \in Drains /\ (drain'.pc = "idle" <=> drain'.id = None)
      /\ jobs[drain.id] # None => drain'.id = drain.id
  <2>1. CASE jobs[drain.id] = None
    BY <1>1, <2>1, DrainIdleOK
  <2>2. CASE jobs[drain.id] # None
    <3>1. jobs[drain.id] \in Nat
      BY <1>2, <2>2 DEF RedisOK
    <3> QED
      BY <1>1, <1>2, <2>2, <3>1 DEF Drains
  <2> QED
    BY <2>1, <2>2
<1>6. LoopsOK'
  BY <1>1, <1>2, <1>5, DrainStepOK
<1>7. ASSUME NEW j \in Id PROVE Followed(j)'
  <2>1. Placed(j) /\ jobs[j] # None => Placed(j)'
    BY <1>1, <1>4, <1>5, PlacedIs, PlacedIsNext
  <2> QED
    BY <1>1, <2>1 DEF Followed, MaintenanceInv
<1>8. \A j \in accepted : Held(j)'
  BY <1>1, <1>4 DEF MaintenanceInv, Held
<1> QED
  BY <1>1, <1>3, <1>4, <1>6, <1>7, <1>8 DEF MaintenanceInv

LEMMA DrainRunStep == ASSUME MaintenanceInv, DrainRun PROVE MaintenanceInv'
<1>1. /\ UNCHANGED <<plan, now, queue, zset, dead, claim, pc, ids, scan, cron>>
      /\ UNCHANGED <<accepted, settled, removed, stranded>>
      /\ drain.pc = "loaded" /\ drain' = [drain EXCEPT !.pc = "running"]
      /\ jobs' = [jobs EXCEPT ![drain.id] = drain.created] \/ jobs' = jobs
  BY DEF DrainRun
<1>2. RedisOK /\ CallersOK /\ LoopsOK /\ drain \in Drains /\ drain.id \in Id /\ drain.id # None
  BY <1>1, DrainTypes, NoneIsNone DEF MaintenanceInv
<1>3. /\ jobs' \in [Id -> Nat \cup {None}]
      /\ \A j \in Id : jobs'[j] = jobs[j] \/ (jobs'[j] # None /\ j = drain.id)
  <2>1. drain.created \in Nat /\ drain.created # None
    BY <1>2, NoneIsNone DEF Drains
  <2> QED
    BY <1>1, <1>2, <2>1 DEF RedisOK
<1>4. RedisOK'
  BY <1>1, <1>2, <1>3 DEF RedisOK
<1>5. CallersOK' /\ \A c : Carried(c)' = Carried(c) /\ Unrevived(c)' = Unrevived(c)
  BY <1>1, <1>2, CallersRest
<1>6. drain' \in Drains /\ drain'.pc = "running" /\ drain'.id = drain.id
  BY <1>1, <1>2 DEF Drains
<1>7. LoopsOK'
  BY <1>1, <1>2, <1>6, DrainStepOK
<1>8. ASSUME NEW j \in Id PROVE Followed(j)'
  <2>1. (Placed(j) => Placed(j)') /\ (j = drain.id => Placed(j)')
    BY <1>1, <1>5, <1>6, PlacedIs, PlacedIsNext
  <2> QED
    BY <1>1, <1>3, <2>1 DEF Followed, MaintenanceInv
<1>9. ASSUME NEW j \in accepted PROVE Held(j)'
  <2>1. Held(j) /\ j \in Id
    BY <1>2 DEF MaintenanceInv, RedisOK
  <2> QED
    BY <1>1, <1>3, <1>5, <2>1 DEF Held
<1> QED
  BY <1>1, <1>4, <1>5, <1>7, <1>8, <1>9 DEF MaintenanceInv

LEMMA DrainSuccessStep == ASSUME MaintenanceInv, DrainSuccess PROVE MaintenanceInv'
<1>1. /\ UNCHANGED <<plan, now, queue, zset, dead, claim, pc, ids, scan, cron>>
      /\ UNCHANGED <<accepted, removed, stranded>>
      /\ drain' = DrainIdle
      /\ jobs' = HDel({drain.id}) /\ settled' = settled \cup {drain.id}
  BY DEF DrainSuccess
<1>2. RedisOK /\ CallersOK /\ LoopsOK
  BY DEF MaintenanceInv
<1>3. /\ jobs' \in [Id -> Nat \cup {None}]
      /\ \A j \in Id : jobs'[j] = IF j \in {drain.id} THEN None ELSE jobs[j]
  BY <1>1, <1>2, HDelOK
<1>4. RedisOK'
  BY <1>1, <1>2, <1>3 DEF RedisOK
<1>5. CallersOK' /\ \A c : Carried(c)' = Carried(c) /\ Unrevived(c)' = Unrevived(c)
  BY <1>1, <1>2, CallersRest
<1>6. LoopsOK'
  BY <1>1, <1>2, DrainIdleOK, DrainStepOK
<1>7. ASSUME NEW j \in Id PROVE Followed(j)'
  <2>1. Placed(j) /\ j # drain.id => Placed(j)'
    BY <1>1, <1>5, PlacedIs, PlacedIsNext
  <2> QED
    BY <1>1, <1>3, <2>1 DEF Followed, MaintenanceInv
<1>8. ASSUME NEW j \in accepted PROVE Held(j)'
  <2>1. Held(j) /\ j \in Id
    BY <1>2 DEF MaintenanceInv, RedisOK
  <2> QED
    BY <1>1, <1>3, <1>5, <2>1 DEF Held
<1> QED
  BY <1>1, <1>4, <1>5, <1>6, <1>7, <1>8 DEF MaintenanceInv

LEMMA DrainFailureStep == ASSUME MaintenanceInv, DrainFailure PROVE MaintenanceInv'
<1>1. /\ UNCHANGED <<plan, now, jobs, queue, zset, dead, claim, pc, ids, scan, cron>>
      /\ UNCHANGED <<accepted, settled, removed, stranded>>
      /\ drain.pc = "running" /\ drain' = [drain EXCEPT !.pc = "failed"]
  BY DEF DrainFailure, history
<1>2. RedisOK /\ CallersOK /\ LoopsOK /\ drain \in Drains /\ drain.id \in Id /\ drain.id # None
  BY <1>1, DrainTypes, NoneIsNone DEF MaintenanceInv
<1>3. RedisOK'
  BY <1>1, <1>2 DEF RedisOK
<1>4. CallersOK' /\ \A c : Carried(c)' = Carried(c) /\ Unrevived(c)' = Unrevived(c)
  BY <1>1, <1>2, CallersRest
<1>5. drain' \in Drains /\ drain'.pc = "failed" /\ drain'.id = drain.id
  BY <1>1, <1>2 DEF Drains
<1>6. LoopsOK'
  BY <1>1, <1>2, <1>5, DrainStepOK
<1>7. \A j \in Id : Followed(j)'
  BY <1>1, <1>5 DEF MaintenanceInv, Followed, Placed
<1>8. \A j \in accepted : Held(j)'
  BY <1>1, <1>4 DEF MaintenanceInv, Held
<1> QED
  BY <1>1, <1>3, <1>4, <1>6, <1>7, <1>8 DEF MaintenanceInv

LEMMA DrainKillStep == ASSUME MaintenanceInv, DrainKill PROVE MaintenanceInv'
<1> DEFINE e == Entry(drain.id, drain.created)
           all == Append(dead, e)
           cut == IF Len(all) > DeadLimit THEN Len(all) - DeadLimit ELSE 0
<1>1. /\ UNCHANGED <<plan, now, queue, zset, claim, pc, ids, scan, cron>>
      /\ UNCHANGED <<accepted, settled, stranded>>
      /\ drain.pc = "failed" /\ drain' = DrainIdle
      /\ jobs' = HDel({drain.id})
      /\ dead' = SubSeq(all, cut + 1, Len(all))
      /\ removed' = removed \cup DeadIds(SubSeq(all, 1, cut))
  BY DEF DrainKill
<1>2. RedisOK /\ CallersOK /\ LoopsOK /\ drain \in Drains /\ drain.id \in Id /\ drain.id # None
  BY <1>1, DrainTypes, NoneIsNone DEF MaintenanceInv
<1>3. e \in Entries /\ e.id = drain.id
  BY <1>2 DEF Entry, Entries, Drains
<1> HIDE DEF e
<1>4. all \in Seq(Entries) /\ ToSet(all) = ToSet(dead) \cup {e}
  BY <1>2, <1>3, InAppend DEF RedisOK
<1> HIDE DEF all
<1>5. cut \in 0..Len(all)
  <2>1. Len(all) \in Nat /\ DeadLimit \in Nat
    BY <1>4, TimeAssumption
  <2> QED
    BY <2>1
<1> HIDE DEF cut
<1>6. dead' \in Seq(Entries) /\ ToSet(all) = ToSet(SubSeq(all, 1, cut)) \cup ToSet(dead')
  BY <1>1, <1>4, <1>5, InSplit
<1>7. DeadIds(dead) \cup {drain.id} \subseteq removed' \cup DeadIds(dead')
  <2>1. ASSUME NEW x \in ToSet(dead) \cup {e} PROVE x.id \in removed' \cup DeadIds(dead')
    <3>1. x \in ToSet(SubSeq(all, 1, cut)) \/ x \in ToSet(dead')
      BY <1>4, <1>6
    <3>2. x.id \in DeadIds(SubSeq(all, 1, cut)) \/ x.id \in DeadIds(dead')
      BY <3>1, DeadIdsOf
    <3> QED
      BY <1>1, <3>2
  <2>2. DeadIds(dead) = {x.id : x \in ToSet(dead)}
    BY DeadIdsOf
  <2> QED
    BY <1>3, <2>1, <2>2
<1>8. /\ jobs' \in [Id -> Nat \cup {None}]
      /\ \A j \in Id : jobs'[j] = IF j \in {drain.id} THEN None ELSE jobs[j]
  BY <1>1, <1>2, HDelOK
<1>9. RedisOK'
  BY <1>1, <1>2, <1>6, <1>8 DEF RedisOK
<1>10. CallersOK' /\ \A c : Carried(c)' = Carried(c) /\ Unrevived(c)' = Unrevived(c)
  BY <1>1, <1>2, CallersRest
<1>11. LoopsOK'
  BY <1>1, <1>2, DrainIdleOK, DrainStepOK
<1>12. ASSUME NEW j \in Id PROVE Followed(j)'
  <2>1. Placed(j) /\ j # drain.id => Placed(j)'
    BY <1>1, <1>10, PlacedIs, PlacedIsNext
  <2> QED
    BY <1>1, <1>8, <2>1 DEF Followed, MaintenanceInv
<1>13. ASSUME NEW j \in accepted PROVE Held(j)'
  <2>1. Held(j) /\ j \in Id
    BY <1>2 DEF MaintenanceInv, RedisOK
  <2>2. j \in DeadIds(dead) \/ j = drain.id => j \in removed' \/ j \in DeadIds(dead')
    BY <1>7
  <2>3. removed \subseteq removed'
    BY <1>1
  <2> QED
    BY <1>1, <1>8, <1>10, <2>1, <2>2, <2>3 DEF Held
<1> QED
  BY <1>1, <1>9, <1>10, <1>11, <1>12, <1>13 DEF MaintenanceInv

LEMMA DrainErrorStep == ASSUME MaintenanceInv, DrainError PROVE MaintenanceInv'
<1>1. /\ UNCHANGED <<plan, now, jobs, queue, zset, dead, claim, pc, ids, scan, cron>>
      /\ UNCHANGED <<accepted, settled, removed>>
      /\ stranded' = stranded \cup {drain.id} /\ drain' = DrainIdle
  BY DEF DrainError, redis
<1>2. RedisOK /\ CallersOK /\ LoopsOK
  BY DEF MaintenanceInv
<1>3. RedisOK'
  BY <1>1, <1>2 DEF RedisOK
<1>4. CallersOK' /\ \A c : Carried(c)' = Carried(c) /\ Unrevived(c)' = Unrevived(c)
  BY <1>1, <1>2, CallersRest
<1>5. LoopsOK'
  BY <1>1, <1>2, DrainIdleOK, DrainStepOK
<1>6. ASSUME NEW j \in Id PROVE Followed(j)'
  <2>1. Placed(j) => Placed(j)' \/ j \in stranded'
    BY <1>1, <1>4, PlacedIs, PlacedIsNext
  <2> QED
    BY <1>1, <2>1 DEF Followed, MaintenanceInv
<1>7. \A j \in accepted : Held(j)'
  BY <1>1, <1>4 DEF MaintenanceInv, Held
<1> QED
  BY <1>1, <1>3, <1>4, <1>5, <1>6, <1>7 DEF MaintenanceInv

---------------------------------------------------------------------------
LEMMA MaintenanceInit == Init => MaintenanceInv
<1> SUFFICES ASSUME Init PROVE MaintenanceInv
  OBVIOUS
<1> DEFINE killed == { Entry(j, 0) : j \in accepted \cap Killed }
<1>1. accepted \subseteq Retried \cup Killed /\ Retried \subseteq Job /\ Killed \subseteq Job /\ Job \subseteq Id
  BY JobAssumption DEF Init, Id
<1>2. dead \in Seq(Entries) /\ ToSet(dead) = killed
  <2>1. IsFiniteSet(accepted \cap Killed) /\ accepted \cap Killed \subseteq Id
    BY <1>1, FiniteIds
  <2>2. IsFiniteSet(killed) /\ killed \subseteq Entries
    <3>1. IsFiniteSet(killed)
      <4> DEFINE f == [j \in accepted \cap Killed |-> Entry(j, 0)]
      <4>1. f \in Surjection(accepted \cap Killed, killed)
        BY DEF Surjection
      <4> HIDE DEF f, killed
      <4> QED
        BY <2>1, <4>1, FS_Surjection
    <3>2. killed \subseteq Entries
      BY <2>1 DEF Entry, Entries
    <3> QED
      BY <3>1, <3>2
  <2>3. dead = SetToSeq(killed)
    BY DEF Init
  <2> HIDE DEF killed
  <2>4. SetToSeq(killed) \in Seq(killed) /\ ToSet(SetToSeq(killed)) = killed
    BY <2>2, InSetToSeq
  <2> QED
    BY <2>2, <2>3, <2>4
<1>3. \A j \in accepted \cap Killed : j \in DeadIds(dead)
  <2>1. \A j \in accepted \cap Killed : Entry(j, 0) \in ToSet(dead) /\ Entry(j, 0).id = j
    BY <1>2 DEF Entry
  <2>2. DeadIds(dead) = {x.id : x \in ToSet(dead)}
    BY DeadIdsOf
  <2> QED
    BY <2>1, <2>2
<1>4. jobs = [j \in Id |-> IF j \in accepted \cap Retried THEN 0 ELSE None]
  BY DEF Init
<1>5. RedisOK
  <2>1. jobs \in [Id -> Nat \cup {None}]
    BY <1>4
  <2>2. zset \in [ZSet -> [Id -> Nat \cup {None}]]
    BY DEF Init
  <2>3. queue \in Seq(Id) /\ claim \in [Admin -> Seq(Entries)] /\ accepted \subseteq Id
    BY <1>1 DEF Init
  <2> QED
    BY <1>2, <2>1, <2>2, <2>3 DEF RedisOK
<1>6. CallersOK
  BY DEF Init, CallersOK, CallerOK, Moving, Reviving
<1>7. LoopsOK
  <2>1. scan \in [Looper -> Scans] /\ \A p \in Looper : ScanOK(p)
    BY DEF Init, Scans, ScanOK
  <2>2. cron \in [Proc -> Crons] /\ \A p \in Proc : cron[p].pc = "down"
    BY DEF Init, Crons
  <2>3. drain \in Drains /\ drain.pc = "idle" /\ drain.id = None
    BY DEF Init, Drains
  <2> QED
    BY <2>1, <2>2, <2>3 DEF Init, LoopsOK, Scans, Crons, Drains
<1>8. ASSUME NEW j \in Id PROVE Followed(j)
  <2>1. jobs[j] # None => zset["retry"][j] # None
    BY <1>4, NoneIsNone DEF Init, ZSet
  <2> QED
    BY <2>1, PlacedIs DEF Followed, ZSet
<1>9. ASSUME NEW j \in accepted PROVE Held(j)
  <2>1. CASE j \in Retried
    <3>1. jobs[j] = 0
      BY <1>1, <1>4, <2>1
    <3> QED
      BY <3>1, NoneIsNone DEF Held
  <2>2. CASE j \in Killed
    BY <1>3, <2>2 DEF Held
  <2> QED
    BY <1>1, <2>1, <2>2
<1> QED
  BY <1>5, <1>6, <1>7, <1>8, <1>9 DEF MaintenanceInv

LEMMA MaintenanceNext == MaintenanceInv /\ [Next]_vars => MaintenanceInv'
<1> SUFFICES ASSUME MaintenanceInv, [Next]_vars PROVE MaintenanceInv'
  OBVIOUS
<1>1. CASE Tick
  BY <1>1, TickStep
<1>2. ASSUME NEW j \in Job, Enqueue(j) PROVE MaintenanceInv'
  BY <1>2, EnqueueStep
<1>3. ASSUME NEW a \in Admin, Operator(a) PROVE MaintenanceInv'
  <2>1. CASE Wipe(a)
    BY <2>1, WipeReadStep, WipeDeleteStep DEF Wipe
  <2>2. CASE WipeDead(a)
    BY <2>2, WipeDeadStep
  <2>3. CASE Delete(a)
    BY <2>3, DeleteJobStep DEF Delete
  <2>4. CASE Revive(a)
    BY <2>4, ReviveClaimStep, ReviveReadStep, ReviveCheckStep, ReviveWriteStep, ReviveFailsStep,
       RestoreStep, ReviveDoneStep DEF Revive
  <2>5. CASE RetryAllNow(a)
    BY <2>5, RetryAllNowStep
  <2> QED
    BY <1>3, <2>1, <2>2, <2>3, <2>4, <2>5 DEF Operator
<1>4. ASSUME NEW m \in Mover, EnqueueScheduled(m) PROVE MaintenanceInv'
  BY <1>4, EnqueueScheduledStep
<1>5. ASSUME NEW c \in Caller, Move(c) \/ Dies(c) PROVE MaintenanceInv'
  BY <1>5, ClaimStep, GetManyStep, PushAllStep, DiesStep DEF Move
<1>6. ASSUME NEW p \in Looper, Cleanup(p) PROVE MaintenanceInv'
  BY <1>6, CleanupBeginStep, CleanupScanStep, CleanupDeleteStep DEF Cleanup
<1>7. ASSUME NEW p \in Proc, Cron(p) \/ CronFails(p) PROVE MaintenanceInv'
  BY <1>7, CronStartStep, CronReadyStep, CronCheckStep, CronWriteStep, CronFailsStep DEF Cron
<1>8. CASE Drain
  BY <1>8, DrainPopStep, DrainLoadStep, DrainRunStep, DrainSuccessStep, DrainFailureStep,
     DrainKillStep DEF Drain
<1>9. CASE DrainError
  BY <1>9, DrainErrorStep
<1>10. CASE Done \/ UNCHANGED vars
  BY <1>10, StutterStep DEF Done
<1> QED
  BY <1>1, <1>2, <1>3, <1>4, <1>5, <1>6, <1>7, <1>8, <1>9, <1>10 DEF Next

(* Every envelope is where its job will be run or was cut off from there,  *)
(* every caller holds what it took, and every accepted job is accounted    *)
(* for, whatever operators, loops, cron and drain do in between.           *)
THEOREM MaintenanceInvariant == Spec => []MaintenanceInv
BY MaintenanceInit, MaintenanceNext, PTL DEF Spec

(* No operation of an operator or of a background loop makes an accepted   *)
(* job disappear: JobKept holds for any number of jobs, processes and      *)
(* calls, any limit of the dead list and any choice of operations.         *)
THEOREM JobsAreKept == Spec => []JobKept
BY MaintenanceInvariant, InvImpliesKept, PTL

---------------------------------------------------------------------------
(* RevivedOnce: a job is in one place, once *)

(* At most one element of s is in M. *)
Once(s, M) == \A i, k \in DOMAIN s : s[i] \in M /\ s[k] \in M => i = k

LEMMA OnceEmpty == \A M : Once(<<>>, M)
BY DEF Once

LEMMA OnceTail ==
    ASSUME NEW S, NEW s \in Seq(S), s # <<>>, NEW M, Once(s, M)
    PROVE  Once(Tail(s), M) /\ (Head(s) \in M => ToSet(Tail(s)) \cap M = {})
<1>1. Len(s) \in Nat \ {0} /\ Head(s) = s[1] /\ 1 \in DOMAIN s
  OBVIOUS
<1>2. DOMAIN Tail(s) = 1..(Len(s) - 1)
  OBVIOUS
<1>3. ASSUME NEW i \in DOMAIN Tail(s) PROVE i \in Nat /\ i # 0 /\ i + 1 \in DOMAIN s /\ Tail(s)[i] = s[i + 1]
  BY <1>1, <1>2
<1>4. Once(Tail(s), M)
  <2> SUFFICES ASSUME NEW i \in DOMAIN Tail(s), NEW k \in DOMAIN Tail(s), Tail(s)[i] \in M, Tail(s)[k] \in M
               PROVE  i = k
    BY DEF Once
  <2>1. i + 1 = k + 1
    BY <1>3 DEF Once
  <2> QED
    BY <1>3, <2>1
<1>5. ASSUME Head(s) \in M, NEW x \in ToSet(Tail(s)), x \in M PROVE FALSE
  <2>1. PICK i \in DOMAIN Tail(s) : x = Tail(s)[i]
    BY <1>5 DEF ToSet
  <2>2. i + 1 = 1
    BY <1>1, <1>3, <1>5, <2>1 DEF Once
  <2> QED
    BY <1>3, <2>2
<1> QED
  BY <1>4, <1>5

LEMMA OnceAppend ==
    ASSUME NEW S, NEW s \in Seq(S), NEW x \in S, NEW M, Once(s, M), x \in M => ToSet(s) \cap M = {}
    PROVE  Once(Append(s, x), M)
<1> DEFINE n == Len(s) + 1
           t == Append(s, x)
<1>1. Len(s) \in Nat /\ t \in Seq(S) /\ DOMAIN t = 1..n /\ DOMAIN s = 1..Len(s)
  OBVIOUS
<1>2. t[n] = x /\ \A i \in DOMAIN s : t[i] = s[i]
  OBVIOUS
<1> HIDE DEF t
<1>3. ASSUME NEW i \in DOMAIN t PROVE i = n \/ i \in DOMAIN s
  BY <1>1
<1>4. ASSUME x \in M, NEW i \in DOMAIN s, s[i] \in M PROVE FALSE
  <2>1. s[i] \in ToSet(s)
    BY DEF ToSet
  <2> QED
    BY <1>4, <2>1
<1> QED
  BY <1>2, <1>3, <1>4 DEF Once, t

LEMMA OnceConcat ==
    ASSUME NEW S, NEW s \in Seq(S), NEW t \in Seq(S), NEW M, Once(s, M), Once(t, M),
           ToSet(s) \cap M = {} \/ ToSet(t) \cap M = {}
    PROVE  Once(s \o t, M)
<1> DEFINE u == s \o t
<1>1. /\ u \in Seq(S) /\ Len(u) = Len(s) + Len(t) /\ Len(s) \in Nat /\ Len(t) \in Nat
      /\ \A i \in 1..Len(s) : u[i] = s[i]
      /\ \A i \in 1..Len(t) : u[Len(s) + i] = t[i]
  BY ConcatProperties
<1> HIDE DEF u
<1>2. DOMAIN u = 1..(Len(s) + Len(t)) /\ DOMAIN s = 1..Len(s) /\ DOMAIN t = 1..Len(t)
  BY <1>1
<1>3. ASSUME NEW i \in DOMAIN u
      PROVE  \/ i \in DOMAIN s /\ u[i] = s[i] /\ u[i] \in ToSet(s)
             \/ i - Len(s) \in DOMAIN t /\ u[i] = t[i - Len(s)] /\ u[i] \in ToSet(t)
  <2>1. CASE i \in 1..Len(s)
    BY <1>1, <1>2, <2>1 DEF ToSet
  <2>2. CASE i \notin 1..Len(s)
    <3>1. i - Len(s) \in 1..Len(t) /\ i = Len(s) + (i - Len(s))
      BY <1>1, <1>2, <2>2
    <3>2. u[i] = t[i - Len(s)]
      BY <1>1, <3>1
    <3> QED
      BY <1>2, <3>1, <3>2 DEF ToSet
  <2> QED
    BY <2>1, <2>2
<1>4. ASSUME NEW i \in DOMAIN u, NEW k \in DOMAIN u, u[i] \in M, u[k] \in M PROVE i = k
  <2>1. CASE ToSet(t) \cap M = {}
    BY <1>3, <1>4, <2>1 DEF Once
  <2>2. CASE ToSet(s) \cap M = {}
    <3>1. i - Len(s) \in DOMAIN t /\ k - Len(s) \in DOMAIN t /\ t[i - Len(s)] \in M /\ t[k - Len(s)] \in M
      BY <1>3, <1>4, <2>2
    <3>2. i - Len(s) = k - Len(s) /\ i \in Nat /\ k \in Nat
      BY <1>1, <1>2, <3>1 DEF Once
    <3> QED
      BY <1>1, <3>2
  <2> QED
    BY <2>1, <2>2
<1> QED
  BY <1>4 DEF Once, u

LEMMA OnceReverse ==
    ASSUME NEW S, NEW s \in Seq(S), NEW M, Once(s, M)
    PROVE  Once(Reverse(s), M)
<1>1. Len(s) \in Nat /\ DOMAIN s = 1..Len(s) /\ DOMAIN Reverse(s) = 1..Len(s)
  BY DEF Reverse
<1>2. ASSUME NEW i \in DOMAIN Reverse(s)
      PROVE  i \in Nat /\ (Len(s) - i) + 1 \in DOMAIN s /\ Reverse(s)[i] = s[(Len(s) - i) + 1]
  BY <1>1 DEF Reverse
<1> SUFFICES ASSUME NEW i \in DOMAIN Reverse(s), NEW k \in DOMAIN Reverse(s),
                    Reverse(s)[i] \in M, Reverse(s)[k] \in M
             PROVE  i = k
  BY DEF Once
<1>3. (Len(s) - i) + 1 = (Len(s) - k) + 1
  BY <1>2 DEF Once
<1> QED
  BY <1>1, <1>2, <1>3

LEMMA OnceSuffix ==
    ASSUME NEW S, NEW s \in Seq(S), NEW n \in 0..Len(s), NEW M, Once(s, M)
    PROVE  Once(SubSeq(s, n + 1, Len(s)), M)
<1> DEFINE t == SubSeq(s, n + 1, Len(s))
<1>1. Len(s) \in Nat /\ n \in Nat /\ DOMAIN s = 1..Len(s)
  OBVIOUS
<1>2. DOMAIN t = 1..(Len(s) - n) /\ \A i \in 1..(Len(s) - n) : t[i] = s[n + i]
  BY <1>1
<1> HIDE DEF t
<1>3. ASSUME NEW i \in DOMAIN t PROVE i \in Nat /\ n + i \in DOMAIN s /\ t[i] = s[n + i]
  BY <1>1, <1>2
<1>4. ASSUME NEW i \in DOMAIN t, NEW k \in DOMAIN t, t[i] \in M, t[k] \in M PROVE i = k
  <2>1. n + i = n + k
    BY <1>3, <1>4 DEF Once
  <2> QED
    BY <1>1, <1>3, <2>1
<1> QED
  BY <1>4 DEF Once, t

LEMMA OnceSetToSeq ==
    ASSUME NEW S, IsFiniteSet(S), NEW M, \A x, y \in S : x \in M /\ y \in M => x = y
    PROVE  Once(SetToSeq(S), M)
<1>1. Cardinality(S) \in Nat /\ ExistsBijection(1..Cardinality(S), S)
  BY FS_CardinalityType
<1>2. \E f \in [1..Cardinality(S) -> S] : IsInjective(f)
  BY <1>1 DEF ExistsBijection, Bijection, Injection, IsInjective
<1> DEFINE f == SetToSeq(S)
<1>3. f \in [1..Cardinality(S) -> S] /\ IsInjective(f)
  BY <1>2 DEF SetToSeq
<1> HIDE DEF f
<1>4. \A i, k \in DOMAIN f : f[i] = f[k] => i = k
  BY <1>3 DEF IsInjective
<1> QED
  BY <1>3, <1>4 DEF Once, f

(* ids taken out of a sorted set, and entries still to be enqueued, in order *)
Load(c) == IF pc[c] \in {"get", "push"} THEN ids[c] ELSE <<>>
Pending(a) ==
    IF pc[a] = "revive_read" THEN claim[a] ELSE IF pc[a] \in Reviving THEN ids[a] ELSE <<>>

EntriesOf(j) == [id : {j}, created : Nat]

(* The places of an id from where it will still be moved on. *)
At(k, o, j) ==
    \/ k = "queue" /\ o = "queue" /\ j \in ToSet(queue)
    \/ k = "zset" /\ o \in ZSet /\ zset[o][j] # None
    \/ k = "carry" /\ o \in Caller /\ j \in ToSet(Load(o))
    \/ k = "drain" /\ o = "drain" /\ drain.id = j
    \/ k = "dead" /\ o = "dead" /\ j \in DeadIds(dead)
    \/ k = "revive" /\ o \in Admin /\ j \in DeadIds(Pending(o))

Apart(j) == \A k, o, k2, o2 : At(k, o, j) /\ At(k2, o2, j) => k = k2 /\ o = o2

Unrepeated(j) ==
    /\ Once(queue, {j})
    /\ Once(dead, EntriesOf(j))
    /\ \A c \in Caller : Once(Load(c), {j})
    /\ \A a \in Admin : Once(Pending(a), EntriesOf(j))

(* A job is in one place at most, once, and in none before it is enqueued; *)
(* an enqueue that was applied and reported as failed, and a caller that   *)
(* died, take it out of the argument.                                      *)
Single(j) ==
    j \in doubled \cup stranded
    \/ (Apart(j) /\ Unrepeated(j) /\ (j \notin accepted => \A k, o : ~At(k, o, j)))

OnceInv == MaintenanceInv /\ \A j \in Job : Single(j)

LEMMA EntryHas ==
    ASSUME NEW s \in Seq(Entries), NEW j
    PROVE  j \in DeadIds(s) <=> ToSet(s) \cap EntriesOf(j) # {}
<1>1. ToSet(s) \subseteq Entries
  BY InSeq
<1>2. DeadIds(s) = {e.id : e \in ToSet(s)}
  BY DeadIdsOf
<1>3. \A e \in Entries : e \in EntriesOf(j) <=> e.id = j
  BY DEF Entries, EntriesOf
<1> QED
  BY <1>1, <1>2, <1>3

(* Where only some of the places change, the others hold what they held. *)
LEMMA AtSame ==
    /\ UNCHANGED queue => \A o, j : At("queue", o, j)' <=> At("queue", o, j)
    /\ UNCHANGED zset => \A o, j : At("zset", o, j)' <=> At("zset", o, j)
    /\ UNCHANGED dead => \A o, j : At("dead", o, j)' <=> At("dead", o, j)
    /\ drain'.id = drain.id => \A o, j : At("drain", o, j)' <=> At("drain", o, j)
    /\ \A c \in Caller : Load(c)' = Load(c) => \A j : At("carry", c, j)' <=> At("carry", c, j)
    /\ \A a \in Admin : Pending(a)' = Pending(a) => \A j : At("revive", a, j)' <=> At("revive", a, j)
BY DEF At

LEMMA ApartKept ==
    ASSUME NEW j, Apart(j), \A k, o : At(k, o, j)' => At(k, o, j) PROVE Apart(j)'
BY DEF Apart

(* An id that leaves the place it was in for another one is in one place. *)
LEMMA ApartMoved ==
    ASSUME NEW j, Apart(j), NEW k0, NEW o0, At(k0, o0, j), NEW k1, NEW o1,
           \A k, o : At(k, o, j)' => (k = k1 /\ o = o1) \/ (At(k, o, j) /\ ~(k = k0 /\ o = o0))
    PROVE  Apart(j)'
<1>1. \A k, o : At(k, o, j) => k = k0 /\ o = o0
  BY DEF Apart
<1>2. \A k, o : At(k, o, j)' => k = k1 /\ o = o1
  BY <1>1
<1> QED
  BY <1>2 DEF Apart

(* Each place of the state after was the same before, or is empty. *)
LEMMA SingleShrinks ==
    ASSUME OnceInv, NEW j \in Job,
           queue' \in {queue, <<>>}, zset' = zset, dead' \in {dead, <<>>},
           drain'.id \in {drain.id, None},
           \A c \in Caller : Load(c)' \in {Load(c), <<>>},
           \A a \in Admin : Pending(a)' \in {Pending(a), <<>>},
           doubled \subseteq doubled', stranded \subseteq stranded', accepted \subseteq accepted'
    PROVE  Single(j)'
<1>1. CASE j \in doubled \cup stranded
  BY <1>1 DEF Single
<1>2. CASE j \notin doubled \cup stranded
  <2>1. Apart(j) /\ Unrepeated(j) /\ (j \notin accepted => \A k, o : ~At(k, o, j))
    BY <1>2 DEF OnceInv, Single
  <2>2. j # None
    BY NoneIsNone DEF Id
  <2>3. \A k, o : At(k, o, j)' => At(k, o, j)
    BY <2>2, InEmpty DEF At
  <2>4. Apart(j)'
    BY <2>1, <2>3, ApartKept
  <2>5. Unrepeated(j)'
    BY <2>1, OnceEmpty DEF Unrepeated
  <2> QED
    BY <2>1, <2>3, <2>4, <2>5 DEF Single
<1> QED
  BY <1>1, <1>2

LEMMA LoadsRest ==
    ASSUME UNCHANGED <<pc, ids, claim>>
    PROVE  \A c : Load(c)' = Load(c) /\ Pending(c)' = Pending(c)
BY DEF Load, Pending

LEMMA OthersLoad ==
    ASSUME CallersOK, NEW c \in Caller, NEW w, NEW l, Goto(c, w, l),
           \A d \in Caller : d # c /\ d \in Admin => claim'[d] = claim[d]
    PROVE  /\ \A d \in Caller : d # c => Load(d)' = Load(d)
           /\ \A a \in Admin : a # c => Pending(a)' = Pending(a)
           /\ Load(c)' = IF w \in {"get", "push"} THEN l ELSE <<>>
           /\ Pending(c)' = IF w = "revive_read" THEN claim'[c] ELSE IF w \in Reviving THEN l ELSE <<>>
<1>1. pc'[c] = w /\ ids'[c] = l /\ \A d \in Caller : d # c => pc'[d] = pc[d] /\ ids'[d] = ids[d]
  BY GotoElsewhere
<1>2. \A a \in Admin : a \in Caller
  BY AdminCalls
<1>3. \A d \in Caller : d # c => Load(d)' = Load(d)
  BY <1>1 DEF Load
<1>4. \A a \in Admin : a # c => Pending(a)' = Pending(a)
  BY <1>1, <1>2 DEF Pending
<1> QED
  BY <1>1, <1>3, <1>4 DEF Load, Pending

(* Steps that move no id, or drop some. *)
LEMMA StillStep ==
    ASSUME OnceInv, NEW j \in Job,
           UNCHANGED <<queue, zset, dead, claim, pc, ids, doubled>>, drain'.id \in {drain.id, None},
           stranded \subseteq stranded', accepted \subseteq accepted'
    PROVE  Single(j)'
BY LoadsRest, SingleShrinks

LEMMA IdleCallSingle ==
    ASSUME OnceInv, NEW j \in Job, NEW c \in Caller, NEW w \in {"wipe", "claim"}, NEW l, pc[c] = "idle", Goto(c, w, l),
           UNCHANGED <<queue, zset, dead, claim, drain, doubled, stranded, accepted>>
    PROVE  Single(j)'
<1>1. CallersOK
  BY DEF OnceInv, MaintenanceInv
<1>2. Load(c)' = <<>> /\ Pending(c)' = <<>>
  BY <1>1, OthersLoad DEF Reviving
<1>3. /\ \A d \in Caller : d # c => Load(d)' = Load(d)
      /\ \A a \in Admin : a # c => Pending(a)' = Pending(a)
  BY <1>1, OthersLoad
<1> QED
  BY <1>2, <1>3, SingleShrinks

LEMMA DropSingle ==
    ASSUME OnceInv, NEW j \in Job, NEW c \in Caller, Goto(c, "idle", <<>>),
           \A d \in Caller : d # c /\ d \in Admin => claim'[d] = claim[d],
           queue' \in {queue, <<>>}, UNCHANGED <<zset, dead, drain, doubled, accepted>>,
           stranded \subseteq stranded'
    PROVE  Single(j)'
<1>1. CallersOK
  BY DEF OnceInv, MaintenanceInv
<1>2. Load(c)' = <<>> /\ Pending(c)' = <<>>
  BY <1>1, OthersLoad DEF Reviving
<1>3. /\ \A d \in Caller : d # c => Load(d)' = Load(d)
      /\ \A a \in Admin : a # c => Pending(a)' = Pending(a)
  BY <1>1, OthersLoad
<1> QED
  BY <1>2, <1>3, SingleShrinks

LEMMA EnqueueSingle == ASSUME OnceInv, NEW i \in Job, Enqueue(i), NEW j \in Job PROVE Single(j)'
<1>1. /\ UNCHANGED <<dead, claim, pc, ids, drain, doubled, stranded>>
      /\ accepted' = accepted \cup {i} /\ i \notin accepted
      /\ \/ queue' = Append(queue, i) /\ zset' = zset
         \/ zset' = [zset EXCEPT !["schedule"][i] = now + Delay[i]] /\ queue' = queue
  BY DEF Enqueue, memory
<1>2. i \in Id /\ j \in Id /\ RedisOK /\ "schedule" \in ZSet
  BY DEF Id, OnceInv, MaintenanceInv, ZSet
<1>3. \A c : Load(c)' = Load(c) /\ Pending(c)' = Pending(c)
  BY <1>1, LoadsRest
<1>4. CASE j \in doubled \cup stranded
  BY <1>1, <1>4 DEF Single
<1>5. CASE j \notin doubled \cup stranded
  <2>1. Apart(j) /\ Unrepeated(j) /\ (j \notin accepted => \A k, o : ~At(k, o, j))
    BY <1>5 DEF OnceInv, Single
  <2>2. queue \in Seq(Id)
    BY <1>2 DEF RedisOK
  <2>3. CASE queue' = Append(queue, i) /\ zset' = zset
    <3>1. ToSet(queue') = ToSet(queue) \cup {i}
      BY <1>2, <2>2, <2>3, InAppend
    <3>2. \A k, o : At(k, o, j)' => At(k, o, j) \/ (j = i /\ k = "queue" /\ o = "queue")
      BY <1>1, <1>3, <2>3, <3>1 DEF At
    <3>3. Once(queue', {j})
      <4>1. i \in {j} => ToSet(queue) \cap {j} = {}
        BY <1>1, <2>1 DEF At
      <4>2. Once(queue, {j})
        BY <2>1 DEF Unrepeated
      <4> QED
        BY <1>2, <2>2, <2>3, <4>1, <4>2, OnceAppend
    <3>4. Apart(j)'
      BY <1>1, <2>1, <3>2 DEF Apart
    <3>5. Unrepeated(j)'
      BY <1>1, <1>3, <2>1, <3>3 DEF Unrepeated
    <3>6. j \notin accepted' => \A k, o : ~At(k, o, j)'
      BY <1>1, <2>1, <3>2
    <3> QED
      BY <3>4, <3>5, <3>6 DEF Single
  <2>4. CASE zset' = [zset EXCEPT !["schedule"][i] = now + Delay[i]] /\ queue' = queue
    <3>1. \A z \in ZSet : zset'[z][j] # None => zset[z][j] # None \/ (j = i /\ z = "schedule")
      BY <1>2, <2>4 DEF RedisOK
    <3>2. \A k, o : At(k, o, j)' => At(k, o, j) \/ (j = i /\ k = "zset" /\ o = "schedule")
      BY <1>1, <1>3, <2>4, <3>1 DEF At
    <3>3. Apart(j)'
      BY <1>1, <2>1, <3>2 DEF Apart
    <3>4. Unrepeated(j)'
      BY <1>1, <1>3, <2>1, <2>4 DEF Unrepeated
    <3>5. j \notin accepted' => \A k, o : ~At(k, o, j)'
      BY <1>1, <2>1, <3>2
    <3> QED
      BY <3>3, <3>4, <3>5 DEF Single
  <2> QED
    BY <1>1, <2>3, <2>4
<1> QED
  BY <1>4, <1>5

---------------------------------------------------------------------------
(* Steps that move ids *)

(* To show Single(j)' of a job that is still followed, show its places. *)
LEMMA SingleIf ==
    ASSUME OnceInv, NEW j \in Job, doubled \subseteq doubled', stranded \subseteq stranded',
           accepted \subseteq accepted',
           ASSUME Apart(j), Unrepeated(j), j \notin accepted => \A k, o : ~At(k, o, j),
                  j \notin doubled', j \notin stranded'
           PROVE  Apart(j)' /\ Unrepeated(j)' /\ (j \notin accepted => \A k, o : ~At(k, o, j)')
    PROVE  Single(j)'
BY DEF OnceInv, Single

LEMMA OnceIds ==
    ASSUME OnceInv
    PROVE  /\ RedisOK /\ CallersOK /\ LoopsOK /\ queue \in Seq(Id) /\ dead \in Seq(Entries)
           /\ \A j \in Job : j \in Id /\ j # None /\ j \notin Occurrence
           /\ \A a \in Admin : claim[a] \in Seq(Entries)
<1>1. RedisOK /\ CallersOK /\ LoopsOK
  BY DEF OnceInv, MaintenanceInv
<1>2. \A j \in Job : j \in Id /\ j # None /\ j \notin Occurrence
  BY NoneIsNone, JobAssumption DEF Id
<1> QED
  BY <1>1, <1>2 DEF RedisOK

LEMMA ReviveClaimSingle ==
    ASSUME OnceInv, NEW a \in Admin, ReviveClaim(a), NEW j \in Job PROVE Single(j)'
<1>1. /\ UNCHANGED <<queue, zset, drain, accepted, doubled, stranded>>
      /\ dead' = <<>> /\ claim' = [claim EXCEPT ![a] = dead] /\ a \in Caller
      /\ pc[a] = "idle" /\ Goto(a, "revive_read", <<>>)
  BY AdminCalls DEF ReviveClaim, Call, history
<1>2. claim'[a] = dead /\ \A d \in Admin : d # a => claim'[d] = claim[d]
  BY <1>1, OnceIds DEF RedisOK
<1>3. Load(a)' = <<>> /\ Pending(a)' = dead /\ Load(a) = <<>> /\ Pending(a) = <<>>
  <2>1. Load(a)' = <<>> /\ Pending(a)' = claim'[a]
    BY <1>1, <1>2, OnceIds, OthersLoad DEF Reviving
  <2> QED
    BY <1>1, <1>2, <2>1 DEF Load, Pending, Reviving
<1>4. /\ \A d \in Caller : d # a => Load(d)' = Load(d)
      /\ \A d \in Admin : d # a => Pending(d)' = Pending(d)
  BY <1>1, <1>2, OnceIds, OthersLoad
<1>5. ASSUME Apart(j), Unrepeated(j), j \notin accepted => \A k, o : ~At(k, o, j)
      PROVE  Apart(j)' /\ Unrepeated(j)' /\ (j \notin accepted => \A k, o : ~At(k, o, j)')
  <2>1. Unrepeated(j)'
    BY <1>1, <1>3, <1>4, <1>5, OnceEmpty DEF Unrepeated
  <2>2. CASE j \in DeadIds(dead)
    <3>1. At("dead", "dead", j)
      BY <2>2 DEF At
    <3>2. \A k, o : At(k, o, j)' => (k = "revive" /\ o = a) \/ (At(k, o, j) /\ ~(k = "dead" /\ o = "dead"))
      BY <1>1, <1>3, <1>4, InEmpty DEF At
    <3>3. Apart(j)'
      BY <1>5, <3>1, <3>2, ApartMoved
    <3> QED
      BY <1>5, <2>1, <3>1, <3>3
  <2>3. CASE j \notin DeadIds(dead)
    <3>1. \A k, o : At(k, o, j)' => At(k, o, j)
      BY <1>1, <1>3, <1>4, <2>3, InEmpty DEF At
    <3> QED
      BY <1>5, <2>1, <3>1, ApartKept
  <2> QED
    BY <2>2, <2>3
<1> QED
  BY <1>1, <1>5, SingleIf

(* A caller goes on with the same entries in another order, or fewer. *)
LEMMA PendingSingle ==
    ASSUME OnceInv, NEW a \in Admin, NEW w, NEW l, Goto(a, w, l), NEW j \in Job,
           UNCHANGED <<queue, zset, dead, claim, drain, accepted, doubled, stranded>>,
           Load(a)' = <<>>, DeadIds(Pending(a)') \subseteq DeadIds(Pending(a)),
           Once(Pending(a), EntriesOf(j)) => Once(Pending(a)', EntriesOf(j))
    PROVE  Single(j)'
<1>1. a \in Caller
  BY AdminCalls
<1>2. /\ \A d \in Caller : d # a => Load(d)' = Load(d)
      /\ \A d \in Admin : d # a => Pending(d)' = Pending(d)
  BY <1>1, OnceIds, OthersLoad
<1>3. ASSUME Apart(j), Unrepeated(j), j \notin accepted => \A k, o : ~At(k, o, j)
      PROVE  Apart(j)' /\ Unrepeated(j)' /\ (j \notin accepted => \A k, o : ~At(k, o, j)')
  <2>1. Unrepeated(j)'
    BY <1>2, <1>3, OnceEmpty DEF Unrepeated
  <2>2. \A k, o : At(k, o, j)' => At(k, o, j)
    BY <1>2, InEmpty DEF At
  <2> QED
    BY <1>3, <2>1, <2>2, ApartKept
<1> QED
  BY <1>3, SingleIf

LEMMA ReviveReadSingle ==
    ASSUME OnceInv, NEW a \in Admin, ReviveRead(a), NEW j \in Job PROVE Single(j)'
<1>1. /\ UNCHANGED <<queue, zset, dead, claim, drain, accepted, doubled, stranded>> /\ a \in Caller
      /\ pc[a] = "revive_read" /\ Goto(a, "revive", Reverse(claim[a]))
  BY AdminCalls DEF ReviveRead, redis, history
<1>2. Load(a)' = <<>> /\ Pending(a)' = Reverse(claim[a]) /\ Pending(a) = claim[a]
  <2>1. Load(a)' = <<>> /\ Pending(a)' = Reverse(claim[a])
    BY <1>1, OnceIds, OthersLoad DEF Reviving
  <2> QED
    BY <1>1, <2>1 DEF Pending
<1>3. claim[a] \in Seq(Entries)
  BY OnceIds
<1>4. DeadIds(Reverse(claim[a])) = DeadIds(claim[a])
  BY <1>3, InReverse, DeadIdsOf
<1>5. Once(claim[a], EntriesOf(j)) => Once(Reverse(claim[a]), EntriesOf(j))
  BY <1>3, OnceReverse
<1> QED
  BY <1>1, <1>2, <1>4, <1>5, PendingSingle

LEMMA ReviveCheckSingle ==
    ASSUME OnceInv, NEW a \in Admin, ReviveCheck(a), NEW j \in Job PROVE Single(j)'
<1>1. /\ UNCHANGED <<queue, zset, dead, claim, drain, accepted, doubled, stranded>> /\ a \in Caller
      /\ pc[a] = "revive" /\ ids[a] # <<>>
  BY AdminCalls DEF ReviveCheck, redis, history
<1>2. ids[a] \in Seq(Entries) /\ Pending(a) = ids[a]
  BY <1>1, OnceIds DEF CallersOK, CallerOK, Reviving, Pending
<1>3. CASE Goto(a, "revive", Tail(ids[a]))
  <2>1. Load(a)' = <<>> /\ Pending(a)' = Tail(ids[a])
    BY <1>1, <1>3, OnceIds, OthersLoad DEF Reviving
  <2>2. DeadIds(Tail(ids[a])) \subseteq DeadIds(ids[a])
    BY <1>1, <1>2, DeadIdsTail
  <2>3. Once(ids[a], EntriesOf(j)) => Once(Tail(ids[a]), EntriesOf(j))
    BY <1>1, <1>2, OnceTail
  <2> QED
    BY <1>1, <1>2, <1>3, <2>1, <2>2, <2>3, PendingSingle
<1>4. CASE Goto(a, "revive_write", ids[a])
  <2>1. Load(a)' = <<>> /\ Pending(a)' = ids[a]
    BY <1>1, <1>4, OnceIds, OthersLoad DEF Reviving
  <2> QED
    BY <1>1, <1>2, <1>4, <2>1, PendingSingle
<1> QED
  BY <1>3, <1>4 DEF ReviveCheck

LEMMA ReviveWriteSingle ==
    ASSUME OnceInv, NEW a \in Admin, ReviveWrite(a), NEW j \in Job PROVE Single(j)'
<1> DEFINE e == Head(ids[a])
           rest == Tail(ids[a])
<1>1. /\ UNCHANGED <<zset, dead, claim, drain, accepted, doubled, stranded>> /\ a \in Caller
      /\ pc[a] = "revive_write" /\ Goto(a, "revive", rest) /\ queue' = Append(queue, e.id)
  BY AdminCalls DEF ReviveWrite, Revived, history
<1>2. ids[a] \in Seq(Entries) /\ ids[a] # <<>> /\ Pending(a) = ids[a]
  BY <1>1, OnceIds DEF CallersOK, CallerOK, Reviving, Pending
<1>3. /\ e \in Entries /\ rest \in Seq(Entries) /\ DeadIds(ids[a]) = {e.id} \cup DeadIds(rest)
      /\ e.id \in Id
  BY <1>2, DeadIdsTail DEF Entries
<1>4. Load(a)' = <<>> /\ Pending(a)' = rest
  BY <1>1, OnceIds, OthersLoad DEF Reviving
<1>5. /\ \A d \in Caller : d # a => Load(d)' = Load(d)
      /\ \A d \in Admin : d # a => Pending(d)' = Pending(d)
  BY <1>1, OnceIds, OthersLoad
<1>6. ToSet(queue') = ToSet(queue) \cup {e.id}
  BY <1>1, <1>3, OnceIds, InAppend
<1>7. ASSUME Apart(j), Unrepeated(j), j \notin accepted => \A k, o : ~At(k, o, j)
      PROVE  Apart(j)' /\ Unrepeated(j)' /\ (j \notin accepted => \A k, o : ~At(k, o, j)')
  <2>1. Once(ids[a], EntriesOf(j)) /\ Once(queue, {j})
    BY <1>2, <1>7 DEF Unrepeated
  <2>2. Once(rest, EntriesOf(j)) /\ (e \in EntriesOf(j) => ToSet(rest) \cap EntriesOf(j) = {})
    BY <1>2, <2>1, OnceTail
  <2>3. e.id = j => j \notin DeadIds(rest)
    <3>1. e.id = j => e \in EntriesOf(j)
      BY <1>3 DEF Entries, EntriesOf
    <3> QED
      BY <1>3, <2>2, <3>1, EntryHas
  <2> HIDE DEF e, rest
  <2>4. CASE e.id = j
    <3>1. At("revive", a, j)
      BY <1>2, <1>3, <2>4 DEF At
    <3>2. ToSet(queue) \cap {j} = {}
      BY <1>7, <3>1 DEF Apart, At
    <3>3. \A k, o : At(k, o, j)' => (k = "queue" /\ o = "queue") \/ (At(k, o, j) /\ ~(k = "revive" /\ o = a))
      BY <1>1, <1>4, <1>5, <2>3, <2>4, InEmpty DEF At
    <3>4. Apart(j)'
      BY <1>7, <3>1, <3>3, ApartMoved
    <3>5. Once(queue', {j})
      BY <1>1, <1>3, <2>1, <3>2, OnceIds, OnceAppend
    <3>6. Unrepeated(j)'
      BY <1>1, <1>4, <1>5, <1>7, <2>2, <3>5, OnceEmpty DEF Unrepeated
    <3> QED
      BY <1>7, <3>1, <3>4, <3>6
  <2>5. CASE e.id # j
    <3>1. \A k, o : At(k, o, j)' => At(k, o, j)
      BY <1>1, <1>2, <1>3, <1>4, <1>5, <1>6, <2>5, InEmpty DEF At
    <3>2. Once(queue', {j})
      BY <1>1, <1>3, <2>1, <2>5, OnceIds, OnceAppend
    <3>3. Unrepeated(j)'
      BY <1>1, <1>4, <1>5, <1>7, <2>2, <3>2, OnceEmpty DEF Unrepeated
    <3> QED
      BY <1>7, <3>1, <3>3, ApartKept
  <2> QED
    BY <2>4, <2>5
<1> QED
  BY <1>1, <1>7, SingleIf

LEMMA ReviveFailsSingle ==
    ASSUME OnceInv, NEW a \in Admin, ReviveFails(a), NEW j \in Job PROVE Single(j)'
<1> DEFINE e == Head(ids[a])
<1>1. /\ UNCHANGED <<zset, dead, claim, drain, accepted, stranded>> /\ a \in Caller
      /\ pc[a] \in {"revive", "revive_write"} /\ ids[a] # <<>> /\ Goto(a, "restore", ids[a])
      /\ \/ UNCHANGED <<queue, doubled>>
         \/ queue' = Append(queue, e.id) /\ doubled' = doubled \cup {e.id}
  BY AdminCalls DEF ReviveFails, Revived
<1>2. ids[a] \in Seq(Entries) /\ Pending(a) = ids[a] /\ Load(a) = <<>>
  BY <1>1, OnceIds DEF CallersOK, CallerOK, Reviving, Pending, Load
<1>3. e.id \in Id
  BY <1>1, <1>2, DeadIdsTail DEF Entries
<1> HIDE DEF e
<1>4. Load(a)' = <<>> /\ Pending(a)' = ids[a]
  BY <1>1, OnceIds, OthersLoad DEF Reviving
<1>5. /\ \A d \in Caller : Load(d)' = Load(d)
      /\ \A d \in Admin : Pending(d)' = Pending(d)
  BY <1>1, <1>2, <1>4, OnceIds, OthersLoad
<1>6. ASSUME Apart(j), Unrepeated(j), j \notin accepted => \A k, o : ~At(k, o, j), j \notin doubled'
      PROVE  Apart(j)' /\ Unrepeated(j)' /\ (j \notin accepted => \A k, o : ~At(k, o, j)')
  <2>1. (j \in ToSet(queue') => j \in ToSet(queue)) /\ Once(queue', {j})
    <3>1. CASE queue' = queue
      BY <1>6, <3>1 DEF Unrepeated
    <3>2. CASE queue' = Append(queue, e.id) /\ e.id # j
      <4>1. Once(queue, {j})
        BY <1>6 DEF Unrepeated
      <4>2. ToSet(queue') = ToSet(queue) \cup {e.id}
        BY <1>3, <3>2, OnceIds, InAppend
      <4>3. Once(queue', {j})
        BY <1>3, <3>2, <4>1, OnceIds, OnceAppend
      <4> QED
        BY <3>2, <4>2, <4>3
    <3> QED
      BY <1>1, <1>6, <3>1, <3>2
  <2>2. Unrepeated(j)'
    BY <1>1, <1>5, <1>6, <2>1 DEF Unrepeated
  <2>3. \A k, o : At(k, o, j)' => At(k, o, j)
    BY <1>1, <1>5, <2>1 DEF At
  <2> QED
    BY <1>6, <2>2, <2>3, ApartKept
<1>7. doubled \subseteq doubled' /\ stranded \subseteq stranded'
  BY <1>1
<1> QED
  BY <1>1, <1>6, <1>7, SingleIf

LEMMA RestoreSingle ==
    ASSUME OnceInv, NEW a \in Admin, Restore(a), NEW j \in Job PROVE Single(j)'
<1>1. /\ UNCHANGED <<queue, zset, drain, accepted, doubled, stranded>> /\ a \in Caller
      /\ pc[a] = "restore" /\ Goto(a, "idle", <<>>)
      /\ dead' = Reverse(ids[a]) \o dead /\ claim' = [claim EXCEPT ![a] = <<>>]
  BY AdminCalls DEF Restore, history
<1>2. ids[a] \in Seq(Entries) /\ Pending(a) = ids[a]
  BY <1>1, OnceIds DEF CallersOK, CallerOK, Reviving, Pending
<1>3. \A d \in Admin : d # a => claim'[d] = claim[d]
  BY <1>1, OnceIds DEF RedisOK
<1>4. Load(a)' = <<>> /\ Pending(a)' = <<>>
  BY <1>1, <1>3, OnceIds, OthersLoad DEF Reviving
<1>5. /\ \A d \in Caller : d # a => Load(d)' = Load(d)
      /\ \A d \in Admin : d # a => Pending(d)' = Pending(d)
  BY <1>1, <1>3, OnceIds, OthersLoad
<1>6. Reverse(ids[a]) \in Seq(Entries) /\ ToSet(Reverse(ids[a])) = ToSet(ids[a]) /\ dead \in Seq(Entries)
  BY <1>2, InReverse, OnceIds
<1>7. DeadIds(dead') = DeadIds(ids[a]) \cup DeadIds(dead)
  <2>1. ToSet(dead') = ToSet(ids[a]) \cup ToSet(dead)
    BY <1>1, <1>6, InConcat
  <2> QED
    BY <2>1, DeadIdsOf
<1>8. ASSUME Apart(j), Unrepeated(j), j \notin accepted => \A k, o : ~At(k, o, j)
      PROVE  Apart(j)' /\ Unrepeated(j)' /\ (j \notin accepted => \A k, o : ~At(k, o, j)')
  <2>1. Once(Reverse(ids[a]), EntriesOf(j)) /\ Once(dead, EntriesOf(j))
    BY <1>2, <1>8, OnceReverse DEF Unrepeated
  <2>2. ~(j \in DeadIds(ids[a]) /\ j \in DeadIds(dead))
    <3>1. j \in DeadIds(ids[a]) => At("revive", a, j)
      BY <1>2 DEF At
    <3>2. j \in DeadIds(dead) => At("dead", "dead", j)
      BY DEF At
    <3> QED
      BY <1>8, <3>1, <3>2 DEF Apart
  <2>3. ToSet(Reverse(ids[a])) \cap EntriesOf(j) = {} \/ ToSet(dead) \cap EntriesOf(j) = {}
    BY <1>2, <1>6, <2>2, EntryHas
  <2>4. Once(dead', EntriesOf(j))
    BY <1>1, <1>6, <2>1, <2>3, OnceConcat
  <2>5. Unrepeated(j)'
    BY <1>1, <1>4, <1>5, <1>8, <2>4, OnceEmpty DEF Unrepeated
  <2>6. CASE j \in DeadIds(ids[a])
    <3>1. At("revive", a, j)
      BY <1>2, <2>6 DEF At
    <3>2. \A k, o : At(k, o, j)' => (k = "dead" /\ o = "dead") \/ (At(k, o, j) /\ ~(k = "revive" /\ o = a))
      BY <1>1, <1>4, <1>5, InEmpty DEF At
    <3>3. Apart(j)'
      BY <1>8, <3>1, <3>2, ApartMoved
    <3> QED
      BY <1>8, <2>5, <3>1, <3>3
  <2>7. CASE j \notin DeadIds(ids[a])
    <3>1. \A k, o : At(k, o, j)' => At(k, o, j)
      BY <1>1, <1>4, <1>5, <1>7, <2>7, InEmpty DEF At
    <3> QED
      BY <1>8, <2>5, <3>1, ApartKept
  <2> QED
    BY <2>6, <2>7
<1> QED
  BY <1>1, <1>8, SingleIf

LEMMA ClaimSingle ==
    ASSUME OnceInv, NEW c \in Caller, Claim(c), NEW j \in Job PROVE Single(j)'
<1> DEFINE z0 == Set(c)
           mine == { i \in ToSet(ids[c]) : zset[z0][i] /= None }
           w == IF mine = {} THEN "idle" ELSE "get"
           l == IF mine = {} THEN <<>> ELSE SetToSeq(mine)
<1>1. /\ UNCHANGED <<queue, dead, claim, drain, accepted, doubled, stranded>>
      /\ pc[c] = "claim"
      /\ zset' = [zset EXCEPT ![z0] = [i \in Id |-> IF i \in mine THEN None ELSE @[i]]]
      /\ Goto(c, w, l)
  BY DEF Claim, history
<1>2. ids[c] \in Seq(Id) /\ z0 \in ZSet
  BY <1>1, OnceIds, SetType DEF CallersOK, CallerOK, Moving
<1>3. mine \in SUBSET Id /\ IsFiniteSet(mine) /\ \A i \in mine : zset[z0][i] # None
  <2>1. ToSet(ids[c]) \subseteq Id
    BY <1>2, InSeq
  <2> QED
    BY <2>1, FiniteIds
<1> HIDE DEF mine, z0
<1>4. zset'[z0][j] = (IF j \in mine THEN None ELSE zset[z0][j]) /\ \A z \in ZSet : z # z0 => zset'[z] = zset[z]
  BY <1>1, <1>2, OnceIds DEF RedisOK
<1>5. (w = "get" => ToSet(l) = mine) /\ (w # "get" => mine = {} /\ l = <<>>) /\ Once(l, {j}) /\ w \in {"idle", "get"}
  <2>1. ToSet(SetToSeq(mine)) = mine
    BY <1>3, InSetToSeq
  <2>2. Once(SetToSeq(mine), {j})
    BY <1>3, OnceSetToSeq
  <2> QED
    BY <2>1, <2>2, OnceEmpty
<1> HIDE DEF w, l
<1>6. /\ Load(c)' = (IF w = "get" THEN l ELSE <<>>) /\ Pending(c)' = <<>>
  BY <1>1, <1>5, OnceIds, OthersLoad DEF Reviving
<1>7. /\ \A d \in Caller : d # c => Load(d)' = Load(d)
      /\ \A d \in Admin : d # c => Pending(d)' = Pending(d)
  BY <1>1, OnceIds, OthersLoad
<1>8. ToSet(Load(c)') = mine /\ Once(Load(c)', {j})
  BY <1>5, <1>6, InEmpty, OnceEmpty
<1>9. ASSUME Apart(j), Unrepeated(j), j \notin accepted => \A k, o : ~At(k, o, j)
      PROVE  Apart(j)' /\ Unrepeated(j)' /\ (j \notin accepted => \A k, o : ~At(k, o, j)')
  <2>1. Unrepeated(j)'
    BY <1>1, <1>6, <1>7, <1>8, <1>9, OnceEmpty DEF Unrepeated
  <2>2. CASE j \in mine
    <3>1. At("zset", z0, j)
      BY <1>2, <1>3, <2>2 DEF At
    <3>2. \A k, o : At(k, o, j)' => (k = "carry" /\ o = c) \/ (At(k, o, j) /\ ~(k = "zset" /\ o = z0))
      BY <1>1, <1>4, <1>6, <1>7, <2>2, InEmpty DEF At
    <3>3. Apart(j)'
      BY <1>9, <3>1, <3>2, ApartMoved
    <3> QED
      BY <1>9, <2>1, <3>1, <3>3
  <2>3. CASE j \notin mine
    <3>1. \A z \in ZSet : zset'[z][j] = zset[z][j]
      BY <1>4, <2>3
    <3>2. \A k, o : At(k, o, j)' => At(k, o, j)
      BY <1>1, <1>6, <1>7, <1>8, <2>3, <3>1, InEmpty DEF At
    <3> QED
      BY <1>9, <2>1, <3>2, ApartKept
  <2> QED
    BY <2>2, <2>3
<1> QED
  BY <1>1, <1>9, SingleIf

LEMMA GetManySingle ==
    ASSUME OnceInv, NEW c \in Caller, GetMany(c), NEW j \in Job PROVE Single(j)'
<1> DEFINE live == { i \in ToSet(ids[c]) : jobs[i] /= None }
<1>1. /\ UNCHANGED <<queue, zset, dead, claim, drain, accepted, doubled, stranded>>
      /\ pc[c] = "get" /\ Goto(c, "push", SetToSeq(live))
  BY DEF GetMany, redis, history
<1>2. ids[c] \in Seq(Id) /\ Load(c) = ids[c]
  BY <1>1, OnceIds DEF CallersOK, CallerOK, Moving, Load
<1>3. live \in SUBSET Id /\ IsFiniteSet(live) /\ live \subseteq ToSet(ids[c])
  <2>1. ToSet(ids[c]) \subseteq Id
    BY <1>2, InSeq
  <2> QED
    BY <2>1, FiniteIds
<1> HIDE DEF live
<1>4. ToSet(SetToSeq(live)) = live /\ Once(SetToSeq(live), {j})
  <2>1. ToSet(SetToSeq(live)) = live
    BY <1>3, InSetToSeq
  <2>2. Once(SetToSeq(live), {j})
    BY <1>3, OnceSetToSeq
  <2> QED
    BY <2>1, <2>2
<1>5. Load(c)' = SetToSeq(live) /\ Pending(c)' = <<>>
  BY <1>1, OnceIds, OthersLoad DEF Reviving
<1>6. /\ \A d \in Caller : d # c => Load(d)' = Load(d)
      /\ \A d \in Admin : d # c => Pending(d)' = Pending(d)
  BY <1>1, OnceIds, OthersLoad
<1>7. ASSUME Apart(j), Unrepeated(j), j \notin accepted => \A k, o : ~At(k, o, j)
      PROVE  Apart(j)' /\ Unrepeated(j)' /\ (j \notin accepted => \A k, o : ~At(k, o, j)')
  <2>1. Unrepeated(j)'
    BY <1>1, <1>4, <1>5, <1>6, <1>7, OnceEmpty DEF Unrepeated
  <2>2. j \in ToSet(Load(c)') => j \in ToSet(Load(c))
    BY <1>2, <1>3, <1>4, <1>5
  <2>3. \A k, o : At(k, o, j)' => At(k, o, j)
    BY <1>1, <1>5, <1>6, <2>2, InEmpty DEF At
  <2> QED
    BY <1>7, <2>1, <2>3, ApartKept
<1> QED
  BY <1>1, <1>7, SingleIf

LEMMA PushAllSingle ==
    ASSUME OnceInv, NEW c \in Caller, PushAll(c), NEW j \in Job PROVE Single(j)'
<1>1. /\ UNCHANGED <<zset, dead, claim, drain, accepted, doubled, stranded>>
      /\ pc[c] = "push" /\ Goto(c, "idle", <<>>) /\ queue' = queue \o ids[c]
  BY DEF PushAll, history
<1>2. ids[c] \in Seq(Id) /\ Load(c) = ids[c] /\ queue \in Seq(Id)
  BY <1>1, OnceIds DEF CallersOK, CallerOK, Moving, Load
<1>3. Load(c)' = <<>> /\ Pending(c)' = <<>>
  BY <1>1, OnceIds, OthersLoad DEF Reviving
<1>4. /\ \A d \in Caller : d # c => Load(d)' = Load(d)
      /\ \A d \in Admin : d # c => Pending(d)' = Pending(d)
  BY <1>1, OnceIds, OthersLoad
<1>5. ToSet(queue') = ToSet(queue) \cup ToSet(ids[c])
  BY <1>1, <1>2, InConcat
<1>6. ASSUME Apart(j), Unrepeated(j), j \notin accepted => \A k, o : ~At(k, o, j)
      PROVE  Apart(j)' /\ Unrepeated(j)' /\ (j \notin accepted => \A k, o : ~At(k, o, j)')
  <2>1. Once(queue, {j}) /\ Once(ids[c], {j})
    BY <1>2, <1>6 DEF Unrepeated
  <2>2. ~(j \in ToSet(queue) /\ j \in ToSet(ids[c]))
    <3>1. j \in ToSet(ids[c]) => At("carry", c, j)
      BY <1>2 DEF At
    <3>2. j \in ToSet(queue) => At("queue", "queue", j)
      BY DEF At
    <3> QED
      BY <1>6, <3>1, <3>2 DEF Apart
  <2>3. ToSet(queue) \cap {j} = {} \/ ToSet(ids[c]) \cap {j} = {}
    BY <2>2
  <2>4. Once(queue', {j})
    BY <1>1, <1>2, <2>1, <2>3, OnceConcat
  <2>5. Unrepeated(j)'
    BY <1>1, <1>3, <1>4, <1>6, <2>4, OnceEmpty DEF Unrepeated
  <2>6. CASE j \in ToSet(ids[c])
    <3>1. At("carry", c, j)
      BY <1>2, <2>6 DEF At
    <3>2. \A k, o : At(k, o, j)' => (k = "queue" /\ o = "queue") \/ (At(k, o, j) /\ ~(k = "carry" /\ o = c))
      BY <1>1, <1>3, <1>4, InEmpty DEF At
    <3>3. Apart(j)'
      BY <1>6, <3>1, <3>2, ApartMoved
    <3> QED
      BY <1>6, <2>5, <3>1, <3>3
  <2>7. CASE j \notin ToSet(ids[c])
    <3>1. \A k, o : At(k, o, j)' => At(k, o, j)
      BY <1>1, <1>3, <1>4, <1>5, <2>7, InEmpty DEF At
    <3> QED
      BY <1>6, <2>5, <3>1, ApartKept
  <2> QED
    BY <2>6, <2>7
<1> QED
  BY <1>1, <1>6, SingleIf

LEMMA CronStoredSingle ==
    ASSUME OnceInv, NEW p \in Proc, CronStored(p), NEW j \in Job,
           UNCHANGED <<dead, claim, pc, ids, drain, doubled, stranded>>
    PROVE  Single(j)'
<1> DEFINE o == cron[p].next
<1>1. cron[p] \in Crons /\ cron[p].pc \in {"push", "add"} /\ o # None
  BY OnceIds, CronTypes DEF LoopsOK, CronStored
<1>2. o \in Id /\ o # j /\ "schedule" \in ZSet
  BY <1>1, OnceIds DEF Crons, Id, ZSet
<1>3. accepted \subseteq accepted'
  BY DEF CronStored
<1>4. \/ queue' = Append(queue, o) /\ zset' = zset
      \/ zset' = [zset EXCEPT !["schedule"][o] = cron[p].due] /\ queue' = queue
  BY DEF CronStored
<1> HIDE DEF o
<1>5. \A z \in ZSet : zset'[z][j] = zset[z][j]
  BY <1>2, <1>4, OnceIds DEF RedisOK
<1>6. \A c : Load(c)' = Load(c) /\ Pending(c)' = Pending(c)
  BY LoadsRest
<1>7. ASSUME Apart(j), Unrepeated(j), j \notin accepted => \A k, q : ~At(k, q, j)
      PROVE  Apart(j)' /\ Unrepeated(j)' /\ (j \notin accepted => \A k, q : ~At(k, q, j)')
  <2>1. (j \in ToSet(queue') => j \in ToSet(queue)) /\ Once(queue', {j})
    <3>1. CASE queue' = queue
      BY <1>7, <3>1 DEF Unrepeated
    <3>2. CASE queue' = Append(queue, o)
      <4>1. Once(queue, {j})
        BY <1>7 DEF Unrepeated
      <4>2. ToSet(queue') = ToSet(queue) \cup {o}
        BY <1>2, <3>2, OnceIds, InAppend
      <4>3. Once(queue', {j})
        BY <1>2, <3>2, <4>1, OnceIds, OnceAppend
      <4> QED
        BY <1>2, <4>2, <4>3
    <3> QED
      BY <1>4, <3>1, <3>2
  <2>2. Unrepeated(j)'
    BY <1>6, <1>7, <2>1 DEF Unrepeated
  <2>3. \A k, q : At(k, q, j)' => At(k, q, j)
    BY <1>5, <1>6, <2>1 DEF At
  <2> QED
    BY <1>7, <2>2, <2>3, ApartKept
<1> QED
  BY <1>3, <1>7, SingleIf

LEMMA DrainPopSingle == ASSUME OnceInv, DrainPop, NEW j \in Job PROVE Single(j)'
<1>1. /\ UNCHANGED <<zset, dead, claim, pc, ids, accepted, doubled, stranded>>
      /\ queue # <<>> /\ queue' = Tail(queue) /\ drain'.id = Head(queue)
  BY DEF DrainPop, history, DrainIdle
<1>2. queue \in Seq(Id) /\ j # None
  BY OnceIds
<1>3. ToSet(queue) = {Head(queue)} \cup ToSet(queue')
  BY <1>1, <1>2, InTail
<1>4. \A c : Load(c)' = Load(c) /\ Pending(c)' = Pending(c)
  BY <1>1, LoadsRest
<1>5. ASSUME Apart(j), Unrepeated(j), j \notin accepted => \A k, o : ~At(k, o, j)
      PROVE  Apart(j)' /\ Unrepeated(j)' /\ (j \notin accepted => \A k, o : ~At(k, o, j)')
  <2>1. Once(queue', {j}) /\ (Head(queue) = j => j \notin ToSet(queue'))
    <3>1. Once(queue, {j})
      BY <1>5 DEF Unrepeated
    <3>2. Once(Tail(queue), {j}) /\ (Head(queue) \in {j} => ToSet(Tail(queue)) \cap {j} = {})
      BY <1>1, <1>2, <3>1, OnceTail
    <3> QED
      BY <1>1, <3>2
  <2>2. Unrepeated(j)'
    BY <1>1, <1>4, <1>5, <2>1 DEF Unrepeated
  <2>3. CASE Head(queue) = j
    <3>1. At("queue", "queue", j)
      BY <1>3, <2>3 DEF At
    <3>2. \A k, o : At(k, o, j)' => (k = "drain" /\ o = "drain") \/ (At(k, o, j) /\ ~(k = "queue" /\ o = "queue"))
      BY <1>1, <1>4, <2>1, <2>3 DEF At
    <3>3. Apart(j)'
      BY <1>5, <3>1, <3>2, ApartMoved
    <3> QED
      BY <1>5, <2>2, <3>1, <3>3
  <2>4. CASE Head(queue) # j
    <3>1. \A k, o : At(k, o, j)' => At(k, o, j)
      BY <1>1, <1>3, <1>4, <2>4 DEF At
    <3> QED
      BY <1>5, <2>2, <3>1, ApartKept
  <2> QED
    BY <2>3, <2>4
<1> QED
  BY <1>1, <1>5, SingleIf

LEMMA DrainKillSingle == ASSUME OnceInv, DrainKill, NEW j \in Job PROVE Single(j)'
<1> DEFINE e == Entry(drain.id, drain.created)
           all == Append(dead, e)
           cut == IF Len(all) > DeadLimit THEN Len(all) - DeadLimit ELSE 0
<1>1. /\ UNCHANGED <<queue, zset, claim, pc, ids, accepted, doubled, stranded>>
      /\ drain.pc = "failed" /\ drain' = DrainIdle
      /\ dead' = SubSeq(all, cut + 1, Len(all))
  BY DEF DrainKill
<1>2. drain \in Drains /\ drain.id \in Id /\ dead \in Seq(Entries) /\ j # None /\ drain'.id = None
  BY <1>1, OnceIds, DrainTypes, DrainIdleOK
<1>3. e \in Entries /\ e.id = drain.id
  BY <1>2 DEF Entry, Entries, Drains
<1> HIDE DEF e
<1>4. all \in Seq(Entries) /\ ToSet(all) = ToSet(dead) \cup {e}
  BY <1>2, <1>3, InAppend
<1>5. ASSUME Once(dead, EntriesOf(j)), e \in EntriesOf(j) => ToSet(dead) \cap EntriesOf(j) = {}
      PROVE  Once(all, EntriesOf(j))
  BY <1>2, <1>3, <1>5, OnceAppend
<1> HIDE DEF all
<1>6. cut \in 0..Len(all)
  <2>1. Len(all) \in Nat /\ DeadLimit \in Nat
    BY <1>4, TimeAssumption
  <2> QED
    BY <2>1
<1> HIDE DEF cut
<1>7. dead' \in Seq(Entries) /\ ToSet(dead') \subseteq ToSet(dead) \cup {e}
  BY <1>1, <1>4, <1>6, InSplit
<1>8. DeadIds(dead') \subseteq DeadIds(dead) \cup {drain.id}
  BY <1>3, <1>7, DeadIdsOf
<1>9. \A c : Load(c)' = Load(c) /\ Pending(c)' = Pending(c)
  BY <1>1, LoadsRest
<1>10. ASSUME Apart(j), Unrepeated(j), j \notin accepted => \A k, o : ~At(k, o, j)
      PROVE  Apart(j)' /\ Unrepeated(j)' /\ (j \notin accepted => \A k, o : ~At(k, o, j)')
  <2>1. ~(drain.id = j /\ j \in DeadIds(dead))
    <3>1. drain.id = j => At("drain", "drain", j)
      BY DEF At
    <3>2. j \in DeadIds(dead) => At("dead", "dead", j)
      BY DEF At
    <3> QED
      BY <1>10, <3>1, <3>2 DEF Apart
  <2>2. e \in EntriesOf(j) => ToSet(dead) \cap EntriesOf(j) = {}
    <3>1. e \in EntriesOf(j) => drain.id = j
      BY <1>3 DEF EntriesOf
    <3> QED
      BY <1>2, <2>1, <3>1, EntryHas
  <2>3. Once(all, EntriesOf(j))
    BY <1>5, <1>10, <2>2 DEF Unrepeated
  <2>4. Once(dead', EntriesOf(j))
    BY <1>1, <1>4, <1>6, <2>3, OnceSuffix
  <2>5. Unrepeated(j)'
    BY <1>1, <1>9, <1>10, <2>4 DEF Unrepeated
  <2>6. CASE drain.id = j
    <3>1. At("drain", "drain", j)
      BY <2>6 DEF At
    <3>2. \A k, o : At(k, o, j)' => (k = "dead" /\ o = "dead") \/ (At(k, o, j) /\ ~(k = "drain" /\ o = "drain"))
      BY <1>1, <1>2, <1>9 DEF At
    <3>3. Apart(j)'
      BY <1>10, <3>1, <3>2, ApartMoved
    <3> QED
      BY <1>10, <2>5, <3>1, <3>3
  <2>7. CASE drain.id # j
    <3>1. \A k, o : At(k, o, j)' => At(k, o, j)
      BY <1>1, <1>2, <1>8, <1>9, <2>7 DEF At
    <3> QED
      BY <1>10, <2>5, <3>1, ApartKept
  <2> QED
    BY <2>6, <2>7
<1> QED
  BY <1>1, <1>10, SingleIf

LEMMA OnceInit == Init => OnceInv
<1> SUFFICES ASSUME Init, NEW j \in Job PROVE Single(j)
  BY MaintenanceInit DEF OnceInv
<1> DEFINE killed == { Entry(i, 0) : i \in accepted \cap Killed }
<1>1. /\ queue = <<>> /\ dead = SetToSeq(killed) /\ j \in Id
      /\ zset = [z \in ZSet |-> [i \in Id |-> IF z = "retry" /\ jobs[i] /= None THEN 1 ELSE None]]
      /\ jobs = [i \in Id |-> IF i \in accepted \cap Retried THEN 0 ELSE None]
      /\ drain.id = None /\ j # None
  BY NoneIsNone DEF Init, Id
<1>2. \A c \in Caller : Load(c) = <<>> /\ Pending(c) = <<>>
  BY DEF Init, Load, Pending, Reviving
<1>3. IsFiniteSet(killed)
  <2>1. accepted \cap Killed \in SUBSET Id
    BY JobAssumption DEF Id
  <2>2. IsFiniteSet(accepted \cap Killed)
    BY <2>1, FiniteIds
  <2> DEFINE f == [i \in accepted \cap Killed |-> Entry(i, 0)]
  <2>3. f \in Surjection(accepted \cap Killed, killed)
    BY DEF Surjection
  <2> HIDE DEF f, killed
  <2> QED
    BY <2>2, <2>3, FS_Surjection
<1>4. \A x, y \in killed : x \in EntriesOf(j) /\ y \in EntriesOf(j) => x = y
  BY DEF Entry, EntriesOf
<1>5. DeadIds(dead) \subseteq accepted \cap Killed
  <2>1. \A e \in killed : e.id \in accepted \cap Killed
    BY DEF Entry
  <2> HIDE DEF killed
  <2>2. ToSet(dead) = killed
    BY <1>1, <1>3, InSetToSeq
  <2>3. DeadIds(dead) = {e.id : e \in ToSet(dead)}
    BY DeadIdsOf
  <2> QED
    BY <2>1, <2>2, <2>3
<1> HIDE DEF killed
<1>6. Once(dead, EntriesOf(j))
  BY <1>1, <1>3, <1>4, OnceSetToSeq
<1>7. Unrepeated(j)
  BY <1>1, <1>2, <1>6, OnceEmpty, AdminCalls DEF Unrepeated
<1>8. \A z \in ZSet : zset[z][j] # None => z = "retry" /\ j \in accepted \cap Retried
  BY <1>1
<1>9. \A k, o : At(k, o, j) => \/ k = "zset" /\ o = "retry" /\ j \in accepted \cap Retried
                               \/ k = "dead" /\ o = "dead" /\ j \in accepted \cap Killed
  BY <1>1, <1>2, <1>5, <1>8, InEmpty, AdminCalls DEF At
<1>10. Apart(j)
  BY <1>9, JobAssumption DEF Apart
<1> QED
  BY <1>7, <1>9, <1>10 DEF Single

LEMMA OnceNext == OnceInv /\ [Next]_vars => OnceInv'
<1> SUFFICES ASSUME OnceInv, [Next]_vars, NEW j \in Job PROVE Single(j)'
  BY MaintenanceNext DEF OnceInv
<1>1. CASE Tick
  BY <1>1, StillStep DEF Tick, redis, memory, history
<1>2. ASSUME NEW i \in Job, Enqueue(i) PROVE Single(j)'
  BY <1>2, EnqueueSingle
<1>3. ASSUME NEW a \in Admin, Operator(a) PROVE Single(j)'
  <2>1. a \in Caller
    BY AdminCalls
  <2>2. CASE WipeRead(a)
    BY <2>1, <2>2, IdleCallSingle DEF WipeRead, Call, redis, history
  <2>3. CASE WipeDelete(a)
    BY <2>1, <2>3, DropSingle DEF WipeDelete
  <2>4. CASE WipeDead(a)
    <3>1. UNCHANGED <<queue, zset, claim, pc, ids, drain, doubled, stranded, accepted>> /\ dead' = <<>>
      BY <2>4 DEF WipeDead, memory
    <3> QED
      BY <3>1, LoadsRest, SingleShrinks
  <2>5. CASE Delete(a)
    BY <2>5, StillStep DEF Delete, DeleteJob, memory
  <2>6. CASE Revive(a)
    <3>1. CASE ReviveDone(a)
      <4>1. \A d \in Admin : d # a => claim'[d] = claim[d]
        BY <3>1, OnceIds DEF ReviveDone, RedisOK
      <4> QED
        BY <2>1, <3>1, <4>1, DropSingle DEF ReviveDone, history
    <3> QED
      BY <2>6, <3>1, ReviveClaimSingle, ReviveReadSingle, ReviveCheckSingle, ReviveWriteSingle,
         ReviveFailsSingle, RestoreSingle DEF Revive
  <2>7. CASE RetryAllNow(a)
    BY <2>1, <2>7, IdleCallSingle DEF RetryAllNow, Call, redis, history
  <2> QED
    BY <1>3, <2>2, <2>3, <2>4, <2>5, <2>6, <2>7 DEF Operator, Wipe
<1>4. ASSUME NEW m \in Mover, EnqueueScheduled(m) PROVE Single(j)'
  BY <1>4, MoverCalls, IdleCallSingle DEF EnqueueScheduled, redis, history
<1>5. ASSUME NEW c \in Caller, Move(c) \/ Dies(c) PROVE Single(j)'
  <2>1. CASE Dies(c)
    <3>1. /\ UNCHANGED <<queue, zset, dead, drain, doubled, accepted>> /\ stranded \subseteq stranded'
          /\ Goto(c, "idle", <<>>)
      BY <2>1 DEF Dies
    <3>2. \A d \in Admin : d # c => claim'[d] = claim[d]
      BY <2>1, OnceIds DEF Dies, RedisOK
    <3> QED
      BY <3>1, <3>2, DropSingle
  <2> QED
    BY <1>5, <2>1, ClaimSingle, GetManySingle, PushAllSingle DEF Move
<1>6. ASSUME NEW p \in Looper, Cleanup(p) PROVE Single(j)'
  BY <1>6, StillStep DEF Cleanup, CleanupBegin, CleanupScan, CleanupDelete, redis, history
<1>7. ASSUME NEW p \in Proc, Cron(p) \/ CronFails(p) PROVE Single(j)'
  <2>1. CASE CronStart(p) \/ CronReady(p) \/ CronCheck(p)
    <3>1. UNCHANGED <<redis, pc, ids, drain, history>>
      BY <2>1 DEF CronStart, CronReady, CronCheck
    <3> QED
      BY <3>1, StillStep DEF redis, history
  <2>2. CASE CronWrite(p)
    BY <2>2, CronStoredSingle DEF CronWrite
  <2>3. CASE CronFails(p)
    <3>1. UNCHANGED <<dead, claim, pc, ids, drain, stranded, doubled>>
      BY <2>3 DEF CronFails
    <3>2. CASE CronStored(p)
      BY <3>1, <3>2, CronStoredSingle
    <3>3. CASE UNCHANGED <<queue, zset, accepted>>
      BY <3>1, <3>3, StillStep
    <3> QED
      BY <2>3, <3>2, <3>3 DEF CronFails
  <2> QED
    BY <1>7, <2>1, <2>2, <2>3 DEF Cron
<1>8. CASE Drain
  <2>1. CASE DrainLoad \/ DrainRun \/ DrainSuccess \/ DrainFailure
    <3>1. UNCHANGED <<queue, zset, dead, claim, pc, ids, accepted, stranded, doubled>>
      BY <2>1 DEF DrainLoad, DrainRun, DrainSuccess, DrainFailure, redis, history
    <3>2. drain \in Drains
      BY OnceIds, DrainTypes
    <3>3. drain'.id \in {drain.id, None}
      BY <2>1, <3>2, DrainIdleOK DEF DrainLoad, DrainRun, DrainSuccess, DrainFailure, Drains
    <3> QED
      BY <3>1, <3>3, StillStep
  <2> QED
    BY <1>8, <2>1, DrainPopSingle, DrainKillSingle DEF Drain
<1>9. CASE DrainError
  <2>1. /\ UNCHANGED <<queue, zset, dead, claim, pc, ids, accepted, doubled>> /\ stranded \subseteq stranded'
        /\ drain'.id = None
    BY <1>9, DrainIdleOK DEF DrainError, redis
  <2> QED
    BY <2>1, StillStep
<1>10. CASE Done \/ UNCHANGED vars
  BY <1>10, StillStep DEF Done, vars, redis, memory, history
<1> QED
  BY <1>1, <1>2, <1>3, <1>4, <1>5, <1>6, <1>7, <1>8, <1>9, <1>10 DEF Next

LEMMA OnceImpliesRevivedOnce == OnceInv => RevivedOnce
<1> SUFFICES ASSUME OnceInv, NEW j \in Job \ (doubled \cup stranded)
             PROVE  /\ Cardinality({ i \in DOMAIN queue : queue[i] = j }) <= 1
                    /\ ~(j \in DeadIds(dead) /\ j \in ToSet(queue))
  BY DEF RevivedOnce
<1>1. Apart(j) /\ Unrepeated(j)
  BY DEF OnceInv, Single
<1>2. ~(j \in DeadIds(dead) /\ j \in ToSet(queue))
  <2>1. j \in DeadIds(dead) => At("dead", "dead", j)
    BY DEF At
  <2>2. j \in ToSet(queue) => At("queue", "queue", j)
    BY DEF At
  <2> QED
    BY <1>1, <2>1, <2>2 DEF Apart
<1> DEFINE I == { i \in DOMAIN queue : queue[i] = j }
<1>3. Cardinality(I) <= 1
  <2>1. CASE I = {}
    <3>1. Cardinality(I) = 0
      BY <2>1, FS_EmptySet
    <3> QED
      BY <3>1
  <2>2. CASE I # {}
    <3>1. PICK i : i \in I
      BY <2>2
    <3>2. I = {i}
      BY <1>1, <3>1 DEF Unrepeated, Once
    <3> HIDE DEF I
    <3>3. Cardinality(I) = 1
      BY <3>2, FS_Singleton
    <3> QED
      BY <3>3
  <2> QED
    BY <2>1, <2>2
<1> QED
  BY <1>2, <1>3

(* RevivedOnce: no job is twice in the queue, or dead and in the queue,    *)
(* whatever calls of revive_all_dead, retry_all_now and the loops overlap, *)
(* unless an enqueue was applied and reported as failed or a caller died.  *)
THEOREM NobodyRevivedTwice == Spec => []RevivedOnce
<1>1. Spec => []OnceInv
  BY OnceInit, OnceNext, PTL DEF Spec
<1> QED
  BY <1>1, OnceImpliesRevivedOnce, PTL

---------------------------------------------------------------------------
(* CronRunsOnce *)

(* how often id o is in a list *)
Copies(s, o) == Cardinality({ i \in DOMAIN s : s[i] = o })

(* the callers that took o out of a sorted set and have not pushed it *)
Carriers(o) == { c \in Caller : o \in ToSet(Load(c)) }

Scheduled(o) == IF zset["schedule"][o] # None THEN 1 ELSE 0

Popped(o) == IF drain.id = o /\ drain.pc \in {"popped", "loaded"} THEN 1 ELSE 0

(* what left the schedule set: each of these is an execution, or may be one *)
Left(o) == Copies(queue, o) + Cardinality(Carriers(o)) + Popped(o) + runs[o]

NotReviving == \A c \in Caller : pc[c] \notin Reviving \cup {"revive_read"}

(* enqueue_at never pushes an occurrence before its time *)
CronDue(p) ==
    /\ cron[p].pc \in {"check", "push", "add"} => cron[p].next <= cron[p].due
    /\ cron[p].pc = "push" => cron[p].due <= now

(* No loop takes an occurrence out of the schedule set before its time. *)
Timely(o) ==
    /\ zset["retry"][o] = None
    /\ zset["schedule"][o] # None => o <= zset["schedule"][o]
    /\ \A c \in Caller : pc[c] = "claim" /\ Set(c) = "schedule" /\ o \in ToSet(ids[c]) => o <= now

Counted(o) ==
    /\ IsFiniteSet(Carriers(o))
    /\ \A c \in Caller : Once(Load(c), {o})
    /\ now < o => Left(o) = 0
    /\ Left(o) + Scheduled(o) <= 1 + late[o]

CronInv ==
    /\ MaintenanceInv
    /\ "revive" \notin plan
    /\ runs \in [Id -> Nat] /\ late \in [Id -> Nat]
    /\ NotReviving
    /\ \A p \in Proc : CronDue(p)
    /\ \A o \in Occurrence : Timely(o) /\ Counted(o)

LEMMA CopiesType ==
    ASSUME NEW S, NEW s \in Seq(S), NEW o
    PROVE  IsFiniteSet({ i \in DOMAIN s : s[i] = o }) /\ Copies(s, o) \in Nat
<1>1. Len(s) \in Nat /\ DOMAIN s = 1..Len(s)
  OBVIOUS
<1>2. IsFiniteSet(1..Len(s)) /\ { i \in DOMAIN s : s[i] = o } \in SUBSET (1..Len(s))
  BY <1>1, FS_Interval
<1>3. IsFiniteSet({ i \in DOMAIN s : s[i] = o })
  BY <1>2, FS_Subset
<1> QED
  BY <1>3, FS_CardinalityType DEF Copies

LEMMA CopiesEmpty == \A o : Copies(<<>>, o) = 0
<1> TAKE o
<1>1. { i \in DOMAIN <<>> : <<>>[i] = o } = {}
  OBVIOUS
<1> QED
  BY <1>1, FS_EmptySet DEF Copies

LEMMA CopiesConcat ==
    ASSUME NEW S, NEW s \in Seq(S), NEW t \in Seq(S), NEW o
    PROVE  Copies(s \o t, o) = Copies(s, o) + Copies(t, o)
<1> DEFINE A == { i \in DOMAIN s : s[i] = o }
           B == { i \in DOMAIN t : t[i] = o }
           C == { i \in DOMAIN (s \o t) : (s \o t)[i] = o }
           f == [i \in B |-> Len(s) + i]
           D == C \ A
<1>1. /\ Len(s \o t) = Len(s) + Len(t) /\ Len(s) \in Nat /\ Len(t) \in Nat
      /\ DOMAIN s = 1..Len(s) /\ DOMAIN t = 1..Len(t)
      /\ \A i \in 1..Len(s) : (s \o t)[i] = s[i]
      /\ \A i \in 1..Len(t) : (s \o t)[Len(s) + i] = t[i]
      /\ s \o t \in Seq(S)
  BY ConcatProperties
<1>2. DOMAIN (s \o t) = 1..(Len(s) + Len(t))
  BY <1>1
<1>3. A \subseteq C
  <2> SUFFICES ASSUME NEW i \in A PROVE i \in C
    OBVIOUS
  <2>1. i \in 1..Len(s) /\ s[i] = o
    BY <1>1
  <2>2. i \in 1..(Len(s) + Len(t)) /\ (s \o t)[i] = o
    BY <1>1, <2>1
  <2> QED
    BY <1>2, <2>2
<1>4. f \in Bijection(B, D)
  <2>1. ASSUME NEW i \in B PROVE f[i] \in D /\ f[i] = Len(s) + i
    <3>1. i \in 1..Len(t) /\ t[i] = o
      BY <1>1
    <3>2. Len(s) + i \in 1..(Len(s) + Len(t)) /\ Len(s) + i \notin 1..Len(s) /\ (s \o t)[Len(s) + i] = o
      BY <1>1, <3>1
    <3> QED
      BY <1>1, <1>2, <3>2
  <2>2. ASSUME NEW k \in D PROVE \E i \in B : f[i] = k
    <3>1. k \in 1..(Len(s) + Len(t)) /\ (s \o t)[k] = o /\ k \notin A
      BY <1>2
    <3>2. k \notin 1..Len(s)
      BY <1>1, <3>1
    <3>3. k - Len(s) \in 1..Len(t) /\ Len(s) + (k - Len(s)) = k
      BY <1>1, <3>1, <3>2
    <3>4. t[k - Len(s)] = o
      BY <1>1, <3>1, <3>3
    <3>5. k - Len(s) \in B
      BY <1>1, <3>3, <3>4
    <3> QED
      BY <3>3, <3>5
  <2>3. \A i, k \in B : f[i] = f[k] => i = k
    <3>1. \A i \in B : i \in Nat
      BY <1>1
    <3> HIDE DEF f, B, D
    <3> QED
      BY <1>1, <2>1, <3>1
  <2>4. f \in [B -> D]
    BY <2>1
  <2> HIDE DEF f, B, D
  <2> QED
    BY <2>2, <2>3, <2>4 DEF Bijection, Injection, Surjection, IsInjective
<1> HIDE DEF f
<1>5. IsFiniteSet(A) /\ IsFiniteSet(B)
  BY CopiesType
<1>6. IsFiniteSet(D) /\ Cardinality(D) = Cardinality(B)
  <2>1. ExistsBijection(B, D)
    BY <1>4 DEF ExistsBijection
  <2> HIDE DEF B, D
  <2> QED
    BY <1>5, <2>1, FS_Bijection
<1>7. C = A \cup D /\ A \cap D = {}
  BY <1>3
<1>8. Cardinality(C) = Cardinality(A) + Cardinality(B)
  <2> HIDE DEF A, B, C, D
  <2>1. Cardinality(C) = Cardinality(A) + Cardinality(D) - Cardinality({})
    BY <1>5, <1>6, <1>7, FS_Union
  <2>2. Cardinality(A) \in Nat /\ Cardinality(B) \in Nat
    BY <1>5, FS_CardinalityType
  <2> QED
    BY <1>6, <2>1, <2>2, FS_EmptySet
<1> QED
  BY <1>8 DEF Copies

LEMMA CopiesOne == \A x, o : Copies(<<x>>, o) = IF x = o THEN 1 ELSE 0
<1> TAKE x, o
<1>1. { i \in DOMAIN <<x>> : <<x>>[i] = o } = IF x = o THEN {1} ELSE {}
  OBVIOUS
<1> QED
  BY <1>1, FS_EmptySet, FS_Singleton DEF Copies

LEMMA CopiesAppend ==
    ASSUME NEW S, NEW s \in Seq(S), NEW x \in S, NEW o
    PROVE  Copies(Append(s, x), o) = Copies(s, o) + IF x = o THEN 1 ELSE 0
<1>1. Append(s, x) = s \o <<x>> /\ <<x>> \in Seq(S)
  OBVIOUS
<1>2. Copies(s \o <<x>>, o) = Copies(s, o) + Copies(<<x>>, o)
  BY <1>1, CopiesConcat
<1> QED
  BY <1>1, <1>2, CopiesOne

LEMMA CopiesTail ==
    ASSUME NEW S, NEW s \in Seq(S), s # <<>>, NEW o
    PROVE  Copies(s, o) = Copies(Tail(s), o) + IF Head(s) = o THEN 1 ELSE 0
<1>1. s = <<Head(s)>> \o Tail(s) /\ <<Head(s)>> \in Seq(S) /\ Tail(s) \in Seq(S)
  OBVIOUS
<1>2. Copies(s, o) = Copies(<<Head(s)>>, o) + Copies(Tail(s), o)
  BY <1>1, CopiesConcat
<1>3. Copies(Tail(s), o) \in Nat
  BY <1>1, CopiesType
<1> QED
  BY <1>2, <1>3, CopiesOne

LEMMA CopiesOnce ==
    ASSUME NEW S, NEW s \in Seq(S), NEW o, Once(s, {o})
    PROVE  Copies(s, o) = IF o \in ToSet(s) THEN 1 ELSE 0
<1> DEFINE I == { i \in DOMAIN s : s[i] = o }
<1>1. CASE o \in ToSet(s)
  <2>1. PICK i \in DOMAIN s : s[i] = o
    BY <1>1 DEF ToSet
  <2>2. I = {i}
    BY <2>1 DEF Once
  <2> HIDE DEF I
  <2>3. Cardinality(I) = 1
    BY <2>2, FS_Singleton
  <2> QED
    BY <1>1, <2>3 DEF Copies, I
<1>2. CASE o \notin ToSet(s)
  <2>1. I = {}
    BY <1>2 DEF ToSet
  <2> HIDE DEF I
  <2>2. Cardinality(I) = 0
    BY <2>1, FS_EmptySet
  <2> QED
    BY <1>2, <2>2 DEF Copies, I
<1> QED
  BY <1>1, <1>2

LEMMA CronFacts ==
    ASSUME CronInv, NEW o \in Occurrence
    PROVE  /\ RedisOK /\ CallersOK /\ LoopsOK /\ queue \in Seq(Id)
           /\ o \in Id /\ o \in Nat /\ o # None /\ o \notin Job /\ now \in Nat
           /\ Copies(queue, o) \in Nat /\ Cardinality(Carriers(o)) \in Nat
           /\ Popped(o) \in {0, 1} /\ Scheduled(o) \in {0, 1}
           /\ runs[o] \in Nat /\ late[o] \in Nat
           /\ Timely(o) /\ Counted(o) /\ IsFiniteSet(Carriers(o))
           /\ \A c \in Caller : Once(Load(c), {o}) /\ Load(c) \in Seq(Id)
<1>1. RedisOK /\ CallersOK /\ LoopsOK /\ queue \in Seq(Id) /\ now \in Nat
  BY DEF CronInv, MaintenanceInv, RedisOK, LoopsOK
<1>2. o \in Id /\ o \in Nat /\ o # None /\ o \notin Job
  <2>1. Job \cap Occurrence = {}
    BY JobAssumption
  <2> QED
    BY <2>1, NoneIsNone DEF Id
<1>3. Timely(o) /\ Counted(o) /\ IsFiniteSet(Carriers(o)) /\ \A c \in Caller : Once(Load(c), {o})
  BY DEF CronInv, Counted
<1>4. runs[o] \in Nat /\ late[o] \in Nat
  BY <1>2 DEF CronInv
<1>5. Copies(queue, o) \in Nat /\ Cardinality(Carriers(o)) \in Nat
  BY <1>1, <1>3, CopiesType, FS_CardinalityType
<1>6. Popped(o) \in {0, 1} /\ Scheduled(o) \in {0, 1}
  BY DEF Popped, Scheduled
<1>7. ASSUME NEW c \in Caller PROVE Load(c) \in Seq(Id)
  <2>1. CallerOK(c)
    BY <1>1 DEF CallersOK
  <2> QED
    BY <2>1 DEF CallerOK, Moving, Load
<1> QED
  BY <1>1, <1>2, <1>3, <1>4, <1>5, <1>6, <1>7

(* The count survives a step that adds no more than it takes. *)
LEMMA CountKept ==
    ASSUME CronInv, NEW o \in Occurrence,
           now' \in Nat, now <= now', late'[o] \in Nat, late[o] <= late'[o],
           IsFiniteSet(Carriers(o)'), \A c \in Caller : Once(Load(c)', {o}),
           Left(o)' \in Nat, Scheduled(o)' \in {0, 1},
           Left(o)' + Scheduled(o)' <= Left(o) + Scheduled(o) + (late'[o] - late[o]),
           now' < o => Left(o)' <= Left(o)
    PROVE  Counted(o)'
<1>1. /\ o \in Nat /\ now \in Nat /\ late[o] \in Nat /\ Scheduled(o) \in {0, 1} /\ Left(o) \in Nat
      /\ now < o => Left(o) = 0
      /\ Left(o) + Scheduled(o) <= 1 + late[o]
  <2>1. /\ o \in Nat /\ now \in Nat /\ late[o] \in Nat /\ Scheduled(o) \in {0, 1} /\ Counted(o)
        /\ Copies(queue, o) \in Nat /\ Cardinality(Carriers(o)) \in Nat /\ Popped(o) \in {0, 1}
        /\ runs[o] \in Nat
    BY CronFacts
  <2>2. Left(o) \in Nat
    BY <2>1 DEF Left
  <2>3. (now < o => Left(o) = 0) /\ Left(o) + Scheduled(o) <= 1 + late[o]
    BY <2>1 DEF Counted
  <2> QED
    BY <2>1, <2>2, <2>3
<1>2. now' < o => Left(o)' = 0
  BY <1>1
<1>3. Left(o)' + Scheduled(o)' <= 1 + late'[o]
  BY <1>1
<1> QED
  BY <1>2, <1>3 DEF Counted

LEMMA CountTrimmed ==
    ASSUME CronInv, NEW o \in Occurrence,
           now' \in Nat, now <= now', late'[o] = late[o], runs'[o] = runs[o],
           Copies(queue', o) \in Nat, Copies(queue', o) <= Copies(queue, o),
           Carriers(o)' \subseteq Carriers(o), \A c \in Caller : Once(Load(c)', {o}),
           Scheduled(o)' = Scheduled(o), Popped(o)' \in {0, 1}, Popped(o)' <= Popped(o)
    PROVE  Counted(o)'
<1>1. IsFiniteSet(Carriers(o)') /\ Cardinality(Carriers(o)') \in Nat
      /\ Cardinality(Carriers(o)') <= Cardinality(Carriers(o))
  <2>1. IsFiniteSet(Carriers(o)) /\ Carriers(o)' \in SUBSET Carriers(o)
    BY CronFacts
  <2> QED
    BY <2>1, FS_Subset, FS_CardinalityType
<1>2. /\ Copies(queue, o) \in Nat /\ Cardinality(Carriers(o)) \in Nat /\ Popped(o) \in {0, 1}
      /\ runs[o] \in Nat /\ late[o] \in Nat /\ Scheduled(o) \in {0, 1}
  BY CronFacts
<1>3. Left(o)' = Copies(queue', o) + Cardinality(Carriers(o)') + Popped(o)' + runs'[o]
  BY DEF Left
<1>4. Left(o)' \in Nat /\ Left(o)' <= Left(o) /\ Left(o) \in Nat
  BY <1>1, <1>2, <1>3 DEF Left
<1>5. Left(o)' + Scheduled(o)' <= Left(o) + Scheduled(o) + (late'[o] - late[o])
  BY <1>2, <1>4
<1>6. late'[o] \in Nat /\ late[o] <= late'[o] /\ Scheduled(o)' \in {0, 1}
  BY <1>2
<1> QED
  BY <1>1, <1>4, <1>5, <1>6, CountKept

(* Steps that move no occurrence *)
LEMMA QuietCron ==
    ASSUME CronInv, NEW o \in Occurrence, UNCHANGED <<queue, zset, pc, ids, late, runs>>,
           now' \in Nat, now <= now',
           drain'.id = o /\ drain'.pc \in {"popped", "loaded"} =>
               drain.id = o /\ drain.pc \in {"popped", "loaded"}
    PROVE  Timely(o)' /\ Counted(o)'
<1>1. Timely(o)'
  <2>1. Timely(o) /\ o \in Nat /\ now \in Nat
    BY CronFacts
  <2>2. o <= now => o <= now'
    BY <2>1
  <2> QED
    BY <2>1, <2>2 DEF Timely, Set
<1>2. Popped(o)' \in {0, 1} /\ Popped(o)' <= Popped(o)
  BY DEF Popped
<1>3. Carriers(o)' = Carriers(o) /\ \A c \in Caller : Load(c)' = Load(c)
  BY DEF Carriers, Load
<1>4. Scheduled(o)' = Scheduled(o) /\ Copies(queue', o) = Copies(queue, o)
  BY DEF Scheduled
<1>5. Copies(queue, o) \in Nat /\ \A c \in Caller : Once(Load(c), {o})
  BY CronFacts
<1>6. Copies(queue', o) <= Copies(queue, o)
  BY <1>4, <1>5
<1>7. Counted(o)'
  BY <1>2, <1>3, <1>4, <1>5, <1>6, CountTrimmed
<1> QED
  BY <1>1, <1>7

(* A call begins, or ends with what it carries dropped *)
LEMMA CallCron ==
    ASSUME CronInv, NEW o \in Occurrence, NEW c \in Caller, NEW w, NEW l, Goto(c, w, l),
           w \notin {"get", "push"},
           w = "claim" /\ Set(c) = "schedule" /\ o \in ToSet(l) => o <= now,
           queue' \in {queue, <<>>}, UNCHANGED <<now, zset, drain, runs, late>>
    PROVE  Timely(o)' /\ Counted(o)'
<1>1. CallersOK /\ Timely(o) /\ Copies(queue, o) \in Nat /\ now \in Nat /\ \A d \in Caller : Once(Load(d), {o})
  BY CronFacts
<1>2. pc'[c] = w /\ ids'[c] = l /\ \A d \in Caller : d # c => pc'[d] = pc[d] /\ ids'[d] = ids[d]
  BY <1>1, GotoElsewhere
<1>3. Timely(o)'
  <2>1. ASSUME NEW d \in Caller, pc'[d] = "claim", Set(d) = "schedule", o \in ToSet(ids'[d]) PROVE o <= now
    <3>1. CASE d = c
      BY <1>2, <2>1, <3>1
    <3>2. CASE d # c
      BY <1>1, <1>2, <2>1, <3>2 DEF Timely
    <3> QED
      BY <3>1, <3>2
  <2>2. /\ zset'["retry"][o] = None
        /\ zset'["schedule"][o] # None => o <= zset'["schedule"][o]
    BY <1>1 DEF Timely
  <2> QED
    BY <2>1, <2>2 DEF Timely, Set
<1>4. Load(c)' = <<>> /\ \A d \in Caller : d # c => Load(d)' = Load(d)
  BY <1>2 DEF Load
<1>5. Carriers(o)' \subseteq Carriers(o) /\ \A d \in Caller : Once(Load(d)', {o})
  BY <1>1, <1>4, InEmpty, OnceEmpty DEF Carriers
<1>6. Copies(queue', o) \in Nat /\ Copies(queue', o) <= Copies(queue, o)
  BY <1>1, CopiesEmpty
<1>7. Scheduled(o)' = Scheduled(o) /\ Popped(o)' = Popped(o) /\ Popped(o) \in {0, 1}
  BY DEF Scheduled, Popped
<1>8. Counted(o)'
  BY <1>1, <1>5, <1>6, <1>7, CountTrimmed
<1> QED
  BY <1>3, <1>8

LEMMA EnqueueCron ==
    ASSUME CronInv, NEW o \in Occurrence, NEW j \in Job, Enqueue(j)
    PROVE  Timely(o)' /\ Counted(o)'
<1>1. /\ UNCHANGED <<now, pc, ids, drain, runs, late>>
      /\ \/ queue' = Append(queue, j) /\ zset' = zset
         \/ zset' = [zset EXCEPT !["schedule"][j] = now + Delay[j]] /\ queue' = queue
  BY DEF Enqueue, memory
<1>2. /\ o # j /\ j \in Id /\ o \in Id /\ queue \in Seq(Id) /\ RedisOK /\ Timely(o) /\ now \in Nat
      /\ Copies(queue, o) \in Nat
      /\ \A c \in Caller : Once(Load(c), {o})
  BY CronFacts DEF Id
<1>3. \A z \in ZSet : zset'[z][o] = zset[z][o]
  BY <1>1, <1>2 DEF RedisOK, ZSet
<1>4. Timely(o)'
  BY <1>1, <1>2, <1>3 DEF Timely, ZSet, Set
<1>5. Copies(queue', o) = Copies(queue, o)
  <2>1. CASE queue' = Append(queue, j)
    <3>1. Copies(Append(queue, j), o) = Copies(queue, o) + IF j = o THEN 1 ELSE 0
      BY <1>2, CopiesAppend
    <3> QED
      BY <1>2, <2>1, <3>1
  <2> QED
    BY <1>1, <2>1
<1>6. Carriers(o)' = Carriers(o) /\ \A c \in Caller : Load(c)' = Load(c)
  BY <1>1 DEF Carriers, Load
<1>7. Scheduled(o)' = Scheduled(o) /\ Popped(o)' = Popped(o) /\ Popped(o) \in {0, 1}
  BY <1>1, <1>3 DEF Scheduled, Popped, ZSet
<1>8. Copies(queue', o) <= Copies(queue, o) /\ Popped(o)' <= Popped(o) /\ now <= now' /\ now' \in Nat
  BY <1>1, <1>2, <1>5, <1>7
<1>9. Counted(o)'
  BY <1>1, <1>2, <1>5, <1>6, <1>7, <1>8, CountTrimmed
<1> QED
  BY <1>4, <1>9

(* what one occurrence needs of a caller's step, in numbers *)
LEMMA CarryOne ==
    ASSUME CronInv, NEW o \in Occurrence, NEW c \in Caller,
           \A d \in Caller : d # c => Load(d)' = Load(d)
    PROVE  /\ IsFiniteSet(Carriers(o)') /\ Cardinality(Carriers(o)') \in Nat
           /\ Cardinality(Carriers(o)') + (IF o \in ToSet(Load(c)) THEN 1 ELSE 0)
                = Cardinality(Carriers(o)) + (IF o \in ToSet(Load(c)') THEN 1 ELSE 0)
<1> DEFINE A == Carriers(o)
           B == Carriers(o)'
           R == A \ {c}
<1>1. IsFiniteSet(A) /\ Cardinality(A) \in Nat
  BY CronFacts
<1>2. (c \in A <=> o \in ToSet(Load(c))) /\ (c \in B <=> o \in ToSet(Load(c)'))
  BY DEF Carriers
<1>3. R = B \ {c}
  BY DEF Carriers
<1>4. B = R \/ B = R \cup {c}
  BY <1>3
<1> HIDE DEF A, B
<1>5. IsFiniteSet(R) /\ Cardinality(R) = IF c \in A THEN Cardinality(A) - 1 ELSE Cardinality(A)
  BY <1>1, FS_RemoveElement
<1>6. c \notin R
  OBVIOUS
<1> HIDE DEF R
<1>7. IsFiniteSet(B) /\ Cardinality(B) = IF c \in B THEN Cardinality(R) + 1 ELSE Cardinality(R)
  <2>1. CASE c \in B
    <3>1. B = R \cup {c}
      BY <1>4, <1>6, <2>1
    <3> QED
      BY <1>5, <1>6, <2>1, <3>1, FS_AddElement
  <2>2. CASE c \notin B
    <3>1. B = R
      BY <1>4, <2>2
    <3> QED
      BY <1>5, <2>2, <3>1
  <2> QED
    BY <2>1, <2>2
<1>8. Cardinality(B) \in Nat /\ Cardinality(R) \in Nat
  BY <1>5, <1>7, FS_CardinalityType
<1>9. Cardinality(B) + (IF c \in A THEN 1 ELSE 0) = Cardinality(A) + (IF c \in B THEN 1 ELSE 0)
  BY <1>1, <1>5, <1>7, <1>8
<1> QED
  BY <1>2, <1>7, <1>8, <1>9 DEF A, B

LEMMA ClaimCron ==
    ASSUME CronInv, NEW o \in Occurrence, NEW c \in Caller, Claim(c)
    PROVE  Timely(o)' /\ Counted(o)'
<1> DEFINE z0 == Set(c)
           mine == { i \in ToSet(ids[c]) : zset[z0][i] /= None }
           w == IF mine = {} THEN "idle" ELSE "get"
           l == IF mine = {} THEN <<>> ELSE SetToSeq(mine)
<1>1. /\ UNCHANGED <<now, queue, claim, drain, runs, late>>
      /\ pc[c] = "claim"
      /\ zset' = [zset EXCEPT ![z0] = [i \in Id |-> IF i \in mine THEN None ELSE @[i]]]
      /\ Goto(c, w, l)
  BY DEF Claim, history
<1>2. /\ RedisOK /\ CallersOK /\ Timely(o) /\ o \in Id /\ o \in Nat /\ now \in Nat
      /\ Copies(queue, o) \in Nat /\ Cardinality(Carriers(o)) \in Nat
      /\ runs[o] \in Nat /\ late[o] \in Nat
      /\ \A d \in Caller : Once(Load(d), {o})
  BY CronFacts
<1>3. ids[c] \in Seq(Id) /\ z0 \in ZSet
  BY <1>1, <1>2, SetType DEF CallersOK, CallerOK, Moving
<1>4. mine \in SUBSET Id /\ IsFiniteSet(mine)
  <2>1. ToSet(ids[c]) \subseteq Id
    BY <1>3, InSeq
  <2> QED
    BY <2>1, FiniteIds
<1>5. o \in mine => z0 = "schedule" /\ o <= now /\ zset["schedule"][o] # None
  BY <1>1, <1>2, <1>3 DEF Timely, ZSet
<1> HIDE DEF mine, z0
<1>6. zset'[z0][o] = (IF o \in mine THEN None ELSE zset[z0][o]) /\ \A z \in ZSet : z # z0 => zset'[z] = zset[z]
  BY <1>1, <1>2, <1>3 DEF RedisOK
<1>7. (w = "get" => ToSet(l) = mine) /\ (w # "get" => mine = {} /\ l = <<>>) /\ Once(l, {o}) /\ w \in {"idle", "get"}
  <2>1. ToSet(SetToSeq(mine)) = mine
    BY <1>4, InSetToSeq
  <2>2. Once(SetToSeq(mine), {o})
    BY <1>4, OnceSetToSeq
  <2> QED
    BY <2>1, <2>2, OnceEmpty
<1> HIDE DEF w, l
<1>8. pc'[c] = w /\ ids'[c] = l /\ \A d \in Caller : d # c => pc'[d] = pc[d] /\ ids'[d] = ids[d]
  BY <1>1, <1>2, GotoElsewhere
<1>9. Timely(o)'
  <2>1. zset'["retry"][o] = None /\ zset'["schedule"][o] \in {None, zset["schedule"][o]}
    BY <1>2, <1>3, <1>5, <1>6 DEF Timely, ZSet
  <2>2. \A d \in Caller : pc'[d] = "claim" => d # c
    BY <1>7, <1>8
  <2>3. zset'["schedule"][o] # None => o <= zset'["schedule"][o]
    BY <1>2, <2>1 DEF Timely
  <2>4. \A d \in Caller : pc'[d] = "claim" /\ Set(d) = "schedule" /\ o \in ToSet(ids'[d]) => o <= now'
    BY <1>1, <1>2, <1>8, <2>2 DEF Timely
  <2> QED
    BY <2>1, <2>3, <2>4 DEF Timely, Set
<1>10. ToSet(Load(c)') = mine /\ Once(Load(c)', {o}) /\ ToSet(Load(c)) = {}
  BY <1>1, <1>7, <1>8, InEmpty, OnceEmpty DEF Load
<1>11. \A d \in Caller : d # c => Load(d)' = Load(d)
  BY <1>8 DEF Load
<1>12. /\ IsFiniteSet(Carriers(o)') /\ Cardinality(Carriers(o)') \in Nat
       /\ Cardinality(Carriers(o)') = Cardinality(Carriers(o)) + (IF o \in mine THEN 1 ELSE 0)
  <2>1. Cardinality(Carriers(o)') + (IF o \in ToSet(Load(c)) THEN 1 ELSE 0)
                = Cardinality(Carriers(o)) + (IF o \in ToSet(Load(c)') THEN 1 ELSE 0)
    BY <1>11, CarryOne
  <2>2. IsFiniteSet(Carriers(o)') /\ Cardinality(Carriers(o)') \in Nat
    BY <1>11, CarryOne
  <2> QED
    BY <1>2, <1>10, <2>1, <2>2
<1>13. Popped(o)' = Popped(o) /\ Popped(o) \in {0, 1}
  BY <1>1 DEF Popped
<1>14. /\ Scheduled(o) \in {0, 1} /\ Scheduled(o)' \in {0, 1}
       /\ Scheduled(o)' + (IF o \in mine THEN 1 ELSE 0) = Scheduled(o)
  <2>1. CASE o \in mine
    <3>1. Scheduled(o) = 1 /\ Scheduled(o)' = 0
      BY <1>5, <1>6, <2>1 DEF Scheduled
    <3> QED
      BY <2>1, <3>1
  <2>2. CASE o \notin mine
    <3>1. zset'["schedule"][o] = zset["schedule"][o]
      BY <1>3, <1>6, <2>2 DEF ZSet
    <3> QED
      BY <2>2, <3>1 DEF Scheduled
  <2> QED
    BY <2>1, <2>2
<1>15. /\ Left(o)' = Copies(queue, o) + Cardinality(Carriers(o)') + Popped(o) + runs[o]
       /\ Left(o) = Copies(queue, o) + Cardinality(Carriers(o)) + Popped(o) + runs[o]
  BY <1>1, <1>13 DEF Left
<1>16. Left(o)' \in Nat /\ Left(o)' + Scheduled(o)' = Left(o) + Scheduled(o) /\ Left(o) \in Nat
       /\ (o \notin mine => Left(o)' = Left(o))
  BY <1>2, <1>12, <1>13, <1>14, <1>15
<1>17. \A d \in Caller : Once(Load(d)', {o})
  BY <1>2, <1>10, <1>11
<1>18. now' < o => Left(o)' <= Left(o)
  BY <1>1, <1>2, <1>5, <1>16
<1>19. Left(o)' + Scheduled(o)' <= Left(o) + Scheduled(o) + (late'[o] - late[o])
  BY <1>1, <1>2, <1>14, <1>16
<1>20. now' \in Nat /\ now <= now' /\ late'[o] \in Nat /\ late[o] <= late'[o]
  BY <1>1, <1>2
<1>21. Counted(o)'
  BY <1>12, <1>14, <1>16, <1>17, <1>18, <1>19, <1>20, CountKept
<1> QED
  BY <1>9, <1>21

LEMMA GetManyCron ==
    ASSUME CronInv, NEW o \in Occurrence, NEW c \in Caller, GetMany(c)
    PROVE  Timely(o)' /\ Counted(o)'
<1> DEFINE live == { i \in ToSet(ids[c]) : jobs[i] /= None }
<1>1. /\ UNCHANGED <<now, queue, zset, drain, runs, late>>
      /\ pc[c] = "get" /\ Goto(c, "push", SetToSeq(live))
  BY DEF GetMany, redis, history
<1>2. /\ CallersOK /\ Timely(o) /\ now \in Nat /\ Copies(queue, o) \in Nat
      /\ \A d \in Caller : Once(Load(d), {o})
  BY CronFacts
<1>3. ids[c] \in Seq(Id) /\ Load(c) = ids[c]
  BY <1>1, <1>2 DEF CallersOK, CallerOK, Moving, Load
<1>4. live \in SUBSET Id /\ IsFiniteSet(live) /\ live \subseteq ToSet(ids[c])
  <2>1. ToSet(ids[c]) \subseteq Id
    BY <1>3, InSeq
  <2> QED
    BY <2>1, FiniteIds
<1> HIDE DEF live
<1>5. ToSet(SetToSeq(live)) = live /\ Once(SetToSeq(live), {o})
  <2>1. ToSet(SetToSeq(live)) = live
    BY <1>4, InSetToSeq
  <2>2. Once(SetToSeq(live), {o})
    BY <1>4, OnceSetToSeq
  <2> QED
    BY <2>1, <2>2
<1>6. pc'[c] = "push" /\ ids'[c] = SetToSeq(live) /\ \A d \in Caller : d # c => pc'[d] = pc[d] /\ ids'[d] = ids[d]
  BY <1>1, <1>2, GotoElsewhere
<1>7. Load(c)' = SetToSeq(live) /\ \A d \in Caller : d # c => Load(d)' = Load(d)
  BY <1>6 DEF Load
<1>8. \A d \in Caller : Once(Load(d)', {o}) /\ (o \in ToSet(Load(d)') => o \in ToSet(Load(d)))
  BY <1>2, <1>3, <1>4, <1>5, <1>7
<1>9. Carriers(o)' \subseteq Carriers(o)
  BY <1>8 DEF Carriers
<1>10. Timely(o)'
  BY <1>1, <1>2, <1>6 DEF Timely, Set
<1>11. /\ Scheduled(o)' = Scheduled(o) /\ Popped(o)' = Popped(o) /\ Popped(o) \in {0, 1}
       /\ Copies(queue', o) = Copies(queue, o)
  BY <1>1 DEF Scheduled, Popped
<1>12. Copies(queue', o) <= Copies(queue, o) /\ Popped(o)' <= Popped(o) /\ now' \in Nat /\ now <= now'
  BY <1>1, <1>2, <1>11
<1>13. Counted(o)'
  BY <1>1, <1>2, <1>8, <1>9, <1>11, <1>12, CountTrimmed
<1> QED
  BY <1>10, <1>13

LEMMA PushAllCron ==
    ASSUME CronInv, NEW o \in Occurrence, NEW c \in Caller, PushAll(c)
    PROVE  Timely(o)' /\ Counted(o)'
<1>1. /\ UNCHANGED <<now, zset, drain, runs, late>> /\ pc[c] = "push"
      /\ queue' = queue \o ids[c] /\ Goto(c, "idle", <<>>)
  BY DEF PushAll, history
<1>2. /\ CallersOK /\ Timely(o) /\ now \in Nat /\ queue \in Seq(Id)
      /\ Copies(queue, o) \in Nat /\ Cardinality(Carriers(o)) \in Nat /\ Scheduled(o) \in {0, 1}
      /\ runs[o] \in Nat /\ late[o] \in Nat /\ Popped(o) \in {0, 1}
      /\ \A d \in Caller : Once(Load(d), {o}) /\ Load(d) \in Seq(Id)
  BY CronFacts
<1>3. Load(c) = ids[c]
  BY <1>1 DEF Load
<1>4. Copies(queue', o) = Copies(queue, o) + IF o \in ToSet(Load(c)) THEN 1 ELSE 0
  <2>1. Copies(queue', o) = Copies(queue, o) + Copies(ids[c], o)
    BY <1>1, <1>2, <1>3, CopiesConcat
  <2>2. Copies(ids[c], o) = IF o \in ToSet(Load(c)) THEN 1 ELSE 0
    BY <1>2, <1>3, CopiesOnce
  <2> QED
    BY <2>1, <2>2
<1>5. pc'[c] = "idle" /\ \A d \in Caller : d # c => pc'[d] = pc[d] /\ ids'[d] = ids[d]
  BY <1>1, <1>2, GotoElsewhere
<1>6. Load(c)' = <<>> /\ \A d \in Caller : d # c => Load(d)' = Load(d)
  BY <1>5 DEF Load
<1>7. o \notin ToSet(Load(c)') /\ \A d \in Caller : Once(Load(d)', {o})
  BY <1>2, <1>6, InEmpty, OnceEmpty
<1>8. /\ IsFiniteSet(Carriers(o)') /\ Cardinality(Carriers(o)') \in Nat
      /\ Cardinality(Carriers(o)') + (IF o \in ToSet(Load(c)) THEN 1 ELSE 0) = Cardinality(Carriers(o))
  <2>1. Cardinality(Carriers(o)') + (IF o \in ToSet(Load(c)) THEN 1 ELSE 0)
                = Cardinality(Carriers(o)) + (IF o \in ToSet(Load(c)') THEN 1 ELSE 0)
    BY <1>6, CarryOne
  <2>2. IsFiniteSet(Carriers(o)') /\ Cardinality(Carriers(o)') \in Nat
    BY <1>6, CarryOne
  <2> QED
    BY <1>2, <1>7, <2>1, <2>2
<1>9. Timely(o)'
  BY <1>1, <1>2, <1>5 DEF Timely, Set
<1>10. Scheduled(o)' = Scheduled(o) /\ Popped(o)' = Popped(o)
  BY <1>1 DEF Scheduled, Popped
<1>11. /\ Left(o)' = Copies(queue', o) + Cardinality(Carriers(o)') + Popped(o) + runs[o]
       /\ Left(o) = Copies(queue, o) + Cardinality(Carriers(o)) + Popped(o) + runs[o]
  BY <1>1, <1>10 DEF Left
<1>12. Left(o)' = Left(o) /\ Left(o) \in Nat
  BY <1>2, <1>4, <1>8, <1>11
<1>13. Left(o)' + Scheduled(o)' <= Left(o) + Scheduled(o) + (late'[o] - late[o])
  BY <1>1, <1>2, <1>10, <1>12
<1>14. now' \in Nat /\ now <= now' /\ late'[o] \in Nat /\ late[o] <= late'[o] /\ Left(o)' <= Left(o)
  BY <1>1, <1>2, <1>12
<1>15. Counted(o)'
  BY <1>2, <1>7, <1>8, <1>10, <1>12, <1>13, <1>14, CountKept
<1> QED
  BY <1>9, <1>15

LEMMA CronStoredCron ==
    ASSUME CronInv, NEW o \in Occurrence, NEW p \in Proc, CronStored(p),
           UNCHANGED <<now, claim, pc, ids, drain, runs>>
    PROVE  Timely(o)' /\ Counted(o)' /\ late' \in [Id -> Nat]
<1> DEFINE x == cron[p].next
<1>1. /\ RedisOK /\ CallersOK /\ LoopsOK /\ Timely(o) /\ o \in Id /\ o \in Nat /\ now \in Nat
      /\ queue \in Seq(Id)
      /\ Copies(queue, o) \in Nat /\ Cardinality(Carriers(o)) \in Nat /\ Scheduled(o) \in {0, 1}
      /\ runs[o] \in Nat /\ late[o] \in Nat /\ Popped(o) \in {0, 1} /\ o # None
      /\ IsFiniteSet(Carriers(o))
      /\ \A d \in Caller : Once(Load(d), {o})
  BY CronFacts
<1>2. cron[p] \in Crons /\ cron[p].pc \in {"push", "add"} /\ x # None /\ CronDue(p)
  BY <1>1, CronTypes DEF CronStored, LoopsOK, CronInv
<1>3. x \in Occurrence /\ x \in Id /\ x \in Nat /\ cron[p].due \in Nat /\ x <= cron[p].due
      /\ (cron[p].pc = "push" => x <= now)
  <2>1. x \in Occurrence /\ cron[p].due \in Nat
    BY <1>2 DEF Crons
  <2>2. x \in Nat /\ x \in Id
    BY <2>1, NoneIsNone DEF Id
  <2> QED
    BY <1>1, <1>2, <2>1, <2>2 DEF CronDue
<1>4. /\ \/ cron[p].pc = "push" /\ queue' = Append(queue, x) /\ zset' = zset
         \/ cron[p].pc # "push" /\ zset' = [zset EXCEPT !["schedule"][x] = cron[p].due] /\ queue' = queue
      /\ late' = [late EXCEPT ![x] = IF now >= x THEN @ + 1 ELSE @]
  BY DEF CronStored
<1>5. cron[p].due # None
  BY <1>3, NoneIsNone
<1> DEFINE d == cron[p].due
<1> HIDE DEF x, d
<1>6. late \in [Id -> Nat]
  BY DEF CronInv
<1>7. late' \in [Id -> Nat] /\ late'[o] = late[o] + IF x = o /\ o <= now THEN 1 ELSE 0
  BY <1>1, <1>3, <1>4, <1>6
<1>8. \/ zset' = zset
      \/ zset' = [zset EXCEPT !["schedule"][x] = d]
  BY <1>4 DEF d
<1>9. /\ zset'["retry"][o] = zset["retry"][o]
      /\ zset'["schedule"][o] = zset["schedule"][o] \/ (x = o /\ queue' = queue /\ zset'["schedule"][o] = d)
  <2>1. CASE zset' = zset
    BY <2>1
  <2>2. CASE zset' # zset
    <3>1. zset' = [zset EXCEPT !["schedule"][x] = d] /\ queue' = queue
      BY <1>4, <2>2 DEF d
    <3>2. zset \in [ZSet -> [Id -> Nat \cup {None}]] /\ "schedule" \in ZSet /\ "retry" \in ZSet
      BY <1>1 DEF RedisOK, ZSet
    <3> QED
      BY <1>1, <1>3, <3>1, <3>2
  <2> QED
    BY <2>1, <2>2
<1>10. Timely(o)'
  <2>1. zset'["retry"][o] = None
    BY <1>1, <1>9 DEF Timely
  <2>2. zset'["schedule"][o] # None => o <= zset'["schedule"][o]
    BY <1>1, <1>3, <1>9 DEF Timely, d
  <2> QED
    BY <1>1, <2>1, <2>2 DEF Timely, Set
<1>11. Carriers(o)' = Carriers(o) /\ \A c \in Caller : Load(c)' = Load(c)
  BY DEF Carriers, Load
<1>12. Popped(o)' = Popped(o)
  BY DEF Popped
<1>13. Scheduled(o)' \in {0, 1}
  BY DEF Scheduled
<1>14. Left(o)' = Copies(queue', o) + Cardinality(Carriers(o)) + Popped(o) + runs[o]
  BY <1>11, <1>12 DEF Left
<1>15. Left(o) = Copies(queue, o) + Cardinality(Carriers(o)) + Popped(o) + runs[o]
  BY DEF Left
<1>16. /\ o \in Nat /\ now \in Nat /\ Copies(queue, o) \in Nat /\ Cardinality(Carriers(o)) \in Nat
       /\ Scheduled(o) \in {0, 1} /\ runs[o] \in Nat /\ late[o] \in Nat /\ Popped(o) \in {0, 1}
  BY <1>1
<1>17. CASE x # o
  <2>1. Copies(queue', o) = Copies(queue, o)
    <3>1. Copies(Append(queue, x), o) = Copies(queue, o) + IF x = o THEN 1 ELSE 0
      BY <1>1, <1>3, CopiesAppend
    <3>2. Copies(Append(queue, x), o) = Copies(queue, o)
      BY <1>17, <1>16, <3>1
    <3> QED
      BY <1>4, <3>2
  <2>2. Scheduled(o)' = Scheduled(o) /\ late'[o] = late[o]
    BY <1>1, <1>7, <1>9, <1>17 DEF Scheduled
  <2>3. Copies(queue', o) <= Copies(queue, o) /\ Popped(o)' <= Popped(o) /\ now' \in Nat /\ now <= now'
    BY <1>1, <1>12, <2>1
  <2>4. Counted(o)'
    BY <1>1, <1>11, <1>12, <2>1, <2>2, <2>3, CountTrimmed
  <2> QED
    BY <1>7, <1>10, <2>4
<1>18. CASE x = o /\ o <= now
  <2>1. /\ Copies(queue', o) \in Nat
        /\ Copies(queue', o) + Scheduled(o)' <= Copies(queue, o) + Scheduled(o) + 1
    <3>1. CASE queue' = Append(queue, x) /\ zset' = zset
      <4>1. Copies(Append(queue, x), o) = Copies(queue, o) + IF x = o THEN 1 ELSE 0
        BY <1>1, <1>3, CopiesAppend
      <4>2. Scheduled(o)' = Scheduled(o)
        BY <3>1 DEF Scheduled
      <4> QED
        BY <1>1, <1>18, <3>1, <4>1, <4>2
    <3>2. CASE queue' = queue
      BY <1>1, <1>13, <3>2
    <3> QED
      BY <1>4, <3>1, <3>2
  <2>2. late'[o] = late[o] + 1
    BY <1>7, <1>18
  <2>3. Left(o)' \in Nat /\ Left(o)' + Scheduled(o)' <= Left(o) + Scheduled(o) + (late'[o] - late[o])
    <3>1. late'[o] - late[o] = 1
      BY <1>16, <2>2
    <3> QED
      BY <1>13, <1>14, <1>15, <1>16, <2>1, <3>1
  <2>4. ~(now' < o) /\ now' \in Nat /\ now <= now' /\ late'[o] \in Nat /\ late[o] <= late'[o]
    BY <1>18, <1>16, <2>2
  <2>5. IsFiniteSet(Carriers(o)') /\ \A c \in Caller : Once(Load(c)', {o})
    BY <1>1, <1>11
  <2>6. Counted(o)'
    BY <1>13, <2>3, <2>4, <2>5, CountKept
  <2> QED
    BY <1>7, <1>10, <2>6
<1>19. CASE x = o /\ now < o
  <2>1. queue' = queue /\ late'[o] = late[o]
    BY <1>1, <1>3, <1>4, <1>7, <1>19
  <2>2. Left(o) = 0 /\ Left(o)' = Left(o)
    <3>1. Left(o) = 0
      BY <1>19, CronFacts DEF Counted
    <3> QED
      BY <1>14, <1>15, <2>1, <3>1
  <2>3. Left(o)' = 0 /\ Left(o)' + Scheduled(o)' <= 1 + late'[o]
    BY <1>1, <1>13, <2>1, <2>2
  <2>4. Counted(o)'
    BY <1>1, <1>11, <2>3 DEF Counted
  <2> QED
    BY <1>7, <1>10, <2>4
<1> QED
  BY <1>1, <1>17, <1>18, <1>19

LEMMA DrainPopCron == ASSUME CronInv, NEW o \in Occurrence, DrainPop PROVE Timely(o)' /\ Counted(o)'
<1>1. /\ UNCHANGED <<now, zset, pc, ids, runs, late>> /\ drain.pc = "idle"
      /\ queue # <<>> /\ queue' = Tail(queue) /\ drain'.id = Head(queue) /\ drain'.pc = "popped"
  BY DEF DrainPop, history, DrainIdle
<1>2. /\ Timely(o) /\ now \in Nat /\ queue \in Seq(Id)
      /\ Copies(queue, o) \in Nat /\ Cardinality(Carriers(o)) \in Nat /\ Scheduled(o) \in {0, 1}
      /\ runs[o] \in Nat /\ late[o] \in Nat /\ IsFiniteSet(Carriers(o))
      /\ \A d \in Caller : Once(Load(d), {o})
  BY CronFacts
<1>3. /\ Copies(queue, o) = Copies(queue', o) + (IF Head(queue) = o THEN 1 ELSE 0)
      /\ Copies(queue', o) \in Nat
  <2>1. Tail(queue) \in Seq(Id)
    BY <1>1, <1>2
  <2> QED
    BY <1>1, <1>2, <2>1, CopiesTail, CopiesType
<1>4. Popped(o) = 0 /\ Popped(o)' = IF Head(queue) = o THEN 1 ELSE 0
  BY <1>1 DEF Popped
<1>5. Carriers(o)' = Carriers(o) /\ \A c \in Caller : Load(c)' = Load(c)
  BY <1>1 DEF Carriers, Load
<1>6. Scheduled(o)' = Scheduled(o)
  BY <1>1 DEF Scheduled
<1>7. /\ Left(o)' = Copies(queue', o) + Cardinality(Carriers(o)) + Popped(o)' + runs[o]
      /\ Left(o) = Copies(queue, o) + Cardinality(Carriers(o)) + Popped(o) + runs[o]
  BY <1>1, <1>5 DEF Left
<1>8. Left(o)' = Left(o) /\ Left(o) \in Nat
  BY <1>2, <1>3, <1>4, <1>7
<1>9. Left(o)' + Scheduled(o)' <= Left(o) + Scheduled(o) + (late'[o] - late[o])
  BY <1>1, <1>2, <1>6, <1>8
<1>10. now' \in Nat /\ now <= now' /\ late'[o] \in Nat /\ late[o] <= late'[o] /\ Left(o)' <= Left(o)
  BY <1>1, <1>2, <1>8
<1>11. Counted(o)'
  BY <1>2, <1>5, <1>6, <1>8, <1>9, <1>10, CountKept
<1>12. Timely(o)'
  BY <1>1, <1>2 DEF Timely, Set
<1> QED
  BY <1>11, <1>12

LEMMA DrainRunCron ==
    ASSUME CronInv, NEW o \in Occurrence, DrainRun
    PROVE  Timely(o)' /\ Counted(o)'
<1>1. /\ UNCHANGED <<now, queue, zset, pc, ids, late>> /\ drain.pc = "loaded"
      /\ drain' = [drain EXCEPT !.pc = "running"] /\ runs' = [runs EXCEPT ![drain.id] = @ + 1]
  BY DEF DrainRun
<1>2. /\ Timely(o) /\ now \in Nat /\ o \in Id /\ LoopsOK
      /\ Copies(queue, o) \in Nat /\ Cardinality(Carriers(o)) \in Nat /\ Scheduled(o) \in {0, 1}
      /\ runs[o] \in Nat /\ late[o] \in Nat /\ IsFiniteSet(Carriers(o))
      /\ \A d \in Caller : Once(Load(d), {o})
  BY CronFacts
<1>3. drain \in Drains /\ drain.id \in Id
  BY <1>1, <1>2, DrainTypes
<1>4. drain'.pc = "running" /\ drain'.id = drain.id
  BY <1>1, <1>3 DEF Drains
<1>5. runs'[o] = runs[o] + IF drain.id = o THEN 1 ELSE 0
  <2>1. runs \in [Id -> Nat]
    BY DEF CronInv
  <2> QED
    BY <1>1, <1>2, <1>3, <2>1
<1>6. Popped(o) = (IF drain.id = o THEN 1 ELSE 0) /\ Popped(o)' = 0
  BY <1>1, <1>4 DEF Popped
<1>7. Carriers(o)' = Carriers(o) /\ \A c \in Caller : Load(c)' = Load(c)
  BY <1>1 DEF Carriers, Load
<1>8. Scheduled(o)' = Scheduled(o)
  BY <1>1 DEF Scheduled
<1>9. /\ Left(o)' = Copies(queue, o) + Cardinality(Carriers(o)) + Popped(o)' + runs'[o]
      /\ Left(o) = Copies(queue, o) + Cardinality(Carriers(o)) + Popped(o) + runs[o]
  BY <1>1, <1>7 DEF Left
<1>10. Left(o)' = Left(o) /\ Left(o) \in Nat
  BY <1>2, <1>5, <1>6, <1>9
<1>11. Left(o)' + Scheduled(o)' <= Left(o) + Scheduled(o) + (late'[o] - late[o])
  BY <1>1, <1>2, <1>8, <1>10
<1>12. now' \in Nat /\ now <= now' /\ late'[o] \in Nat /\ late[o] <= late'[o] /\ Left(o)' <= Left(o)
  BY <1>1, <1>2, <1>10
<1>13. Counted(o)'
  BY <1>2, <1>7, <1>8, <1>10, <1>11, <1>12, CountKept
<1>14. Timely(o)'
  BY <1>1, <1>2 DEF Timely, Set
<1> QED
  BY <1>13, <1>14

LEMMA NotRevivingGoto ==
    ASSUME CronInv, NEW c \in Caller, NEW w, NEW l, Goto(c, w, l), w \notin Reviving \cup {"revive_read"}
    PROVE  NotReviving'
<1>1. pc'[c] = w /\ \A d \in Caller : d # c => pc'[d] = pc[d]
  BY GotoElsewhere DEF CronInv, MaintenanceInv
<1> QED
  BY <1>1 DEF CronInv, NotReviving

LEMMA NoRevival == ASSUME CronInv, NEW a \in Admin PROVE ~Revive(a)
<1>1. a \in Caller
  BY AdminCalls
<1>2. pc[a] \notin Reviving \cup {"revive_read"} /\ "revive" \notin plan
  BY <1>1 DEF CronInv, NotReviving
<1> QED
  BY <1>2 DEF Revive, ReviveClaim, ReviveRead, ReviveCheck, ReviveWrite, ReviveFails, Restore, ReviveDone,
              Call, Reviving

LEMMA NotRevivingNext == CronInv /\ [Next]_vars => NotReviving' /\ plan' = plan
<1> SUFFICES ASSUME CronInv, [Next]_vars PROVE NotReviving' /\ plan' = plan
  OBVIOUS
<1>1. ASSUME UNCHANGED <<plan, pc>> PROVE NotReviving' /\ plan' = plan
  BY <1>1 DEF CronInv, NotReviving
<1>2. ASSUME NEW c \in Caller, NEW w \in {"idle", "wipe", "claim", "get", "push"}, NEW l, Goto(c, w, l), plan' = plan
      PROVE  NotReviving' /\ plan' = plan
  <2>1. w \notin Reviving \cup {"revive_read"}
    BY DEF Reviving
  <2> QED
    BY <1>2, <2>1, NotRevivingGoto
<1>3. CASE Tick
  BY <1>1, <1>3 DEF Tick, memory
<1>4. ASSUME NEW i \in Job, Enqueue(i) PROVE NotReviving' /\ plan' = plan
  BY <1>1, <1>4 DEF Enqueue, memory
<1>5. ASSUME NEW a \in Admin, Operator(a) PROVE NotReviving' /\ plan' = plan
  <2>1. a \in Caller /\ ~Revive(a)
    BY AdminCalls, NoRevival
  <2>2. CASE Wipe(a)
    BY <1>2, <2>1, <2>2 DEF Wipe, WipeRead, WipeDelete
  <2>3. CASE WipeDead(a) \/ Delete(a)
    BY <1>1, <2>3 DEF WipeDead, Delete, DeleteJob, memory
  <2>4. CASE RetryAllNow(a)
    BY <1>2, <2>1, <2>4 DEF RetryAllNow
  <2> QED
    BY <1>5, <2>1, <2>2, <2>3, <2>4 DEF Operator
<1>6. ASSUME NEW m \in Mover, EnqueueScheduled(m) PROVE NotReviving' /\ plan' = plan
  BY <1>2, <1>6, MoverCalls DEF EnqueueScheduled
<1>7. ASSUME NEW c \in Caller, Move(c) \/ Dies(c) PROVE NotReviving' /\ plan' = plan
  BY <1>2, <1>7 DEF Move, Dies, Claim, GetMany, PushAll
<1>8. ASSUME NEW p \in Looper, Cleanup(p) PROVE NotReviving' /\ plan' = plan
  BY <1>1, <1>8 DEF Cleanup, CleanupBegin, CleanupScan, CleanupDelete
<1>9. ASSUME NEW p \in Proc, Cron(p) \/ CronFails(p) PROVE NotReviving' /\ plan' = plan
  BY <1>1, <1>9 DEF Cron, CronStart, CronReady, CronCheck, CronWrite, CronFails
<1>10. CASE Drain \/ DrainError
  BY <1>1, <1>10 DEF Drain, DrainPop, DrainLoad, DrainRun, DrainSuccess, DrainFailure, DrainKill, DrainError
<1>11. CASE Done \/ UNCHANGED vars
  BY <1>1, <1>11 DEF Done, vars, memory
<1> QED
  BY <1>3, <1>4, <1>5, <1>6, <1>7, <1>8, <1>9, <1>10, <1>11 DEF Next

LEMMA CronDueStep ==
    ASSUME CronInv, NEW p \in Proc, Cron(p) \/ CronFails(p) PROVE \A q \in Proc : CronDue(q)'
<1>1. /\ cron \in [Proc -> Crons] /\ cron[p] \in Crons /\ now \in Nat /\ Lookahead \in Nat
      /\ \A q \in Proc : CronDue(q)
  BY CronTypes, TimeAssumption DEF CronInv, MaintenanceInv, LoopsOK
<1>2. now' = now /\ \A q \in Proc : q # p => cron'[q] = cron[q]
  BY <1>1 DEF Cron, CronStart, CronReady, CronCheck, CronWrite, CronFails, CronAdvance
<1>3. \A q \in Proc : q # p => CronDue(q)'
  BY <1>1, <1>2 DEF CronDue
<1>4. ASSUME cron'[p].pc = "wait" PROVE CronDue(p)'
  BY <1>4 DEF CronDue
<1>5. CASE CronStart(p) \/ CronWrite(p) \/ CronFails(p)
  <2>1. cron'[p].pc = "wait"
    BY <1>1, <1>5 DEF CronStart, CronWrite, CronAdvance, CronFails, Crons
  <2> QED
    BY <1>3, <1>4, <2>1
<1>6. CASE CronReady(p)
  <2>1. /\ cron'[p].pc = "check" /\ cron'[p].next = cron[p].next /\ cron[p].next # None
        /\ cron'[p].due = IF cron[p].next > now THEN cron[p].next ELSE now
    BY <1>1, <1>6 DEF CronReady, Crons
  <2>2. cron[p].next \in Nat
    BY <1>1, <2>1, NoneIsNone DEF Crons
  <2>3. CronDue(p)'
    BY <1>1, <2>1, <2>2 DEF CronDue
  <2> QED
    BY <1>3, <2>3
<1>7. CASE CronCheck(p)
  <2>1. CASE CronAdvance(p)
    <3>1. cron'[p].pc = "wait"
      BY <1>1, <2>1 DEF CronAdvance
    <3> QED
      BY <1>3, <1>4, <3>1
  <2>2. CASE ~CronAdvance(p)
    <3>1. /\ cron'[p].pc = (IF cron[p].due <= now THEN "push" ELSE "add")
          /\ cron'[p].next = cron[p].next /\ cron'[p].due = cron[p].due /\ cron[p].pc = "check"
      BY <1>1, <1>7, <2>2 DEF CronCheck, Crons
    <3>2. CronDue(p)'
      BY <1>1, <1>2, <3>1 DEF CronDue
    <3> QED
      BY <1>3, <3>2
  <2> QED
    BY <2>1, <2>2
<1> QED
  BY <1>5, <1>6, <1>7 DEF Cron

LEMMA CronDueRest ==
    ASSUME CronInv, cron' = cron, now' \in Nat, now <= now' PROVE \A q \in Proc : CronDue(q)'
<1> SUFFICES ASSUME NEW q \in Proc PROVE CronDue(q)'
  OBVIOUS
<1>1. cron[q] \in Crons /\ now \in Nat /\ CronDue(q)
  BY CronTypes DEF CronInv, MaintenanceInv, LoopsOK
<1>2. cron[q].due \in Nat
  BY <1>1 DEF Crons
<1>3. cron[q].due <= now => cron[q].due <= now'
  BY <1>1, <1>2
<1> QED
  BY <1>1, <1>3 DEF CronDue

LEMMA CronInit == Init /\ "revive" \notin plan => CronInv
<1> SUFFICES ASSUME Init, "revive" \notin plan PROVE CronInv
  OBVIOUS
<1>1. MaintenanceInv /\ runs \in [Id -> Nat] /\ late \in [Id -> Nat]
  BY MaintenanceInit DEF Init
<1>2. NotReviving /\ \A p \in Proc : CronDue(p)
  BY DEF Init, NotReviving, Reviving, CronDue
<1>3. ASSUME NEW o \in Occurrence PROVE Timely(o) /\ Counted(o)
  <2>1. o \in Id /\ o \notin Retried /\ o # None
    BY JobAssumption, NoneIsNone DEF Id
  <2>2. /\ zset["retry"][o] = None /\ zset["schedule"][o] = None /\ queue = <<>>
        /\ \A c \in Caller : pc[c] = "idle" /\ Load(c) = <<>>
        /\ runs[o] = 0 /\ late[o] = 0 /\ drain.pc = "idle"
    BY <2>1 DEF Init, ZSet, Load
  <2>3. Carriers(o) = {}
    BY <2>2, InEmpty DEF Carriers
  <2>4. IsFiniteSet(Carriers(o)) /\ Cardinality(Carriers(o)) = 0
    BY <2>3, FS_EmptySet
  <2>5. Popped(o) = 0 /\ Scheduled(o) = 0 /\ Copies(queue, o) = 0
    BY <2>2, CopiesEmpty DEF Popped, Scheduled
  <2>6. Left(o) = 0
    BY <2>2, <2>4, <2>5 DEF Left
  <2>7. Counted(o)
    BY <2>2, <2>4, <2>5, <2>6, OnceEmpty DEF Counted
  <2>8. Timely(o)
    BY <2>2 DEF Timely
  <2> QED
    BY <2>7, <2>8
<1> QED
  BY <1>1, <1>2, <1>3 DEF CronInv

LEMMA CronSteps ==
    ASSUME CronInv, [Next]_vars
    PROVE  /\ \A o \in Occurrence : Timely(o)' /\ Counted(o)'
           /\ runs' \in [Id -> Nat] /\ late' \in [Id -> Nat]
           /\ \A p \in Proc : CronDue(p)'
<1> DEFINE Goal == /\ \A o \in Occurrence : Timely(o)' /\ Counted(o)'
                   /\ runs' \in [Id -> Nat] /\ late' \in [Id -> Nat]
                   /\ \A p \in Proc : CronDue(p)'
<1>1. /\ runs \in [Id -> Nat] /\ late \in [Id -> Nat] /\ now \in Nat
      /\ RedisOK /\ CallersOK /\ LoopsOK
  BY DEF CronInv, MaintenanceInv, LoopsOK
<1>2. now <= now /\ now <= now + 1 /\ now + 1 \in Nat
  BY <1>1
<1>3. ASSUME UNCHANGED <<queue, zset, pc, ids, late, runs>>, now' \in {now, now + 1},
             drain'.pc \in {"popped", "loaded"} => drain'.id = drain.id /\ drain.pc \in {"popped", "loaded"}
      PROVE  \A o \in Occurrence : Timely(o)' /\ Counted(o)'
  BY <1>1, <1>2, <1>3, QuietCron
<1>4. ASSUME now' \in {now, now + 1}, cron' = cron PROVE \A p \in Proc : CronDue(p)'
  BY <1>1, <1>2, <1>4, CronDueRest
<1>5. CASE Tick
  BY <1>1, <1>3, <1>4, <1>5 DEF Tick, redis, memory, history
<1>6. ASSUME NEW j \in Job, Enqueue(j) PROVE Goal
  <2>1. UNCHANGED <<now, cron, runs, late>>
    BY <1>6 DEF Enqueue, memory
  <2> QED
    BY <1>1, <1>4, <1>6, <2>1, EnqueueCron
<1>7. ASSUME NEW a \in Admin, Operator(a) PROVE Goal
  <2>1. a \in Caller /\ ~Revive(a)
    BY AdminCalls, NoRevival
  <2>2. CASE Wipe(a)
    <3>1. UNCHANGED <<now, zset, drain, cron, runs, late>> /\ queue' \in {queue, <<>>}
      BY <2>2 DEF Wipe, WipeRead, WipeDelete, redis, history
    <3>2. \E w \in {"wipe", "idle"} : \E l : Goto(a, w, l)
      BY <2>2 DEF Wipe, WipeRead, WipeDelete
    <3> QED
      BY <1>1, <1>4, <2>1, <3>1, <3>2, CallCron
  <2>3. CASE WipeDead(a)
    BY <1>1, <1>3, <1>4, <2>3 DEF WipeDead, memory
  <2>4. CASE Delete(a)
    BY <1>1, <1>3, <1>4, <2>4 DEF Delete, DeleteJob, memory
  <2>5. CASE RetryAllNow(a)
    <3>1. UNCHANGED <<now, queue, zset, drain, cron, runs, late>> /\ \E l : Goto(a, "claim", l)
      BY <2>5 DEF RetryAllNow, redis, history
    <3>2. Set(a) # "schedule"
      BY DEF Set
    <3> QED
      BY <1>1, <1>4, <2>1, <3>1, <3>2, CallCron
  <2> QED
    BY <1>7, <2>1, <2>2, <2>3, <2>4, <2>5 DEF Operator
<1>8. ASSUME NEW m \in Mover, EnqueueScheduled(m) PROVE Goal
  <2> DEFINE due == { j \in Id : zset[m[2]][j] /= None /\ zset[m[2]][j] <= now }
  <2>1. UNCHANGED <<now, queue, zset, drain, cron, runs, late>> /\ Goto(m, "claim", SetToSeq(due))
    BY <1>8 DEF EnqueueScheduled, redis, history
  <2>2. m \in Caller
    BY MoverCalls
  <2>3. ToSet(SetToSeq(due)) = due
    <3>1. due \in SUBSET Id
      OBVIOUS
    <3>2. IsFiniteSet(due)
      BY <3>1, FiniteIds
    <3> HIDE DEF due
    <3> QED
      BY <3>2, InSetToSeq
  <2>4. ASSUME NEW o \in Occurrence, Set(m) = "schedule", o \in due PROVE o <= now
    <3>1. m[2] = "schedule"
      BY <2>4 DEF Set
    <3>2. zset["schedule"][o] # None /\ zset["schedule"][o] <= now
      BY <2>4, <3>1
    <3>3. Timely(o) /\ o \in Id /\ o \in Nat
      BY CronFacts
    <3>4. zset["schedule"][o] \in Nat
      BY <1>1, <3>2, <3>3 DEF RedisOK, ZSet
    <3> QED
      BY <1>1, <3>2, <3>3, <3>4 DEF Timely
  <2> HIDE DEF due
  <2>5. \A o \in Occurrence : Timely(o)' /\ Counted(o)'
    BY <2>1, <2>2, <2>3, <2>4, CallCron
  <2> QED
    BY <1>1, <1>4, <2>1, <2>5
<1>9. ASSUME NEW c \in Caller, Move(c) \/ Dies(c) PROVE Goal
  <2>1. UNCHANGED <<now, cron, runs, late>>
    BY <1>9 DEF Move, Dies, Claim, GetMany, PushAll, history
  <2>2. CASE Dies(c)
    <3>1. UNCHANGED <<queue, zset, drain>> /\ Goto(c, "idle", <<>>)
      BY <2>2 DEF Dies
    <3> QED
      BY <1>1, <1>4, <2>1, <3>1, CallCron
  <2>3. CASE Move(c)
    BY <1>1, <1>4, <2>1, <2>3, ClaimCron, GetManyCron, PushAllCron DEF Move
  <2> QED
    BY <1>9, <2>2, <2>3
<1>10. ASSUME NEW p \in Looper, Cleanup(p) PROVE Goal
  <2>1. UNCHANGED <<now, queue, zset, pc, ids, drain, cron, runs, late>>
    BY <1>10 DEF Cleanup, CleanupBegin, CleanupScan, CleanupDelete, redis, history
  <2> QED
    BY <1>1, <1>3, <1>4, <2>1
<1>11. ASSUME NEW p \in Proc, Cron(p) \/ CronFails(p) PROVE Goal
  <2>1. UNCHANGED <<now, claim, pc, ids, drain, runs>>
    BY <1>11 DEF Cron, CronStart, CronReady, CronCheck, CronWrite, CronFails, redis, history
  <2>2. \A q \in Proc : CronDue(q)'
    BY <1>11, CronDueStep
  <2>3. CASE CronStored(p)
    <3>1. \A o \in Occurrence : Timely(o)' /\ Counted(o)' /\ late' \in [Id -> Nat]
      BY <2>1, <2>3, CronStoredCron
    <3>2. cron[p].next \in Occurrence
      BY <1>1, <2>3, CronTypes DEF CronStored, LoopsOK, Crons
    <3> QED
      BY <1>1, <2>1, <2>2, <3>1, <3>2
  <2>4. CASE UNCHANGED <<queue, zset, late>>
    BY <1>1, <1>3, <2>1, <2>2, <2>4
  <2>5. CronStored(p) \/ UNCHANGED <<queue, zset, late>>
    BY <1>11 DEF Cron, CronStart, CronReady, CronCheck, CronWrite, CronFails, redis, history
  <2> QED
    BY <2>3, <2>4, <2>5
<1>12. CASE Drain \/ DrainError
  <2>1. UNCHANGED <<now, cron, late>>
    BY <1>12 DEF Drain, DrainPop, DrainLoad, DrainRun, DrainSuccess, DrainFailure, DrainKill, DrainError, history
  <2>2. CASE DrainPop
    <3>1. runs' = runs
      BY <2>2 DEF DrainPop, history
    <3> QED
      BY <1>1, <1>4, <2>1, <2>2, <3>1, DrainPopCron
  <2>3. CASE DrainRun
    <3>1. runs' \in [Id -> Nat]
      <4>1. drain.id \in Id
        BY <1>1, <2>3, DrainTypes DEF DrainRun
      <4> QED
        BY <1>1, <2>3, <4>1 DEF DrainRun
    <3> QED
      BY <1>1, <1>4, <2>1, <2>3, <3>1, DrainRunCron
  <2>4. CASE DrainLoad \/ DrainSuccess \/ DrainFailure \/ DrainKill \/ DrainError
    <3>1. UNCHANGED <<queue, zset, pc, ids, runs>>
      BY <2>4 DEF DrainLoad, DrainSuccess, DrainFailure, DrainKill, DrainError, redis, history
    <3>2. drain \in Drains
      BY <1>1, DrainTypes
    <3>3. drain'.pc \in {"popped", "loaded"} => drain'.id = drain.id /\ drain.pc \in {"popped", "loaded"}
      BY <2>4, <3>2, DrainIdleOK
         DEF DrainLoad, DrainSuccess, DrainFailure, DrainKill, DrainError, Drains
    <3> QED
      BY <1>1, <1>3, <1>4, <2>1, <3>1, <3>3
  <2> QED
    BY <1>12, <2>2, <2>3, <2>4 DEF Drain
<1>13. CASE Done \/ UNCHANGED vars
  BY <1>1, <1>3, <1>4, <1>13 DEF Done, vars, redis, memory, history
<1> QED
  BY <1>5, <1>6, <1>7, <1>8, <1>9, <1>10, <1>11, <1>12, <1>13 DEF Next

LEMMA CronNext == CronInv /\ [Next]_vars => CronInv'
<1> SUFFICES ASSUME CronInv, [Next]_vars PROVE CronInv'
  OBVIOUS
<1>1. MaintenanceInv'
  BY MaintenanceNext DEF CronInv
<1>2. NotReviving' /\ plan' = plan
  BY NotRevivingNext
<1> QED
  BY <1>1, <1>2, CronSteps DEF CronInv

LEMMA PlanFixed == [Next]_vars => plan' = plan
BY DEF Next, Tick, Enqueue, Operator, Wipe, WipeRead, WipeDelete, WipeDead, Delete, DeleteJob, Revive, ReviveClaim,
       ReviveRead, ReviveCheck, ReviveWrite, ReviveFails, Restore, ReviveDone, RetryAllNow, EnqueueScheduled,
       Move, Claim, GetMany, PushAll, Dies, Cleanup, CleanupBegin, CleanupScan, CleanupDelete, Cron, CronStart,
       CronReady, CronCheck, CronWrite, CronFails, Drain, DrainPop, DrainLoad, DrainRun, DrainSuccess,
       DrainFailure, DrainKill, DrainError, Done, vars

CronSafe == "revive" \notin plan => CronInv

LEMMA CronSafeNext == CronSafe /\ [Next]_vars => CronSafe'
BY CronNext, PlanFixed DEF CronSafe

LEMMA CronSafeImplies == CronSafe => CronRunsOnce
<1> SUFFICES ASSUME CronSafe, "revive" \notin plan, NEW o \in Occurrence PROVE runs[o] <= 1 + late[o]
  BY DEF CronRunsOnce
<1>1. /\ Copies(queue, o) \in Nat /\ Cardinality(Carriers(o)) \in Nat /\ Popped(o) \in {0, 1}
      /\ runs[o] \in Nat /\ late[o] \in Nat /\ Scheduled(o) \in {0, 1} /\ Counted(o)
  BY CronFacts DEF CronSafe
<1>2. Left(o) + Scheduled(o) <= 1 + late[o]
  BY <1>1 DEF Counted
<1> QED
  BY <1>1, <1>2 DEF Left

(* CronRunsOnce: however many processes enqueue an occurrence, move it and *)
(* crash, it is executed at most once, and once more for each time it was  *)
(* enqueued after it was due, unless operators revive what failed.         *)
THEOREM OccurrencesRunOnce == Spec => []CronRunsOnce
<1>1. Init => CronSafe
  BY CronInit DEF CronSafe
<1>2. Spec => []CronSafe
  BY <1>1, CronSafeNext, PTL DEF Spec
<1> QED
  BY <1>2, CronSafeImplies, PTL

---------------------------------------------------------------------------
(* NothingHidden: what a visitor reads while the lists change *)

(* An element of s that is in t as well is no nearer the newest end there. *)
Onward(s, t, M) ==
    \A i \in DOMAIN s, k \in DOMAIN t : s[i] \in M /\ t[k] \in M => Len(s) - i <= Len(t) - k

LEMMA OnwardSame == ASSUME NEW S, NEW s \in Seq(S), NEW M, Once(s, M) PROVE Onward(s, s, M)
<1> SUFFICES ASSUME NEW i \in DOMAIN s, NEW k \in DOMAIN s, s[i] \in M, s[k] \in M
             PROVE  Len(s) - i <= Len(s) - k
  BY DEF Onward
<1>1. i = k /\ i \in Nat /\ Len(s) \in Nat
  BY DEF Once
<1> QED
  BY <1>1

LEMMA OnwardEmpty == \A s, M : Onward(s, <<>>, M)
BY DEF Onward

LEMMA OnwardTail ==
    ASSUME NEW S, NEW s \in Seq(S), s # <<>>, NEW M, Once(s, M) PROVE Onward(s, Tail(s), M)
<1> DEFINE t == Tail(s)
<1> SUFFICES ASSUME NEW i \in DOMAIN s, NEW k \in DOMAIN t, s[i] \in M, t[k] \in M
             PROVE  Len(s) - i <= Len(t) - k
  BY DEF Onward
<1>1. Len(s) \in Nat \ {0} /\ Len(t) = Len(s) - 1 /\ DOMAIN s = 1..Len(s) /\ DOMAIN t = 1..(Len(s) - 1)
      /\ \A n \in 1..(Len(s) - 1) : t[n] = s[n + 1]
  OBVIOUS
<1>2. k + 1 \in DOMAIN s /\ s[k + 1] \in M
  BY <1>1
<1>3. i = k + 1
  BY <1>2 DEF Once
<1> HIDE DEF t
<1> QED
  BY <1>1, <1>3

LEMMA OnwardConcat ==
    ASSUME NEW S, NEW s \in Seq(S), NEW u \in Seq(S), NEW M, Once(s \o u, M)
    PROVE  Onward(s, s \o u, M)
<1> DEFINE t == s \o u
<1> SUFFICES ASSUME NEW i \in DOMAIN s, NEW k \in DOMAIN t, s[i] \in M, t[k] \in M
             PROVE  Len(s) - i <= Len(t) - k
  BY DEF Onward
<1>1. /\ Len(s) \in Nat /\ Len(u) \in Nat /\ Len(t) = Len(s) + Len(u)
      /\ DOMAIN s = 1..Len(s) /\ \A n \in 1..Len(s) : t[n] = s[n]
      /\ t \in Seq(S)
  BY ConcatProperties
<1>2. DOMAIN t = 1..(Len(s) + Len(u))
  BY <1>1
<1> HIDE DEF t
<1>3. i \in DOMAIN t /\ t[i] \in M
  BY <1>1, <1>2
<1>4. i = k
  BY <1>3 DEF Once, t
<1> QED
  BY <1>1, <1>2, <1>4

LEMMA OnwardBefore ==
    ASSUME NEW S, NEW s \in Seq(S), NEW u \in Seq(S), NEW M, Once(u \o s, M)
    PROVE  Onward(s, u \o s, M)
<1> DEFINE t == u \o s
<1> SUFFICES ASSUME NEW i \in DOMAIN s, NEW k \in DOMAIN t, s[i] \in M, t[k] \in M
             PROVE  Len(s) - i <= Len(t) - k
  BY DEF Onward
<1>1. /\ Len(s) \in Nat /\ Len(u) \in Nat /\ Len(t) = Len(u) + Len(s)
      /\ DOMAIN s = 1..Len(s) /\ \A n \in 1..Len(s) : t[Len(u) + n] = s[n]
      /\ t \in Seq(S)
  BY ConcatProperties
<1>2. DOMAIN t = 1..(Len(u) + Len(s))
  BY <1>1
<1> HIDE DEF t
<1>3. Len(u) + i \in DOMAIN t /\ t[Len(u) + i] \in M
  BY <1>1, <1>2
<1>4. Len(u) + i = k
  BY <1>3 DEF Once, t
<1> QED
  BY <1>1, <1>2, <1>4

(* LPUSH and LTRIM *)
LEMMA OnwardTrim ==
    ASSUME NEW S, NEW s \in Seq(S), NEW e \in S, NEW M, Once(s, M),
           e \in M => ToSet(s) \cap M = {}, NEW cut \in 0..(Len(s) + 1)
    PROVE  Onward(s, SubSeq(Append(s, e), cut + 1, Len(s) + 1), M)
<1> DEFINE all == Append(s, e)
           t == SubSeq(all, cut + 1, Len(s) + 1)
<1> SUFFICES ASSUME NEW i \in DOMAIN s, NEW k \in DOMAIN t, s[i] \in M, t[k] \in M
             PROVE  Len(s) - i <= Len(t) - k
  BY DEF Onward
<1>1. /\ Len(s) \in Nat /\ all \in Seq(S) /\ Len(all) = Len(s) + 1 /\ DOMAIN s = 1..Len(s)
      /\ \A n \in 1..Len(s) : all[n] = s[n]
      /\ all[Len(s) + 1] = e
  OBVIOUS
<1> HIDE DEF all
<1>2. /\ Len(t) = (Len(s) + 1) - cut /\ DOMAIN t = 1..((Len(s) + 1) - cut)
      /\ \A n \in 1..((Len(s) + 1) - cut) : t[n] = all[cut + n]
  <2>1. cut + 1 \in 1..(Len(all) + 1) /\ Len(s) + 1 \in ((cut + 1) - 1)..Len(all)
    BY <1>1
  <2>2. /\ t \in Seq(S) /\ Len(t) = (Len(s) + 1) - (cut + 1) + 1
        /\ \A n \in 1..((Len(s) + 1) - (cut + 1) + 1) : t[n] = all[(cut + 1) + n - 1]
    BY <1>1, <2>1, SubSeqProperties
  <2>3. (Len(s) + 1) - (cut + 1) + 1 = (Len(s) + 1) - cut
    BY <1>1
  <2>4. \A n \in 1..((Len(s) + 1) - cut) : (cut + 1) + n - 1 = cut + n
    BY <1>1
  <2> QED
    BY <2>2, <2>3, <2>4
<1> HIDE DEF t
<1>3. s[i] \in ToSet(s)
  BY DEF ToSet
<1>4. cut + k \in 1..(Len(s) + 1) /\ all[cut + k] \in M
  BY <1>1, <1>2
<1>5. cut + k # Len(s) + 1
  BY <1>1, <1>3, <1>4
<1>6. cut + k \in DOMAIN s /\ s[cut + k] \in M
  BY <1>1, <1>4, <1>5
<1>7. cut + k = i
  BY <1>6 DEF Once
<1> QED
  BY <1>1, <1>2, <1>7

---------------------------------------------------------------------------
LEMMA QueueSteps ==
    ASSUME OnceInv, [Next]_vars
    PROVE  \/ queue' \in {queue, <<>>}
           \/ queue # <<>> /\ queue' = Tail(queue)
           \/ \E u \in Seq(Id) : queue' = queue \o u
<1>1. queue \in Seq(Id) /\ CallersOK /\ LoopsOK /\ RedisOK
  BY OnceIds
<1>2. ASSUME NEW x \in Id, queue' = Append(queue, x) PROVE \E u \in Seq(Id) : queue' = queue \o u
  <2>1. <<x>> \in Seq(Id) /\ Append(queue, x) = queue \o <<x>>
    BY <1>1
  <2> QED
    BY <1>2, <2>1
<1> DEFINE Goal == \/ queue' \in {queue, <<>>}
                   \/ queue # <<>> /\ queue' = Tail(queue)
                   \/ \E u \in Seq(Id) : queue' = queue \o u
<1>3. ASSUME NEW j \in Job, Enqueue(j) PROVE Goal
  BY <1>2, <1>3 DEF Enqueue, Id
<1>4. ASSUME NEW a \in Admin, Operator(a) PROVE Goal
  <2>1. ASSUME pc[a] = "revive_write", Revived(Head(ids[a])) PROVE Goal
    <3>1. ids[a] \in Seq(Entries) /\ ids[a] # <<>>
      BY <1>1, <2>1, AdminCalls DEF CallersOK, CallerOK, Reviving
    <3>2. Head(ids[a]) \in Entries /\ Head(ids[a]).id \in Id
      <4>1. Head(ids[a]) \in Entries
        BY <3>1, InTail
      <4> QED
        BY <4>1 DEF Entries
    <3> QED
      BY <1>2, <2>1, <3>2 DEF Revived
  <2>2. CASE ReviveWrite(a) \/ ReviveFails(a)
    <3>1. queue' = queue \/ (pc[a] = "revive_write" /\ Revived(Head(ids[a])))
      BY <2>2 DEF ReviveWrite, ReviveFails
    <3> QED
      BY <2>1, <3>1
  <2>3. CASE ~(ReviveWrite(a) \/ ReviveFails(a))
    BY <1>4, <2>3 DEF Operator, Wipe, WipeRead, WipeDelete, WipeDead, Delete, DeleteJob, Revive, ReviveClaim,
       ReviveRead, ReviveCheck, Restore, ReviveDone, RetryAllNow, redis
  <2> QED
    BY <2>2, <2>3
<1>5. ASSUME NEW c \in Caller, Move(c) \/ Dies(c) PROVE Goal
  <2>1. CASE PushAll(c)
    <3>1. ids[c] \in Seq(Id)
      BY <1>1, <2>1 DEF CallersOK, CallerOK, Moving, PushAll
    <3> QED
      BY <2>1, <3>1 DEF PushAll
  <2> QED
    BY <1>5, <2>1 DEF Move, Dies, Claim, GetMany, redis
<1>6. ASSUME NEW p \in Proc, Cron(p) \/ CronFails(p) PROVE Goal
  <2>1. CASE CronStored(p)
    <3>1. cron[p].next \in Id
      BY <1>1, <2>1, CronTypes DEF CronStored, LoopsOK, Crons, Id
    <3> QED
      BY <1>2, <2>1, <3>1 DEF CronStored
  <2>2. CronStored(p) \/ queue' = queue
    BY <1>6 DEF Cron, CronStart, CronReady, CronCheck, CronWrite, CronFails, redis
  <2> QED
    BY <2>1, <2>2
<1>7. CASE Drain \/ DrainError
  BY <1>7 DEF Drain, DrainPop, DrainLoad, DrainRun, DrainSuccess, DrainFailure, DrainKill, DrainError, redis
<1>8. CASE Tick \/ Done \/ UNCHANGED vars
  BY <1>8 DEF Tick, Done, vars, redis
<1>9. ASSUME NEW m \in Mover, EnqueueScheduled(m) PROVE Goal
  BY <1>9 DEF EnqueueScheduled, redis
<1>10. ASSUME NEW p \in Looper, Cleanup(p) PROVE Goal
  BY <1>10 DEF Cleanup, CleanupBegin, CleanupScan, CleanupDelete, redis
<1> QED
  BY <1>3, <1>4, <1>5, <1>6, <1>7, <1>8, <1>9, <1>10 DEF Next

LEMMA DeadSteps ==
    ASSUME OnceInv, [Next]_vars
    PROVE  \/ dead' \in {dead, <<>>}
           \/ \E u \in Seq(Entries) : dead' = u \o dead
           \/ DrainKill
<1>1. CallersOK
  BY OnceIds
<1>2. ASSUME NEW a \in Admin, Operator(a)
      PROVE  dead' \in {dead, <<>>} \/ \E u \in Seq(Entries) : dead' = u \o dead
  <2>1. CASE Restore(a)
    <3>1. ids[a] \in Seq(Entries)
      BY <1>1, <2>1, AdminCalls DEF CallersOK, CallerOK, Reviving, Restore
    <3>2. Reverse(ids[a]) \in Seq(Entries)
      BY <3>1, InReverse
    <3> QED
      BY <2>1, <3>2 DEF Restore
  <2> QED
    BY <1>2, <2>1 DEF Operator, Wipe, WipeRead, WipeDelete, WipeDead, Delete, DeleteJob, Revive, ReviveClaim,
       ReviveRead, ReviveCheck, ReviveWrite, ReviveFails, ReviveDone, RetryAllNow, redis
<1>3. CASE ~(\E a \in Admin : Operator(a)) /\ ~DrainKill
  BY <1>3 DEF Next, Tick, Enqueue, EnqueueScheduled,
       Move, Claim, GetMany, PushAll, Dies, Cleanup, CleanupBegin, CleanupScan, CleanupDelete, Cron, CronStart,
       CronReady, CronCheck, CronWrite, CronFails, Drain, DrainPop, DrainLoad, DrainRun, DrainSuccess,
       DrainFailure, DrainError, Done, vars, redis
<1> QED
  BY <1>2, <1>3

LEMMA GrowNext == [Next]_vars => doubled \subseteq doubled' /\ stranded \subseteq stranded'
BY DEF Next, Tick, Enqueue, Operator, Wipe, WipeRead, WipeDelete, WipeDead, Delete, DeleteJob, Revive, ReviveClaim,
       ReviveRead, ReviveCheck, ReviveWrite, ReviveFails, Restore, ReviveDone, RetryAllNow, EnqueueScheduled,
       Move, Claim, GetMany, PushAll, Dies, Cleanup, CleanupBegin, CleanupScan, CleanupDelete, Cron, CronStart,
       CronReady, CronCheck, CronWrite, CronFails, Drain, DrainPop, DrainLoad, DrainRun, DrainSuccess,
       DrainFailure, DrainKill, DrainError, Done, vars, history

LEMMA SureSingle ==
    ASSUME OnceInv, NEW j \in Job, j \notin doubled \cup stranded PROVE Apart(j) /\ Unrepeated(j)
BY DEF OnceInv, Single

LEMMA QueueOnward ==
    ASSUME OnceInv, OnceInv', [Next]_vars, NEW j \in Job, j \notin doubled' \cup stranded'
    PROVE  Onward(queue, queue', {j})
<1>1. queue \in Seq(Id) /\ queue' \in Seq(Id)
  BY DEF OnceInv, MaintenanceInv, RedisOK
<1>2. j \notin doubled \cup stranded
  BY GrowNext
<1>3. Once(queue, {j})
  BY <1>2, SureSingle DEF Unrepeated
<1>4. Once(queue', {j})
  BY DEF OnceInv, Single, Unrepeated
<1>5. ASSUME NEW u \in Seq(Id), queue' = queue \o u PROVE Onward(queue, queue', {j})
  <2>1. Once(queue \o u, {j})
    BY <1>4, <1>5
  <2> QED
    BY <1>1, <1>5, <2>1, OnwardConcat
<1>6. CASE queue' = queue
  BY <1>1, <1>3, <1>6, OnwardSame
<1>7. CASE queue' = <<>>
  BY <1>7, OnwardEmpty
<1>8. CASE queue # <<>> /\ queue' = Tail(queue)
  BY <1>1, <1>3, <1>8, OnwardTail
<1> QED
  BY <1>5, <1>6, <1>7, <1>8, QueueSteps

LEMMA DeadOnward ==
    ASSUME OnceInv, OnceInv', [Next]_vars, NEW j \in Job, j \notin doubled' \cup stranded'
    PROVE  Onward(dead, dead', EntriesOf(j))
<1>1. dead \in Seq(Entries) /\ dead' \in Seq(Entries)
  BY DEF OnceInv, MaintenanceInv, RedisOK
<1>2. j \notin doubled \cup stranded
  BY GrowNext
<1>3. Once(dead, EntriesOf(j)) /\ Apart(j)
  BY <1>2, SureSingle DEF Unrepeated
<1>4. Once(dead', EntriesOf(j))
  BY DEF OnceInv, Single, Unrepeated
<1>5. ASSUME NEW u \in Seq(Entries), dead' = u \o dead PROVE Onward(dead, dead', EntriesOf(j))
  <2>1. Once(u \o dead, EntriesOf(j))
    BY <1>4, <1>5
  <2> QED
    BY <1>1, <1>5, <2>1, OnwardBefore
<1>6. CASE dead' = dead
  BY <1>1, <1>3, <1>6, OnwardSame
<1>7. CASE dead' = <<>>
  BY <1>7, OnwardEmpty
<1>8. CASE DrainKill
  <2> DEFINE e == Entry(drain.id, drain.created)
             all == Append(dead, e)
             cut == IF Len(all) > DeadLimit THEN Len(all) - DeadLimit ELSE 0
  <2>1. drain.pc = "failed" /\ dead' = SubSeq(all, cut + 1, Len(all))
    BY <1>8 DEF DrainKill
  <2>2. drain \in Drains /\ drain.id \in Id
    BY <2>1, OnceIds, DrainTypes
  <2>3. e \in Entries /\ e.id = drain.id
    BY <2>2 DEF Entry, Entries, Drains
  <2> HIDE DEF e
  <2>4. Len(all) = Len(dead) + 1 /\ Len(dead) \in Nat /\ DeadLimit \in Nat
    BY <1>1, <2>3, TimeAssumption
  <2>5. cut \in 0..(Len(dead) + 1)
    BY <2>4
  <2>6. e \in EntriesOf(j) => ToSet(dead) \cap EntriesOf(j) = {}
    <3>1. drain.id = j => At("drain", "drain", j)
      BY DEF At
    <3>2. j \in DeadIds(dead) => At("dead", "dead", j)
      BY DEF At
    <3>3. ~(drain.id = j /\ j \in DeadIds(dead))
      BY <1>3, <3>1, <3>2 DEF Apart
    <3>4. e \in EntriesOf(j) => drain.id = j
      BY <2>3 DEF EntriesOf
    <3> QED
      BY <1>1, <3>3, <3>4, EntryHas
  <2> HIDE DEF cut
  <2>7. Onward(dead, SubSeq(Append(dead, e), cut + 1, Len(dead) + 1), EntriesOf(j))
    BY <1>1, <1>3, <2>3, <2>5, <2>6, OnwardTrim
  <2> QED
    BY <2>1, <2>4, <2>7
<1> QED
  BY <1>5, <1>6, <1>7, <1>8, DeadSteps

---------------------------------------------------------------------------
(* Lists as a visitor sees them *)

LEMMA KindNames ==
    /\ {"queue", "dead", "schedule", "retry"} = ListKind
    /\ "queue" \notin ZSet /\ "dead" \notin ZSet
    /\ None \notin ListKind
BY PageAssumption DEF ListKind, ZSet

LEMMA FromNewest ==
    ASSUME NEW S, NEW s \in Seq(S)
    PROVE  /\ DOMAIN Reverse(s) = 1..Len(s) /\ Len(s) \in Nat /\ DOMAIN s = 1..Len(s)
           /\ \A i \in 1..Len(s) : (Len(s) - i) + 1 \in 1..Len(s) /\ Reverse(s)[i] = s[(Len(s) - i) + 1]
BY DEF Reverse

LEMMA QueueListed ==
    ASSUME queue \in Seq(Id)
    PROVE  /\ DOMAIN Listed["queue"] = 1..Len(queue) /\ Len(queue) \in Nat /\ DOMAIN queue = 1..Len(queue)
           /\ \A i \in 1..Len(queue) :
                (Len(queue) - i) + 1 \in 1..Len(queue) /\ Listed["queue"][i] = queue[(Len(queue) - i) + 1]
<1>1. Listed["queue"] = Reverse(queue)
  BY KindNames DEF Listed, IdsOf
<1> QED
  BY <1>1, FromNewest

LEMMA DeadListed ==
    ASSUME dead \in Seq(Entries)
    PROVE  /\ DOMAIN Listed["dead"] = 1..Len(dead) /\ Len(dead) \in Nat /\ DOMAIN dead = 1..Len(dead)
           /\ \A i \in 1..Len(dead) :
                (Len(dead) - i) + 1 \in 1..Len(dead) /\ Listed["dead"][i] = dead[(Len(dead) - i) + 1].id
<1>1. Listed["dead"] = [i \in DOMAIN Reverse(dead) |-> Reverse(dead)[i].id]
  BY KindNames DEF Listed, IdsOf
<1> QED
  BY <1>1, FromNewest

LEMMA ByScoreList ==
    ASSUME NEW S, NEW score
    PROVE  ByScore(S, score) = [n \in DOMAIN ByScore(S, score) |-> ByScore(S, score)[n]]
<1> DEFINE s == SetToSeq(S)
           before(i) == { k \in DOMAIN s : \/ score[s[k]] < score[s[i]]
                                           \/ score[s[k]] = score[s[i]] /\ k < i }
           at(n) == s[CHOOSE i \in DOMAIN s : Cardinality(before(i)) = n - 1]
<1>1. ByScore(S, score) = [n \in DOMAIN s |-> at(n)]
  BY DEF ByScore
<1> HIDE DEF at, s
<1> QED
  BY <1>1

LEMMA SortedListed ==
    ASSUME NEW kind \in ZSet
    PROVE  \E n \in Nat : DOMAIN Listed[kind] = 1..n
<1> DEFINE all == { j \in Id : zset[kind][j] /= None }
           s == SetToSeq(all)
<1>1. all \in SUBSET Id
  OBVIOUS
<1>2. IsFiniteSet(all)
  BY <1>1, FiniteIds
<1> HIDE DEF all
<1>3. s \in Seq(all)
  BY <1>2, InSetToSeq
<1>4. DOMAIN Listed[kind] = DOMAIN s
  <2>1. Listed[kind] = ByScore(all, zset[kind])
    BY KindNames DEF Listed, IdsOf, all, ListKind
  <2> HIDE DEF s
  <2> QED
    BY <2>1 DEF ByScore, s
<1> HIDE DEF s
<1> QED
  BY <1>3, <1>4

LEMMA ListedSeq ==
    ASSUME OnceInv, NEW kind \in ListKind
    PROVE  Listed[kind] \in Seq(ToSet(Listed[kind])) /\ DOMAIN Listed[kind] = 1..Len(Listed[kind])
<1>1. queue \in Seq(Id) /\ dead \in Seq(Entries)
  BY OnceIds
<1>2. \E n \in Nat : DOMAIN Listed[kind] = 1..n
  BY <1>1, QueueListed, DeadListed, SortedListed, KindNames DEF ListKind
<1>3. PICK n \in Nat : DOMAIN Listed[kind] = 1..n
  BY <1>2
<1>4. Listed[kind] = [i \in DOMAIN Listed[kind] |-> Listed[kind][i]]
  <2>1. CASE kind = "queue"
    BY <2>1, KindNames DEF Listed, IdsOf, Reverse
  <2>2. CASE kind = "dead"
    BY <2>2, KindNames DEF Listed, IdsOf
  <2>3. CASE kind \in ZSet
    <3>1. Listed[kind] = ByScore({ j \in Id : zset[kind][j] /= None }, zset[kind])
      BY <2>3, KindNames DEF Listed, IdsOf, ListKind
    <3> QED
      BY <3>1, ByScoreList
  <2> QED
    BY <2>1, <2>2, <2>3 DEF ListKind
<1>5. Listed[kind] \in [1..n -> ToSet(Listed[kind])]
  BY <1>3, <1>4 DEF ToSet
<1> QED
  BY <1>5

LEMMA ListOnward ==
    ASSUME OnceInv, OnceInv', [Next]_vars, NEW kind \in {"queue", "dead"},
           NEW j \in Job, j \notin doubled' \cup stranded',
           NEW i \in DOMAIN Listed[kind], Listed[kind][i] = j,
           NEW k \in DOMAIN Listed'[kind], Listed'[kind][k] = j
    PROVE  i <= k /\ i \in Nat /\ k \in Nat
<1>1. CASE kind = "queue"
  <2>1. queue \in Seq(Id) /\ queue' \in Seq(Id)
    BY DEF OnceInv, MaintenanceInv, RedisOK
  <2>2. /\ DOMAIN Listed["queue"] = 1..Len(queue) /\ Len(queue) \in Nat /\ DOMAIN queue = 1..Len(queue)
        /\ \A n \in 1..Len(queue) :
             (Len(queue) - n) + 1 \in 1..Len(queue) /\ Listed["queue"][n] = queue[(Len(queue) - n) + 1]
    BY <2>1, QueueListed
  <2>3. /\ DOMAIN Listed'["queue"] = 1..Len(queue') /\ Len(queue') \in Nat /\ DOMAIN queue' = 1..Len(queue')
        /\ \A n \in 1..Len(queue') :
             (Len(queue') - n) + 1 \in 1..Len(queue') /\ Listed'["queue"][n] = queue'[(Len(queue') - n) + 1]
    <3>1. Listed'["queue"] = Reverse(queue')
      BY KindNames DEF Listed, IdsOf
    <3> QED
      BY <2>1, <3>1, FromNewest
  <2>4. (Len(queue) - i) + 1 \in DOMAIN queue /\ queue[(Len(queue) - i) + 1] = j /\ i \in Nat
    BY <1>1, <2>2
  <2>5. (Len(queue') - k) + 1 \in DOMAIN queue' /\ queue'[(Len(queue') - k) + 1] = j /\ k \in Nat
    BY <1>1, <2>3
  <2>6. Len(queue) - ((Len(queue) - i) + 1) <= Len(queue') - ((Len(queue') - k) + 1)
    <3>1. Onward(queue, queue', {j})
      BY QueueOnward
    <3> QED
      BY <2>4, <2>5, <3>1 DEF Onward
  <2> QED
    BY <2>2, <2>3, <2>4, <2>5, <2>6
<1>2. CASE kind = "dead"
  <2>1. dead \in Seq(Entries) /\ dead' \in Seq(Entries)
    BY DEF OnceInv, MaintenanceInv, RedisOK
  <2>2. /\ DOMAIN Listed["dead"] = 1..Len(dead) /\ Len(dead) \in Nat /\ DOMAIN dead = 1..Len(dead)
        /\ \A n \in 1..Len(dead) :
             (Len(dead) - n) + 1 \in 1..Len(dead) /\ Listed["dead"][n] = dead[(Len(dead) - n) + 1].id
    BY <2>1, DeadListed
  <2>3. /\ DOMAIN Listed'["dead"] = 1..Len(dead') /\ Len(dead') \in Nat /\ DOMAIN dead' = 1..Len(dead')
        /\ \A n \in 1..Len(dead') :
             (Len(dead') - n) + 1 \in 1..Len(dead') /\ Listed'["dead"][n] = dead'[(Len(dead') - n) + 1].id
    <3>1. Listed'["dead"] = [n \in DOMAIN Reverse(dead') |-> Reverse(dead')[n].id]
      BY KindNames DEF Listed, IdsOf
    <3> QED
      BY <2>1, <3>1, FromNewest
  <2>4. (Len(dead) - i) + 1 \in DOMAIN dead /\ dead[(Len(dead) - i) + 1].id = j /\ i \in Nat
    BY <1>2, <2>2
  <2>5. (Len(dead') - k) + 1 \in DOMAIN dead' /\ dead'[(Len(dead') - k) + 1].id = j /\ k \in Nat
    BY <1>2, <2>3
  <2>6. /\ dead[(Len(dead) - i) + 1] \in EntriesOf(j)
        /\ dead'[(Len(dead') - k) + 1] \in EntriesOf(j)
    <3>1. \A x \in Entries : x.id = j => x \in EntriesOf(j)
      BY DEF Entries, EntriesOf
    <3>2. dead[(Len(dead) - i) + 1] \in Entries /\ dead'[(Len(dead') - k) + 1] \in Entries
      BY <2>1, <2>4, <2>5
    <3> QED
      BY <2>4, <2>5, <3>1, <3>2
  <2>7. Len(dead) - ((Len(dead) - i) + 1) <= Len(dead') - ((Len(dead') - k) + 1)
    <3>1. Onward(dead, dead', EntriesOf(j))
      BY DeadOnward
    <3> QED
      BY <2>4, <2>5, <2>6, <3>1 DEF Onward
  <2> QED
    BY <2>2, <2>3, <2>4, <2>5, <2>7
<1> QED
  BY <1>1, <1>2


---------------------------------------------------------------------------
(* The inductive invariant of the views *)

(* the jobs that following the pages must show *)
Sure(w) == IF w.kind \in ZSet THEN IF w.changed THEN {} ELSE w.stayed
           ELSE (w.stayed \cap Job) \ (doubled \cup stranded)

Paging == {"fetch", "more", "end"}
Finding == {"count", "search", "missing"}

(* Job j, at place i of its list now, is shown, is on the page being read, *)
(* or is to come on a later one.                                           *)
Reached(w, j, i) ==
    \/ j \in w.shown
    \/ w.pc = "fetch" /\ \E k \in 1..PageSize : k <= Len(w.ids) /\ w.ids[k] = j
    \/ /\ w.pc = "more" \/ (w.pc = "fetch" /\ Len(w.ids) > PageSize)
       /\ w.page * PageSize < i

PagingOK(w) ==
    /\ w.kind \in ListKind
    /\ w.page \in Nat \ {0}
    /\ w.stayed \subseteq Present[w.kind]
    /\ w.pc = "fetch" => w.ids \in Seq(ToSet(w.ids))
    /\ ~w.gap => \A j \in Sure(w) : \A i \in DOMAIN Listed[w.kind] : Listed[w.kind][i] = j => Reached(w, j, i)

FindingOK(w) ==
    /\ w.kind = None
    /\ w.id \in Id
    /\ ~w.changed =>
         /\ jobs[w.id] = None
         /\ w.pc = "search" => w.count = Len(dead)
         /\ w.pc = "missing" => w.id \notin DeadIds(dead)

ViewOK(w) ==
    /\ DOMAIN w = DOMAIN NoView
    /\ w.pc \in Paging \cup Finding \cup {"closed", "found"}
    /\ w.pc \in Paging => PagingOK(w)
    /\ w.pc \in Finding => FindingOK(w)

DashboardInv == OnceInv /\ DOMAIN view = Visitor /\ \A v \in Visitor : ViewOK(view[v])

LEMMA OnceFrame == ASSUME OnceInv, UNCHANGED <<plan, now, redis, memory, history>> PROVE OnceInv'
<1>1. UNCHANGED <<plan, now, jobs, queue, zset, dead, claim, processing, pc, ids, scan, cron, drain,
                  accepted, settled, removed, stranded, doubled>>
  BY DEF redis, memory, history
<1>2. RedisOK' /\ CallersOK' /\ LoopsOK'
  <2>1. RedisOK'
    BY <1>1, OnceIds DEF RedisOK
  <2>2. CallersOK'
    <3>1. \A c \in Caller : CallerOK(c) => CallerOK(c)'
      BY <1>1 DEF CallerOK
    <3> QED
      BY <1>1, <3>1, OnceIds DEF CallersOK
  <2>3. LoopsOK'
    BY <1>1, OnceIds DEF LoopsOK, ScanOK, Expired
  <2> QED
    BY <2>1, <2>2, <2>3
<1>3. (\A j \in Id : Followed(j)) => \A j \in Id : Followed(j)'
  BY <1>1 DEF Followed, Placed
<1>4. (\A j \in accepted : Held(j)) => \A j \in accepted' : Held(j)'
  BY <1>1 DEF Held, Unrevived, DeadIds, Expired
<1>5. MaintenanceInv'
  BY <1>2, <1>3, <1>4 DEF OnceInv, MaintenanceInv
<1>6. ASSUME NEW j \in Job PROVE Single(j)'
  BY <1>1, StillStep
<1> QED
  BY <1>5, <1>6 DEF OnceInv

LEMMA ListsFrame ==
    ASSUME UNCHANGED <<jobs, queue, zset, dead>> PROVE Listed' = Listed /\ Present' = Present
BY DEF Listed, Present, IdsOf, Readable

LEMMA ViewFrame ==
    ASSUME NEW v, ViewOK(view[v]), view'[v] = view[v], UNCHANGED <<jobs, queue, zset, dead, doubled, stranded>>
    PROVE  ViewOK(view[v])'
<1>1. Listed' = Listed /\ Present' = Present
  BY ListsFrame
<1>2. Sure(view[v])' = Sure(view[v])
  BY DEF Sure
<1>3. \A j, i : Reached(view[v], j, i)' <=> Reached(view[v], j, i)
  BY DEF Reached
<1>4. PagingOK(view[v]) => PagingOK(view[v])'
  BY <1>1, <1>2, <1>3 DEF PagingOK
<1>5. FindingOK(view[v]) => FindingOK(view[v])'
  BY DEF FindingOK
<1> QED
  BY <1>4, <1>5 DEF ViewOK, NoView

LEMMA SeqOwn == ASSUME NEW S, NEW s \in Seq(S) PROVE s \in Seq(ToSet(s)) /\ DOMAIN s = 1..Len(s) /\ Len(s) \in Nat
<1>1. Len(s) \in Nat /\ DOMAIN s = 1..Len(s) /\ s = [i \in 1..Len(s) |-> s[i]]
  OBVIOUS
<1>2. \A i \in 1..Len(s) : s[i] \in ToSet(s)
  BY <1>1 DEF ToSet
<1>3. s \in [1..Len(s) -> ToSet(s)]
  BY <1>1, <1>2
<1> QED
  BY <1>1, <1>3

(* What a page reads of a list: what it shows, or there is one more. *)
LEMMA ReadPage ==
    ASSUME NEW S, NEW list \in Seq(S), NEW page \in Nat \ {0}, NEW i \in 1..Len(list),
           (page - 1) * PageSize < i
    PROVE  LET l == ListOpts(list, page) IN
           \/ \E k \in 1..PageSize : k <= Len(l) /\ l[k] = list[i]
           \/ Len(l) > PageSize /\ page * PageSize < i
<1> DEFINE a == (page - 1) * PageSize
           m == IF a + PageSize + 1 < Len(list) THEN a + PageSize + 1 ELSE Len(list)
           l == SubSeq(list, a + 1, m)
<1>1. PageSize \in Nat \ {0} /\ Len(list) \in Nat
  BY PageAssumption
<1>2. a \in Nat /\ page * PageSize = a + PageSize
  BY <1>1
<1>3. ListOpts(list, page) = l
  BY <1>2 DEF ListOpts, Slice
<1>4. a < i
  OBVIOUS
<1> HIDE DEF a
<1>5. m \in Nat /\ i <= Len(list) /\ i \in Nat /\ m <= Len(list) /\ (m = a + PageSize + 1 \/ m = Len(list))
      /\ (Len(list) <= a + PageSize + 1 => m = Len(list)) /\ a + 1 <= m
      /\ (Len(list) > a + PageSize + 1 => m = a + PageSize + 1)
  BY <1>1, <1>2, <1>4
<1> HIDE DEF m
<1>6. Len(l) = m - a /\ \A k \in 1..(m - a) : l[k] = list[a + k]
  <2>1. a + 1 \in Int /\ m \in Int /\ \A n \in (a + 1)..m : list[n] \in S
    BY <1>2, <1>5
  <2>2. /\ Len(l) = IF a + 1 <= m THEN m - (a + 1) + 1 ELSE 0
        /\ \A k \in 1..(m - (a + 1) + 1) : l[k] = list[(a + 1) + k - 1]
    BY <2>1, SubSeqProperties
  <2>3. m - (a + 1) + 1 = m - a /\ \A k \in 1..(m - a) : (a + 1) + k - 1 = a + k
    BY <1>2, <1>5
  <2> QED
    BY <1>5, <2>2, <2>3
<1> HIDE DEF l
<1>7. CASE i <= a + PageSize
  <2>1. i - a \in 1..PageSize /\ i - a <= m - a /\ a + (i - a) = i /\ i - a \in 1..(m - a)
    BY <1>1, <1>2, <1>4, <1>5, <1>7
  <2>2. l[i - a] = list[i] /\ i - a <= Len(l)
    BY <1>6, <2>1
  <2> QED
    BY <1>3, <2>1, <2>2
<1>8. CASE ~(i <= a + PageSize)
  <2>1. m = a + PageSize + 1
    BY <1>1, <1>2, <1>5, <1>8
  <2>2. Len(l) > PageSize /\ page * PageSize < i
    BY <1>1, <1>2, <1>5, <1>6, <1>8, <2>1
  <2> QED
    BY <1>3, <2>2
<1> QED
  BY <1>7, <1>8

LEMMA PageSeq ==
    ASSUME NEW S, NEW list \in Seq(S), NEW page \in Nat \ {0}
    PROVE  ListOpts(list, page) \in Seq(ToSet(ListOpts(list, page)))
<1>1. PageSize \in Nat \ {0} /\ Len(list) \in Nat /\ (page - 1) * PageSize \in Nat /\ page * PageSize \in Nat
  BY PageAssumption
<1>2. ListOpts(list, page) \in Seq(S)
  BY <1>1 DEF ListOpts, Slice
<1> QED
  BY <1>2, SeqOwn


---------------------------------------------------------------------------
(* Steps of visitors *)

LEMMA RowsView ==
    ASSUME OnceInv, NEW v \in Visitor, DOMAIN view = Visitor, NEW kind \in ListKind,
           NEW page \in Nat \ {0}, NEW since, DOMAIN since = DOMAIN NoView,
           Rows(v, kind, ListOpts(IdsOf(kind), page), page, since),
           UNCHANGED <<jobs, queue, zset, dead, doubled, stranded>>,
           since.stayed \subseteq Present[kind],
           \A j \in Sure(view[v])' : \A i \in DOMAIN Listed[kind] :
               ~since.gap /\ Listed[kind][i] = j => j \in since.shown \/ (page - 1) * PageSize < i
    PROVE  ViewOK(view[v])'
<1> DEFINE w == view'[v]
           L == Listed[kind]
<1>1. IdsOf(kind) = L
  BY DEF Listed
<1>2. L \in Seq(ToSet(L)) /\ DOMAIN L = 1..Len(L)
  BY ListedSeq
<1>3. Listed' = Listed /\ Present' = Present
  BY ListsFrame
<1> DEFINE l == ListOpts(L, page)
<1>4. l \in Seq(ToSet(l))
  BY <1>2, PageSeq
<1>5. w = [since EXCEPT !.pc = "fetch", !.kind = kind, !.page = page, !.ids = l]
  BY <1>1 DEF Rows
<1> HIDE DEF l, L
<1>6. /\ DOMAIN w = DOMAIN NoView /\ w.pc = "fetch" /\ w.kind = kind /\ w.page = page /\ w.ids = l
      /\ w.stayed = since.stayed /\ w.shown = since.shown /\ w.gap = since.gap /\ w.changed = since.changed
  <2>1. DOMAIN since = {"pc", "kind", "page", "ids", "shown", "id", "count", "stayed", "changed", "gap"}
    BY DEF NoView
  <2> HIDE DEF w
  <2> QED
    BY <1>5, <2>1
<1> HIDE DEF w
<1>7. ASSUME ~w.gap, NEW j \in Sure(view[v])', NEW i \in DOMAIN L, L[i] = j PROVE Reached(view[v], j, i)'
  <2>1. CASE j \in since.shown
    BY <1>6, <2>1 DEF Reached, w
  <2>2. CASE (page - 1) * PageSize < i
    <3>1. i \in 1..Len(L)
      BY <1>2
    <3>2. \/ \E k \in 1..PageSize : k <= Len(l) /\ l[k] = L[i]
          \/ Len(l) > PageSize /\ page * PageSize < i
      BY <1>2, <2>2, <3>1, ReadPage DEF l
    <3> QED
      BY <1>6, <1>7, <3>2 DEF Reached, w
  <2>3. j \in since.shown \/ (page - 1) * PageSize < i
    BY <1>6, <1>7 DEF L
  <2> QED
    BY <2>1, <2>2, <2>3
<1>8. PagingOK(view[v])'
  <2>1. ~w.gap => \A j \in Sure(view[v])' : \A i \in DOMAIN Listed[kind] :
                    Listed[kind][i] = j => Reached(view[v], j, i)'
    BY <1>7 DEF L
  <2>2. w.kind \in ListKind /\ w.page \in Nat \ {0} /\ w.stayed \subseteq Present[w.kind] /\ w.ids \in Seq(ToSet(w.ids))
    BY <1>4, <1>6
  <2> QED
    BY <1>3, <1>6, <2>1, <2>2 DEF PagingOK, w
<1> QED
  BY <1>6, <1>8 DEF ViewOK, Paging, Finding, w

LEMMA OpenListView ==
    ASSUME OnceInv, NEW v \in Visitor, DOMAIN view = Visitor, NEW kind \in ListKind, OpenList(v, kind),
           UNCHANGED <<jobs, queue, zset, dead, doubled, stranded>>
    PROVE  ViewOK(view[v])'
<1> DEFINE since == [NoView EXCEPT !.stayed = Present[kind]]
<1>1. Rows(v, kind, ListOpts(IdsOf(kind), 1), 1, since)
  BY DEF OpenList
<1>2. DOMAIN since = DOMAIN NoView /\ since.stayed = Present[kind]
  BY DEF NoView
<1>3. DOMAIN Listed[kind] = 1..Len(Listed[kind])
  BY ListedSeq
<1>4. \A i \in DOMAIN Listed[kind] : (1 - 1) * PageSize < i
  BY <1>3, PageAssumption
<1> HIDE DEF since
<1>5. 1 \in Nat \ {0}
  OBVIOUS
<1> QED
  BY <1>1, <1>2, <1>4, <1>5, RowsView

LEMMA NextPageView ==
    ASSUME OnceInv, NEW v \in Visitor, DOMAIN view = Visitor, ViewOK(view[v]), NextPage(v),
           UNCHANGED <<jobs, queue, zset, dead, doubled, stranded>>
    PROVE  ViewOK(view[v])'
<1> DEFINE w == view[v]
           kind == w.kind
           page == w.page + 1
<1>1. w.pc = "more" /\ Rows(v, kind, ListOpts(IdsOf(kind), page), page, w)
  BY DEF NextPage
<1>2. PagingOK(w) /\ DOMAIN w = DOMAIN NoView
  BY <1>1 DEF ViewOK, Paging
<1>3. kind \in ListKind /\ w.page \in Nat \ {0} /\ page \in Nat \ {0} /\ page - 1 = w.page
      /\ w.stayed \subseteq Present[kind]
  BY <1>2 DEF PagingOK
<1>4. view'[v] = [w EXCEPT !.pc = "fetch", !.kind = kind, !.page = page, !.ids = ListOpts(IdsOf(kind), page)]
  BY <1>1 DEF Rows
<1>5. view'[v].kind = w.kind /\ view'[v].stayed = w.stayed /\ view'[v].changed = w.changed
  <2>1. DOMAIN w = {"pc", "kind", "page", "ids", "shown", "id", "count", "stayed", "changed", "gap"}
    BY <1>2 DEF NoView
  <2> HIDE DEF w
  <2> QED
    BY <1>4, <2>1
<1>6. Sure(view[v])' = Sure(w)
  BY <1>5 DEF Sure
<1>7. ASSUME ~w.gap, NEW j \in Sure(w), NEW i \in DOMAIN Listed[kind], Listed[kind][i] = j
      PROVE  j \in w.shown \/ (page - 1) * PageSize < i
  <2>1. Reached(w, j, i)
    BY <1>2, <1>7 DEF PagingOK
  <2> QED
    BY <1>1, <1>3, <2>1 DEF Reached
<1> HIDE DEF w, kind, page
<1> QED
  BY <1>1, <1>2, <1>3, <1>6, <1>7, RowsView

LEMMA InSlice ==
    ASSUME NEW S, NEW s \in Seq(S), NEW n \in Nat, NEW k \in 1..n, k <= Len(s)
    PROVE  s[k] \in ToSet(Slice(s, 1, n))
<1> DEFINE m == IF n < Len(s) THEN n ELSE Len(s)
           t == SubSeq(s, 1, m)
<1>1. Len(s) \in Nat /\ DOMAIN s = 1..Len(s) /\ m \in Nat /\ k \in 1..m /\ m <= Len(s)
  OBVIOUS
<1>2. Slice(s, 1, n) = t
  BY DEF Slice
<1> HIDE DEF m
<1>3. t \in Seq(S) /\ Len(t) = m /\ \A i \in 1..m : t[i] = s[i]
  BY <1>1
<1>4. DOMAIN t = 1..m
  BY <1>1, <1>3
<1> HIDE DEF t
<1> QED
  BY <1>1, <1>2, <1>3, <1>4 DEF ToSet

LEMMA ShowPageView ==
    ASSUME NEW v \in Visitor, DOMAIN view = Visitor, ViewOK(view[v]), ShowPage(v),
           UNCHANGED <<jobs, queue, zset, dead, doubled, stranded>>
    PROVE  ViewOK(view[v])'
<1> DEFINE w == view[v]
           x == view'[v]
           rows == WithEnvelope(w.kind, w.ids)
<1>1. w.pc = "fetch" /\ PagingOK(w) /\ DOMAIN w = DOMAIN NoView
  BY DEF ViewOK, Paging, ShowPage
<1>2. x = [w EXCEPT !.pc = IF Len(rows) > PageSize THEN "more" ELSE "end",
                    !.shown = @ \cup ToSet(Slice(rows, 1, PageSize)),
                    !.gap = @ \/ rows /= w.ids,
                    !.ids = <<>>]
  BY DEF ShowPage
<1> HIDE DEF rows, x
<1>3. /\ DOMAIN x = DOMAIN NoView /\ x.pc = (IF Len(rows) > PageSize THEN "more" ELSE "end")
      /\ x.shown = w.shown \cup ToSet(Slice(rows, 1, PageSize))
      /\ x.gap = (w.gap \/ rows /= w.ids)
      /\ x.kind = w.kind /\ x.page = w.page /\ x.stayed = w.stayed /\ x.changed = w.changed
  <2>1. DOMAIN w = {"pc", "kind", "page", "ids", "shown", "id", "count", "stayed", "changed", "gap"}
    BY <1>1 DEF NoView
  <2> HIDE DEF w
  <2> QED
    BY <1>1, <1>2, <2>1
<1>4. Listed' = Listed /\ Present' = Present
  BY ListsFrame
<1>5. Sure(view[v])' = Sure(w)
  BY <1>3 DEF Sure, x
<1>6. ASSUME ~x.gap, NEW j \in Sure(w), NEW i \in DOMAIN Listed[w.kind], Listed[w.kind][i] = j
      PROVE  Reached(view[v], j, i)'
  <2>1. ~w.gap /\ rows = w.ids
    BY <1>3, <1>6
  <2>2. Reached(w, j, i)
    BY <1>1, <1>6, <2>1 DEF PagingOK
  <2>3. CASE j \in w.shown
    BY <1>3, <2>3 DEF Reached, x
  <2>4. ASSUME NEW k \in 1..PageSize, k <= Len(w.ids), w.ids[k] = j PROVE Reached(view[v], j, i)'
    <3>1. w.ids \in Seq(ToSet(w.ids)) /\ PageSize \in Nat
      BY <1>1, PageAssumption DEF PagingOK
    <3>2. j \in ToSet(Slice(w.ids, 1, PageSize))
      BY <2>4, <3>1, InSlice
    <3> QED
      BY <1>3, <2>1, <3>2 DEF Reached, x
  <2>5. CASE Len(w.ids) > PageSize /\ w.page * PageSize < i
    BY <1>3, <2>1, <2>5 DEF Reached, x
  <2> QED
    BY <1>1, <2>2, <2>3, <2>4, <2>5 DEF Reached
<1>7. PagingOK(view[v])'
  <2>1. x.kind \in ListKind /\ x.page \in Nat \ {0} /\ x.stayed \subseteq Present[x.kind] /\ x.pc # "fetch"
    BY <1>1, <1>3 DEF PagingOK
  <2> QED
    BY <1>3, <1>4, <1>5, <1>6, <2>1 DEF PagingOK, x
<1> QED
  BY <1>3, <1>7 DEF ViewOK, Paging, Finding, x

LEMMA FindJobView ==
    ASSUME OnceInv, NEW v \in Visitor, DOMAIN view = Visitor, NEW j \in accepted, FindJob(v, j),
           UNCHANGED <<jobs, dead>>
    PROVE  ViewOK(view[v])'
<1> DEFINE x == view'[v]
<1>1. x = [NoView EXCEPT !.id = j, !.pc = IF jobs[j] /= None THEN "found" ELSE "count"]
  BY DEF FindJob
<1>2. j \in Id
  BY OnceIds DEF RedisOK
<1> HIDE DEF x
<1>3. /\ DOMAIN x = DOMAIN NoView /\ x.id = j /\ x.kind = None
      /\ x.pc = (IF jobs[j] /= None THEN "found" ELSE "count")
  BY <1>1 DEF NoView
<1> QED
  BY <1>2, <1>3 DEF ViewOK, Paging, Finding, FindingOK, x

LEMMA FindDeadCountView ==
    ASSUME NEW v \in Visitor, DOMAIN view = Visitor, ViewOK(view[v]), FindDeadCount(v), UNCHANGED <<jobs, dead>>
    PROVE  ViewOK(view[v])'
<1> DEFINE w == view[v]
           x == view'[v]
<1>1. w.pc = "count" /\ FindingOK(w) /\ DOMAIN w = DOMAIN NoView
  BY DEF ViewOK, Finding, FindDeadCount
<1>2. x = [w EXCEPT !.pc = IF dead = <<>> THEN "missing" ELSE "search", !.count = Len(dead)]
  BY DEF FindDeadCount
<1> HIDE DEF x
<1>3. /\ DOMAIN x = DOMAIN NoView /\ x.id = w.id /\ x.kind = w.kind /\ x.changed = w.changed
      /\ x.count = Len(dead) /\ x.pc = (IF dead = <<>> THEN "missing" ELSE "search")
  <2>1. DOMAIN w = {"pc", "kind", "page", "ids", "shown", "id", "count", "stayed", "changed", "gap"}
    BY <1>1 DEF NoView
  <2> HIDE DEF w
  <2> QED
    BY <1>1, <1>2, <2>1
<1>4. FindingOK(view[v])'
  BY <1>1, <1>3, InEmpty DEF FindingOK, x
<1> QED
  BY <1>3, <1>4 DEF ViewOK, Paging, Finding, x

LEMMA FindDeadView ==
    ASSUME OnceInv, NEW v \in Visitor, DOMAIN view = Visitor, ViewOK(view[v]), FindDead(v), UNCHANGED <<jobs, dead>>
    PROVE  ViewOK(view[v])'
<1> DEFINE w == view[v]
           x == view'[v]
           part == Slice(IdsOf("dead"), 1, w.count)
<1>1. w.pc = "search" /\ FindingOK(w) /\ DOMAIN w = DOMAIN NoView
  BY DEF ViewOK, Finding, FindDead
<1>2. x = [w EXCEPT !.pc = IF Contains(part, w.id) THEN "found" ELSE "missing"]
  BY DEF FindDead
<1> HIDE DEF x, part
<1>3. /\ DOMAIN x = DOMAIN NoView /\ x.id = w.id /\ x.kind = w.kind /\ x.changed = w.changed
      /\ x.pc = (IF Contains(part, w.id) THEN "found" ELSE "missing")
  <2>1. DOMAIN w = {"pc", "kind", "page", "ids", "shown", "id", "count", "stayed", "changed", "gap"}
    BY <1>1 DEF NoView
  <2> HIDE DEF w
  <2> QED
    BY <1>1, <1>2, <2>1
<1>4. ASSUME ~w.changed, w.id \in DeadIds(dead) PROVE Contains(part, w.id)
  <2>1. dead \in Seq(Entries) /\ w.count = Len(dead)
    BY <1>1, <1>4, OnceIds DEF FindingOK
  <2>2. /\ DOMAIN Listed["dead"] = 1..Len(dead) /\ Len(dead) \in Nat /\ DOMAIN dead = 1..Len(dead)
        /\ \A i \in 1..Len(dead) :
             (Len(dead) - i) + 1 \in 1..Len(dead) /\ Listed["dead"][i] = dead[(Len(dead) - i) + 1].id
    BY <2>1, DeadListed
  <2>3. PICK k \in 1..Len(dead) : dead[k].id = w.id
    BY <1>4, <2>2 DEF DeadIds
  <2> DEFINE n == (Len(dead) - k) + 1
  <2>4. n \in 1..Len(dead) /\ (Len(dead) - n) + 1 = k
    BY <2>2
  <2>5. Listed["dead"][n] = w.id
    BY <2>2, <2>3, <2>4
  <2> HIDE DEF n
  <2>6. IdsOf("dead") = Listed["dead"] /\ Listed["dead"] \in Seq(ToSet(Listed["dead"])) /\ Len(Listed["dead"]) = Len(dead)
    <3>1. "dead" \in ListKind
      BY KindNames
    <3>2. IdsOf("dead") = Listed["dead"]
      BY <3>1 DEF Listed
    <3>3. Listed["dead"] \in Seq(ToSet(Listed["dead"])) /\ DOMAIN Listed["dead"] = 1..Len(Listed["dead"])
      BY <3>1, ListedSeq
    <3>4. Len(Listed["dead"]) = Len(dead)
      BY <2>2, <3>3
    <3> QED
      BY <3>2, <3>3, <3>4
  <2> DEFINE D == Listed["dead"]
  <2> HIDE DEF D
  <2>7. part = SubSeq(D, 1, Len(D))
    BY <2>1, <2>2, <2>6 DEF part, Slice, D
  <2>8. part = D
    BY <2>6, <2>7, SubSeqFull DEF D
  <2> QED
    BY <2>4, <2>5, <2>6, <2>8 DEF Contains, D
<1>5. x.pc = "missing" => FindingOK(view[v])'
  BY <1>1, <1>3, <1>4 DEF FindingOK, x
<1> QED
  BY <1>3, <1>5 DEF ViewOK, Paging, Finding, x

LEMMA OthersView ==
    ASSUME OnceInv, OnceInv', NEW v \in Visitor, ViewOK(view[v]), Others
    PROVE  ViewOK(view[v])'
<1> DEFINE w == view[v]
           x == view'[v]
<1>1. Next /\ DOMAIN w = DOMAIN NoView /\ w.pc \in Paging \cup Finding \cup {"closed", "found"}
  BY DEF Others, ViewOK
<1>2. CASE w.pc \in {"closed", "found"}
  <2>1. x = w
    BY <1>2 DEF Others
  <2> QED
    BY <1>1, <1>2, <2>1 DEF ViewOK, Paging, Finding, NoView
<1>3. CASE w.pc \in Paging
  <2>1. PagingOK(w)
    BY <1>3 DEF ViewOK
  <2>2. w.kind \in ListKind /\ w.kind # None
    BY <2>1, KindNames DEF PagingOK
  <2> DEFINE kind == w.kind
  <2>3. x = [w EXCEPT !.stayed = @ \cap Present'[kind],
                      !.changed = @ \/ (Present'[kind] /= Present[kind] \/ Listed'[kind] /= Listed[kind])]
    BY <1>3, <2>2 DEF Others, Paging
  <2> HIDE DEF x
  <2>4. /\ DOMAIN x = DOMAIN NoView /\ x.pc = w.pc /\ x.kind = kind /\ x.page = w.page /\ x.ids = w.ids
        /\ x.shown = w.shown /\ x.gap = w.gap
        /\ x.stayed = w.stayed \cap Present'[kind]
        /\ x.changed = (w.changed \/ Present'[kind] /= Present[kind] \/ Listed'[kind] /= Listed[kind])
    <3>1. DOMAIN w = {"pc", "kind", "page", "ids", "shown", "id", "count", "stayed", "changed", "gap"}
      BY <1>1 DEF NoView
    <3> HIDE DEF w
    <3> QED
      BY <1>1, <2>3, <3>1
  <2>5. ASSUME ~x.gap, NEW j \in Sure(view[v])', NEW i \in DOMAIN Listed'[kind], Listed'[kind][i] = j
        PROVE  Reached(view[v], j, i)'
    <3>1. j \in Sure(w) /\ j \in w.stayed
      BY <1>1, <2>4, GrowNext DEF Sure, x
    <3>2. j \in ToSet(Listed[kind])
      BY <2>1, <2>2, <3>1 DEF PagingOK, Present
    <3>3. PICK n \in DOMAIN Listed[kind] : Listed[kind][n] = j
      BY <3>2 DEF ToSet
    <3>4. CASE kind \in ZSet
      <4>1. Listed'[kind] = Listed[kind]
        BY <2>4, <2>5, <3>4 DEF Sure, x
      <4>2. Reached(w, j, i)
        BY <2>1, <2>4, <2>5, <3>1, <4>1 DEF PagingOK
      <4> QED
        BY <2>4, <4>2 DEF Reached, x
    <3>5. CASE kind \notin ZSet
      <4>1. kind \in {"queue", "dead"}
        BY <2>2, <3>5 DEF ListKind
      <4>2. j \in Job /\ j \notin doubled' \cup stranded'
        BY <2>4, <2>5, <3>5 DEF Sure, x
      <4>3. n <= i /\ n \in Nat /\ i \in Nat
        BY <1>1, <2>5, <3>3, <4>1, <4>2, ListOnward
      <4>4. Reached(w, j, n)
        BY <2>1, <2>4, <2>5, <3>1, <3>3 DEF PagingOK
      <4>5. w.page * PageSize < n => w.page * PageSize < i
        <5>1. w.page * PageSize \in Nat
          BY <2>1, PageAssumption DEF PagingOK
        <5> QED
          BY <4>3, <5>1
      <4> QED
        BY <2>4, <4>4, <4>5 DEF Reached, x
    <3> QED
      BY <3>4, <3>5
  <2>6. PagingOK(view[v])'
    <3>1. x.kind \in ListKind /\ x.page \in Nat \ {0} /\ x.stayed \subseteq Present'[x.kind]
          /\ (x.pc = "fetch" => x.ids \in Seq(ToSet(x.ids)))
      BY <2>1, <2>4 DEF PagingOK
    <3> QED
      BY <2>4, <2>5, <3>1 DEF PagingOK, x
  <2> QED
    BY <1>3, <2>4, <2>6 DEF ViewOK, Paging, Finding, x
<1>4. CASE w.pc \in Finding
  <2>1. FindingOK(w)
    BY <1>4 DEF ViewOK
  <2>2. x = [w EXCEPT !.stayed = w.stayed, !.changed = @ \/ (dead' /= dead \/ jobs'[w.id] /= jobs[w.id])]
    BY <1>4, <2>1 DEF Others, Finding, FindingOK
  <2> HIDE DEF x
  <2>3. /\ DOMAIN x = DOMAIN NoView /\ x.pc = w.pc /\ x.kind = w.kind /\ x.id = w.id /\ x.count = w.count
        /\ x.changed = (w.changed \/ dead' /= dead \/ jobs'[w.id] /= jobs[w.id])
    <3>1. DOMAIN w = {"pc", "kind", "page", "ids", "shown", "id", "count", "stayed", "changed", "gap"}
      BY <1>1 DEF NoView
    <3> HIDE DEF w
    <3> QED
      BY <1>1, <2>2, <3>1
  <2>4. FindingOK(view[v])'
    BY <2>1, <2>3 DEF FindingOK, x
  <2> QED
    BY <1>4, <2>3, <2>4 DEF ViewOK, Paging, Finding, x
<1> QED
  BY <1>1, <1>2, <1>3, <1>4

LEMMA VisitFrame ==
    ASSUME NEW v, Visit(v)
    PROVE  UNCHANGED <<plan, now, redis, memory, history>> /\ UNCHANGED <<jobs, queue, zset, dead, doubled, stranded>>
BY DEF Visit, redis, memory, history

LEMMA VisitOthers ==
    ASSUME NEW v \in Visitor, DOMAIN view = Visitor, Visit(v)
    PROVE  DOMAIN view' = Visitor /\ \A u \in Visitor \ {v} : view'[u] = view[u]
BY DEF Visit, OpenList, NextPage, Rows, ShowPage, FindJob, FindDeadCount, FindDead

LEMMA VisitView ==
    ASSUME OnceInv, NEW v \in Visitor, DOMAIN view = Visitor, ViewOK(view[v]), Visit(v)
    PROVE  ViewOK(view[v])'
<1>1. UNCHANGED <<jobs, queue, zset, dead, doubled, stranded>>
  BY DEF Visit, redis, history
<1>2. ASSUME NEW kind \in ListKind, OpenList(v, kind) PROVE ViewOK(view[v])'
  BY <1>1, <1>2, OpenListView
<1>3. ASSUME NEW j \in accepted, FindJob(v, j) PROVE ViewOK(view[v])'
  BY <1>1, <1>3, FindJobView
<1>4. CASE NextPage(v)
  BY <1>1, <1>4, NextPageView
<1>5. CASE ShowPage(v)
  BY <1>1, <1>5, ShowPageView
<1>6. CASE FindDeadCount(v)
  BY <1>1, <1>6, FindDeadCountView
<1>7. CASE FindDead(v)
  BY <1>1, <1>7, FindDeadView
<1> QED
  BY <1>2, <1>3, <1>4, <1>5, <1>6, <1>7 DEF Visit

LEMMA DashboardInitInv == DashboardInit => DashboardInv
<1> SUFFICES ASSUME DashboardInit PROVE DashboardInv
  OBVIOUS
<1>1. OnceInv
  BY OnceInit DEF DashboardInit
<1>2. DOMAIN view = Visitor /\ \A v \in Visitor : view[v] = NoView
  BY DEF DashboardInit
<1>3. NoView.pc = "closed"
  BY DEF NoView
<1>4. ViewOK(NoView)
  BY <1>3 DEF ViewOK, Paging, Finding
<1> QED
  BY <1>1, <1>2, <1>4 DEF DashboardInv

LEMMA DashboardStep == DashboardInv /\ [DashboardNext]_<<vars, view>> => DashboardInv'
<1> SUFFICES ASSUME DashboardInv, [DashboardNext]_<<vars, view>> PROVE DashboardInv'
  OBVIOUS
<1>1. OnceInv /\ DOMAIN view = Visitor /\ \A v \in Visitor : ViewOK(view[v])
  BY DEF DashboardInv
<1>2. CASE Others
  <2>1. OnceInv'
    BY <1>1, <1>2, OnceNext DEF Others
  <2>2. DOMAIN view' = Visitor
    BY <1>2 DEF Others
  <2>3. ASSUME NEW v \in Visitor PROVE ViewOK(view[v])'
    BY <1>1, <1>2, <2>1, OthersView
  <2> QED
    BY <2>1, <2>2, <2>3 DEF DashboardInv
<1>3. ASSUME NEW v \in Visitor, Visit(v) PROVE DashboardInv'
  <2>1. OnceInv'
    BY <1>1, <1>3, VisitFrame, OnceFrame
  <2>2. DOMAIN view' = Visitor /\ \A u \in Visitor \ {v} : view'[u] = view[u]
    BY <1>1, <1>3, VisitOthers
  <2>3. ASSUME NEW u \in Visitor, u # v PROVE ViewOK(view[u])'
    BY <1>1, <1>3, <2>2, <2>3, VisitFrame, ViewFrame
  <2>4. ViewOK(view[v])'
    BY <1>1, <1>3, VisitView
  <2>5. \A u \in Visitor : ViewOK(view[u])'
    BY <2>3, <2>4
  <2> QED
    BY <2>1, <2>2, <2>5 DEF DashboardInv
<1>4. CASE UNCHANGED <<vars, view>>
  <2>1. UNCHANGED <<plan, now, redis, memory, history>> /\ UNCHANGED <<jobs, queue, zset, dead, doubled, stranded>>
    BY <1>4 DEF vars, redis, memory, history
  <2>2. OnceInv'
    BY <1>1, <2>1, OnceFrame
  <2>3. ASSUME NEW u \in Visitor PROVE ViewOK(view[u])'
    BY <1>1, <1>4, <2>1, ViewFrame
  <2> QED
    BY <1>1, <1>4, <2>2, <2>3 DEF DashboardInv
<1> QED
  BY <1>2, <1>3, <1>4 DEF DashboardNext

LEMMA InvHidesNothing == DashboardInv => NothingHidden
<1> SUFFICES ASSUME DashboardInv, NEW v \in Visitor
             PROVE  /\ view[v].pc = "end" /\ ~view[v].gap => Sure(view[v]) \subseteq view[v].shown
                    /\ view[v].pc = "missing" /\ ~view[v].changed =>
                         jobs[view[v].id] = None /\ view[v].id \notin DeadIds(dead)
  BY DEF NothingHidden, Sure
<1> DEFINE w == view[v]
<1>1. ViewOK(w)
  BY DEF DashboardInv
<1> HIDE DEF w
<1>2. ASSUME w.pc = "end", ~w.gap, NEW j \in Sure(w) PROVE j \in w.shown
  <2>1. PagingOK(w)
    BY <1>1, <1>2 DEF ViewOK, Paging
  <2>2. j \in w.stayed
    BY <1>2 DEF Sure
  <2>3. j \in ToSet(Listed[w.kind])
    BY <2>1, <2>2 DEF PagingOK, Present
  <2>4. PICK i \in DOMAIN Listed[w.kind] : Listed[w.kind][i] = j
    BY <2>3 DEF ToSet
  <2>5. Reached(w, j, i)
    BY <1>2, <2>1, <2>4 DEF PagingOK
  <2> QED
    BY <1>2, <2>5 DEF Reached
<1>3. ASSUME w.pc = "missing", ~w.changed PROVE jobs[w.id] = None /\ w.id \notin DeadIds(dead)
  BY <1>1, <1>3 DEF ViewOK, Finding, FindingOK
<1> QED
  BY <1>2, <1>3 DEF w

(* NothingHidden: whatever clients, operators and loops do between the     *)
(* reads, for any page size and any number of visitors, the pages of a     *)
(* queue or of the dead list show every job that stays there (unless its   *)
(* id may be there twice), those of a sorted set that did not change show  *)
(* all of it, unless an id without an envelope cut a page short; and a job *)
(* reported missing is nowhere, unless it changed meanwhile.               *)
THEOREM VisitorsMissNothing == DashboardSpec => []NothingHidden
<1>1. DashboardSpec => []DashboardInv
  BY DashboardInitInv, DashboardStep, PTL DEF DashboardSpec
<1> QED
  BY <1>1, InvHidesNothing, PTL

LEMMA CronFrame == ASSUME CronSafe, OnceInv', UNCHANGED <<plan, now, redis, memory, history>> PROVE CronSafe'
<1> SUFFICES ASSUME "revive" \notin plan, CronInv PROVE CronInv'
  BY DEF CronSafe
<1>1. UNCHANGED <<plan, now, queue, zset, pc, ids, cron, drain, runs, late>>
  BY DEF redis, memory, history
<1>2. MaintenanceInv' /\ NotReviving' /\ \A p \in Proc : CronDue(p)'
  BY <1>1 DEF OnceInv, CronInv, NotReviving, CronDue
<1>3. ASSUME NEW o \in Occurrence PROVE Timely(o)' /\ Counted(o)'
  <2>1. Timely(o) /\ Counted(o)
    BY DEF CronInv
  <2>2. Timely(o)'
    BY <1>1, <2>1 DEF Timely
  <2>3. Carriers(o)' = Carriers(o) /\ \A c \in Caller : Load(c)' = Load(c)
    BY <1>1 DEF Carriers, Load
  <2>4. Left(o)' = Left(o) /\ Scheduled(o)' = Scheduled(o)
    BY <1>1, <2>3 DEF Left, Popped, Scheduled
  <2>5. Counted(o)'
    BY <1>1, <2>1, <2>3, <2>4 DEF Counted
  <2> QED
    BY <2>2, <2>5
<1> QED
  BY <1>1, <1>2, <1>3 DEF CronInv

(* What Maintenance guarantees holds with visitors as well: between the    *)
(* reads of the pages jobs are kept, none is revived twice, and a cron     *)
(* occurrence runs once.                                                   *)
THEOREM VisitorsDisturbNothing == DashboardSpec => [](JobKept /\ RevivedOnce /\ CronRunsOnce)
<1>1. DashboardInit => DashboardInv /\ CronSafe
  BY DashboardInitInv, CronInit DEF DashboardInit, CronSafe
<1>2. ASSUME DashboardInv, CronSafe, [DashboardNext]_<<vars, view>> PROVE DashboardInv' /\ CronSafe'
  <2>1. DashboardInv' /\ OnceInv'
    BY <1>2, DashboardStep DEF DashboardInv
  <2>2. CASE Others
    <3>1. Next
      BY <2>2 DEF Others
    <3> QED
      BY <1>2, <2>1, <3>1, CronSafeNext
  <2>3. ASSUME NEW v \in Visitor, Visit(v) PROVE CronSafe'
    BY <1>2, <2>1, <2>3, VisitFrame, CronFrame
  <2>4. CASE UNCHANGED <<vars, view>>
    <3>1. UNCHANGED <<plan, now, redis, memory, history>>
      BY <2>4 DEF vars
    <3> QED
      BY <1>2, <2>1, <3>1, CronFrame
  <2> QED
    BY <1>2, <2>1, <2>2, <2>3, <2>4 DEF DashboardNext
<1>3. DashboardInv /\ CronSafe => JobKept /\ RevivedOnce /\ CronRunsOnce
  BY InvImpliesKept, OnceImpliesRevivedOnce, CronSafeImplies DEF DashboardInv, OnceInv
<1> QED
  BY <1>1, <1>2, <1>3, PTL DEF DashboardSpec

=============================================================================
