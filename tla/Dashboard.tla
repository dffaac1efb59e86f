----------------------------- MODULE Dashboard -----------------------------
(***************************************************************************)
(* The pages of the dashboard that list jobs (queue_detail, dead_jobs,     *)
(* retry_jobs, scheduled_jobs) and the page of one job (find_job), read    *)
(* while clients, operators and loops go on as Maintenance says.           *)
(*                                                                         *)
(* A page is put together from separate reads; a visitor follows the link  *)
(* to the next page as long as there is one.  Totals and layout are left   *)
(* out.                                                                    *)
(***************************************************************************)
EXTENDS Maintenance

CONSTANTS
    Visitor,    \* visitors, each of whom opens one list or one job
    PageSize    \* JOBS_PER_PAGE

ListKind == {"queue", "dead"} \cup ZSet

ASSUME PageAssumption == PageSize \in Nat \ {0} /\ None \notin ListKind

VARIABLE view    \* what each visitor has read

NoView ==
    [pc |-> "closed", kind |-> None, page |-> 1, ids |-> <<>>, shown |-> {},
     id |-> None, count |-> 0,
     stayed |-> {},        \* history: jobs in the list, with an envelope, since the first page
     changed |-> FALSE,    \* history: what the view is about changed since it was opened
     gap |-> FALSE]        \* history: an id of a page had no envelope

DashboardInit == Init /\ view = [v \in Visitor |-> NoView]

---------------------------------------------------------------------------
(* Lists in the order LRANGE and ZRANGE return them *)

(* ZRANGE: by score *)
ByScore(S, score) ==
    LET s == SetToSeq(S)
        before(i) == { k \in DOMAIN s : \/ score[s[k]] < score[s[i]]
                                        \/ score[s[k]] = score[s[i]] /\ k < i }
    IN  [n \in DOMAIN s |-> s[CHOOSE i \in DOMAIN s : Cardinality(before(i)) = n - 1]]

IdsOf(kind) ==
    CASE kind = "queue" -> Reverse(queue)
      [] kind = "dead" -> LET newest == Reverse(dead) IN [i \in DOMAIN newest |-> newest[i].id]
      [] OTHER -> ByScore({ j \in Id : zset[kind][j] /= None }, zset[kind])

(* A dead entry is its own envelope. *)
Readable(kind, j) == kind = "dead" \/ jobs[j] /= None

Listed == [kind \in ListKind |-> IdsOf(kind)]
Present == [kind \in ListKind |-> { j \in ToSet(Listed[kind]) : Readable(kind, j) }]

Slice(list, from, to) == SubSeq(list, from, IF to < Len(list) THEN to ELSE Len(list))

(* Mutant: a page asks for no more than it shows. *)
ListOptsExact(list, page) == Slice(list, (page - 1) * PageSize + 1, page * PageSize)

(* list_opts: one job more than the page shows *)
ListOpts(list, page) == Slice(list, (page - 1) * PageSize + 1, page * PageSize + 1)

---------------------------------------------------------------------------
(* list_queue_jobs, list_retries, list_scheduled read the ids first; the   *)
(* entries of list_dead are complete.                                      *)

Rows(v, kind, ids0, page, since) ==
    view' = [view EXCEPT ![v] = [since EXCEPT
        !.pc = "fetch", !.kind = kind, !.page = page, !.ids = ids0]]

Open(v) ==
    /\ "browse" \in plan
    /\ view[v].pc = "closed"
    /\ calls > 0
    /\ calls' = calls - 1

OpenList(v, kind) ==
    /\ Open(v)
    /\ Rows(v, kind, ListOpts(IdsOf(kind), 1), 1, [NoView EXCEPT !.stayed = Present[kind]])

NextPage(v) ==
    LET kind == view[v].kind
        page == view[v].page + 1
    IN  /\ view[v].pc = "more"
        /\ Rows(v, kind, ListOpts(IdsOf(kind), page), page, view[v])

(* get_many drops the ids without an envelope *)
WithEnvelope(kind, list) == SelectSeq(list, LAMBDA j : Readable(kind, j))

(* has_next and truncate *)
ShowPage(v) ==
    LET rows == WithEnvelope(view[v].kind, view[v].ids) IN
    /\ view[v].pc = "fetch"
    /\ view' = [view EXCEPT
         ![v].pc = IF Len(rows) > PageSize THEN "more" ELSE "end",
         ![v].shown = @ \cup ToSet(Slice(rows, 1, PageSize)),
         ![v].gap = @ \/ rows /= view[v].ids,
         ![v].ids = <<>>]

---------------------------------------------------------------------------
(* find_job: get_job, dead_count, and list_dead of that many *)

FindJob(v, j) ==
    /\ Open(v)
    /\ view' = [view EXCEPT ![v] = [NoView EXCEPT
         !.id = j, !.pc = IF jobs[j] /= None THEN "found" ELSE "count"]]

FindDeadCount(v) ==
    /\ view[v].pc = "count"
    /\ view' = [view EXCEPT ![v].pc = IF dead = <<>> THEN "missing" ELSE "search",
                            ![v].count = Len(dead)]

FindDead(v) ==
    /\ view[v].pc = "search"
    /\ view' = [view EXCEPT ![v].pc =
         IF Contains(Slice(IdsOf("dead"), 1, view[v].count), view[v].id) THEN "found" ELSE "missing"]

Visit(v) ==
    /\ \/ \E kind \in ListKind : OpenList(v, kind)
       \/ \E j \in accepted : FindJob(v, j)
       \/ (NextPage(v) \/ ShowPage(v) \/ FindDeadCount(v) \/ FindDead(v)) /\ UNCHANGED calls
    /\ UNCHANGED <<plan, now, redis, memory, history, faults>>

---------------------------------------------------------------------------
(* A step of the others, seen by the open views *)
Others ==
    /\ Next
    /\ view' = [v \in Visitor |->
         IF view[v].pc \notin {"closed", "found"}
         THEN [view[v] EXCEPT
                 !.stayed = IF view[v].kind = None THEN @ ELSE @ \cap Present'[view[v].kind],
                 !.changed = @ \/ IF view[v].kind = None
                                  THEN dead' /= dead \/ jobs'[view[v].id] /= jobs[view[v].id]
                                  ELSE \/ Present'[view[v].kind] /= Present[view[v].kind]
                                       \/ Listed'[view[v].kind] /= Listed[view[v].kind]]
         ELSE view[v]]

DashboardNext == Others \/ \E v \in Visitor : Visit(v)

DashboardSpec == DashboardInit /\ [][DashboardNext]_<<vars, view>> /\ Fairness

---------------------------------------------------------------------------
(* Nothing is hidden from a visitor.  New jobs enter a list at the end the *)
(* pages start from, so following the pages of a queue or of the dead list *)
(* to the last shows every job that stays there meanwhile, unless its id   *)
(* may be in the list twice; a sorted set loses jobs from the front, and   *)
(* jobs may move to a page already seen.  Only an id without an envelope   *)
(* ends the pages too early.  A job that is reported missing is neither    *)
(* waiting nor dead, unless it, or the dead list, changed between the      *)
(* reads.                                                                  *)
NothingHidden ==
    \A v \in Visitor :
        LET w == view[v]
            sure == IF w.kind \in ZSet THEN IF w.changed THEN {} ELSE w.stayed
                    ELSE (w.stayed \cap Job) \ (doubled \cup stranded)
        IN
        /\ w.pc = "end" /\ ~w.gap => sure \subseteq w.shown
        /\ w.pc = "missing" /\ ~w.changed => jobs[w.id] = None /\ w.id \notin DeadIds(dead)

=============================================================================
